\* What passwordMgr.c says of mailboxes that share an account, for POP3.
CONSTANTS
    b1 = b1
    b2 = b2
    b3 = b3
    work = work
    home = home
    n1 = n1
    n2 = n2
    NULL = NULL
    Boxes <- ThreeBoxes
    Accounts <- TwoAccounts
    Setups <- PopShared
    Typed <- PlainOrOther
    Nodes <- TwoNodes
SPECIFICATION Spec
CHECK_DEADLOCK FALSE
PROPERTY AskedOnce
