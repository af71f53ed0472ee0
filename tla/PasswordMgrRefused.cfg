\* Two accounts, one of whose passwords is refused once.
CONSTANTS
    b1 = b1
    b2 = b2
    b3 = b3
    work = work
    home = home
    n1 = n1
    n2 = n2
    NULL = NULL
    Boxes <- ThreeBoxes
    Accounts <- TwoAccounts
    Setups <- ApartRefused
    Typed <- PlainOrOther
    Nodes <- TwoNodes
SPECIFICATION Spec
CHECK_DEADLOCK FALSE
PROPERTY LookupReturns
