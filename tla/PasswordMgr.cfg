\* Accounts shared by IMAP and POP3 mailboxes and nested logins, or a single mailbox and a refused password.
\* A cancelled question ends the program.
CONSTANTS
    b1 = b1
    b2 = b2
    b3 = b3
    work = work
    home = home
    n1 = n1
    n2 = n2
    NULL = NULL
    Boxes <- ThreeBoxes
    Accounts <- TwoAccounts
    Setups <- GoodSetups
    Typed <- Anything
    Nodes <- TwoNodes
SPECIFICATION Spec
CHECK_DEADLOCK FALSE
INVARIANTS OneBindingEach
PROPERTIES ImapAsksOnce LookupReturns ImplementsCache
