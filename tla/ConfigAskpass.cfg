\* Askpass programs for all the mailboxes and for one, with a dot and without.
CONSTANTS
    Lines <- MCLines
    MAX_LINES = 2
    Options <- MCOptions
    Spools = {"/var/mail/me", "toolong"}
    MAX_NUM_MAILBOXES = 3
    BUF_SMALL = 32
    BUF_BIG = 256
    NONE = NONE
    Length <- MCLength
    Padded <- MCPadded
    Cut <- MCCut
    atoi <- MCatoi
    Scheme <- MCScheme
    Letters <- MCLetters
    WellFormed <- MCWellFormed
    Rest <- MCRest
SPECIFICATION ConfigSpec
INVARIANTS AskpassPerMailbox
CHECK_DEADLOCK FALSE
