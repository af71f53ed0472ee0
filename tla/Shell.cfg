\* A shell mailbox, another whose path runs a command, and other children;
\* three children at a time, subjects of two characters.
CONSTANTS
    Outputs <- MCOutputs
    Modes = {TRUE, FALSE}
    Pids = {p1, p2, p3}
    NULL = NULL
    SUBJ_LEN = 3
SPECIFICATION Spec
INVARIANTS CommandIsOurs HandlerComesBack OnlyMissedLinger RowIsCurrent HeadersAreLines
