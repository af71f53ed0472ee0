\* As in Shell.cfg: numbers with and without "new", in classic mode and outside it.
CONSTANTS
    Outputs <- MCOutputs
    Modes = {TRUE, FALSE}
    Pids = {p1, p2, p3}
    NULL = NULL
    SUBJ_LEN = 3
SPECIFICATION Spec
INVARIANTS NumbersAreShown
