\* Other programs change the maildir between checks, or at any time if the
\* F flag is set.
CONSTANTS
    Setups <- GoodSetups
    MaxFiles = 1
    MaxTime = 2
SPECIFICATION Spec
INVARIANTS ChecksTellTheTruth
