\* Other programs act between checks; or, where sizes tell of every change,
\* mail also arrives and is read during checks.
CONSTANTS
    Setups <- MCSetups
    Kinds <- MCKinds
    MaxMsgs = 2
    MaxTime = 3
SPECIFICATION MboxSpec
INVARIANTS ChecksTellTheTruth NoTraceOfTheCheck
