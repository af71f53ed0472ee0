\* The message that clients keep for themselves may be unread.
CONSTANTS
    Setups <- MCSetups
    Kinds <- MCKinds
    MaxMsgs = 2
    MaxTime = 3
SPECIFICATION MboxSpec
INVARIANTS OwnIsIgnored
