\* TLS with a certfile: what the manual promises of it.
SPECIFICATION Spec
CONSTANTS
    Setups <- TlsOnly
    Fds <- MCFds
    MaxMail = 2
    Garbage <- MCGarbage
CHECK_DEADLOCK FALSE
INVARIANT ExitsOnFailure
