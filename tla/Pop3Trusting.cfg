\* TLS without a certfile: what the manual promises then.
SPECIFICATION Spec
CONSTANTS
    Setups <- TlsWithoutFile
    Fds <- MCFds
    MaxMail = 2
    Garbage <- MCGarbage
CHECK_DEADLOCK FALSE
INVARIANT TrustsAll
