\* A mailbox on a POP3 server, sessions two deep, up to two messages.
SPECIFICATION Spec
CONSTANTS
    Setups <- MCSetups
    Fds <- MCFds
    MaxMail = 2
    Garbage <- MCGarbage
\* The program may end over a certificate.
CHECK_DEADLOCK FALSE
INVARIANTS NothingLost InStep CountsAreTheServers HeadersInOrder SessionsAreChecked
