------------------------------- MODULE MCPop3 -------------------------------
\* Instances of Pop3: one mailbox, servers that know more or fewer commands.
EXTENDS Pop3

NoFile == [skip |-> FALSE, priorities |-> TRUE, file |-> <<>>, certfile |-> "none",
           corrupted |-> FALSE]
Plain == [dossl |-> FALSE, opt |-> NoFile, authList |-> {}, interactive |-> TRUE,
          gcry |-> TRUE, tls |-> {}, cram |-> TRUE, apop |-> TRUE, last |-> TRUE,
          asks |-> TRUE, late |-> FALSE, apart |-> FALSE, depth |-> 2]

\* A server nothing is wrong with, and servers with something wrong.
Good == [shook |-> TRUE, auth |-> TRUE, verified |-> TRUE, status |-> {}, x509 |-> TRUE,
         init |-> TRUE, import |-> TRUE, timely |-> TRUE, host |-> TRUE, id |-> "a"]
Servers == {Good,
            [Good EXCEPT !.shook = FALSE],
            [Good EXCEPT !.shook = FALSE, !.auth = FALSE],
            [Good EXCEPT !.verified = FALSE],
            [Good EXCEPT !.status = {"corrupted", "invalid"}],
            [Good EXCEPT !.status = {"insecure", "expired"}],
            [Good EXCEPT !.status = {"insecure", "invalid"}, !.x509 = FALSE],
            [Good EXCEPT !.status = {"invalid"}],
            [Good EXCEPT !.status = {"invalid"}, !.x509 = FALSE],
            [Good EXCEPT !.init = FALSE],
            [Good EXCEPT !.import = FALSE],
            [Good EXCEPT !.timely = FALSE],
            [Good EXCEPT !.host = FALSE],
            [Good EXCEPT !.id = "b"]}
WithFile == [NoFile EXCEPT !.certfile = "read", !.file = <<"c", "a", "garbled", "b">>]
Tls == [Plain EXCEPT !.dossl = TRUE, !.opt = WithFile, !.tls = Servers,
                     !.authList = {"plaintext"}, !.asks = FALSE, !.depth = 1]

MCSetups ==
    {Plain,
     [Plain EXCEPT !.late = TRUE, !.apart = TRUE, !.depth = 1],
     [Plain EXCEPT !.gcry = FALSE, !.interactive = FALSE, !.depth = 1],
     [Plain EXCEPT !.apart = TRUE, !.cram = FALSE, !.last = FALSE],
     Tls,
     [Tls EXCEPT !.opt.skip = TRUE],
     [Tls EXCEPT !.opt.certfile = "missing", !.opt.skip = TRUE],
     [Tls EXCEPT !.opt.priorities = FALSE],
     [Tls EXCEPT !.opt.corrupted = TRUE, !.tls = {s \in Servers : s.status # {}}]}
TlsOnly == {Tls}
TlsWithoutFile == {[Tls EXCEPT !.opt = NoFile]}
MCFds == 1 .. 3
MCGarbage == {-1, 0, 1}
=============================================================================
