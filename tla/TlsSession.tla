----------------------------- MODULE TlsSession -----------------------------
(***************************************************************************)
(* tlsComm.c: what initialize_gnutls makes of a server.  The handshake and  *)
(* the tests of its certificate belong to GnuTLS; this module is about what *)
(* the program does with their outcomes, and in which order.                *)
(***************************************************************************)
EXTENDS Naturals, Sequences

\* The bits of certstat that the program looks at.
Flags == {"corrupted", "revoked", "expired", "insecure", "invalid"}

\* What GnuTLS says of a server.
\* shook:    the handshake succeeded
\* auth:     its credentials are a certificate
\* verified: gnutls_certificate_verify_peers2 could do its work, with
\* status:   the bits it set
\* x509:     the certificate is of that type
\* init, import: the program got a structure for the certificate, and filled it
\* timely, host: its times hold now, and it names the host
\* id:       the certificate itself
Server == [shook : BOOLEAN, auth : BOOLEAN, verified : BOOLEAN, status : SUBSET Flags,
           x509 : BOOLEAN, init : BOOLEAN, import : BOOLEAN, timely : BOOLEAN,
           host : BOOLEAN, id : STRING]

\* What the user configured: skip; priorities, whether GnuTLS takes the tls
\* option; certfile, which may name no file, none that is there, one GnuTLS
\* refuses or one it reads.  file is what that one holds, block by block,
\* "garbled" if it cannot be decoded.
\* What the program was built with: corrupted, whether GnuTLS defines
\* GNUTLS_CERT_CORRUPTED.
Options == [skip : BOOLEAN, priorities : BOOLEAN, file : Seq(STRING),
            certfile : {"none", "missing", "refused", "read"}, corrupted : BOOLEAN]

\* tls_compare_certificates: a block that cannot be decoded ends the search.
InFile(id, file) ==
    \E k \in DOMAIN file : /\ file[k] = id
                           /\ \A j \in 1 .. k : file[j] # "garbled"

FatalFlags(opt) == {"revoked", "expired"} \union {c \in {"corrupted"} : opt.corrupted}
StatusUnlessWeak(s, opt) ==                                        \* mutant
    IF "insecure" \in s.status THEN {} ELSE s.status \intersect FatalFlags(opt)
\* The else-if chain over certstat: the first bit that is set is the only one
\* looked at.  An insecure algorithm is a warning, and nothing is done about an
\* invalid certificate of type X.509: the call is commented out.
Status(s, opt) ==
    LET fatal == s.status \intersect FatalFlags(opt)
    IN IF fatal # {} THEN fatal
       ELSE IF "insecure" \notin s.status /\ "invalid" \in s.status /\ ~s.x509
            THEN {"not X.509"} ELSE {}

\* tls_check_certificate: what it has to say against the server.
Complaints(s, opt) ==
    IF ~s.auth THEN {"no certificate"}
    ELSE IF ~s.verified THEN {"could not verify"}
    ELSE Status(s, opt)
         \union {c \in {"structure"} : ~s.init}
         \union {c \in {"data"} : ~s.import}
         \union {c \in {"time"} : ~s.timely}
         \union {c \in {"hostname"} : ~s.host}
         \union {c \in {"certfile"} : opt.certfile # "none" /\ ~InFile(s.id, opt.file)}

\* bad_certificate ends the program.
Fatal(s, opt) == Complaints(s, opt) # {} /\ ~opt.skip

\* The options themselves end the program, skip or not.
Unusable(opt) == ~opt.priorities \/ opt.certfile \in {"missing", "refused"}

InitializeUnlooked(s, opt) ==                                      \* mutant
    IF Unusable(opt) \/ Fatal(s, opt) THEN "exit" ELSE "ready"
\* initialize_gnutls: the certificate is looked at before the outcome of the
\* handshake is.
Initialize(s, opt) ==
    IF Unusable(opt) \/ Fatal(s, opt) THEN "exit"
    ELSE IF s.shook THEN "ready" ELSE "failed"
=============================================================================
