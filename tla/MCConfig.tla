------------------------------ MODULE MCConfig ------------------------------
(* Small instances of Config: three mailboxes, and lines that meet. *)
EXTENDS Config

MCOptions == {[relax |-> FALSE, font |-> FALSE], [relax |-> TRUE, font |-> TRUE]}

MCLength(v) == CASE v = "toolong" -> 300 [] v = "longlabel" -> 40 [] OTHER -> Len(v)
MCPadded(v, n) == v \o SubSeq("     ", 1, n - Len(v))
MCCut(v, n) == SubSeq(v, 1, Min({n, Len(v)}))
MCatoi(v) == CASE v = "7" -> 7 [] v = "9" -> 9 [] OTHER -> 0

\* Paths are named by their prefix, as it is written.
MCScheme(v) == CASE v \in {"pop3:", "pop3:bad", "POP3:"} -> "pop3"
                 [] v \in {"pop3s:", "POP3S:"} -> "pop3s"
                 [] v \in {"imap:", "imap:odd"} -> "imap"
                 [] v \in {"imaps:", "IMAPS:"} -> "imaps"
                 [] v \in {"sslimap:", "SSLimap:"} -> "sslimap"
                 [] v \in {"shell:::", "shell:bad"} -> "shell"
                 [] v = "maildir:" -> "maildir"
                 [] v = "mbox:" -> "mbox"
                 [] OTHER -> ""
MCLetters(v) == CASE v = "SSLimap:" -> "ssl"
                  [] v \in {"POP3:", "POP3S:", "IMAPS:"} -> "other"
                  [] OTHER -> "lower"
MCWellFormed(v, relaxed) == v \notin {"pop3:bad", "shell:bad"} /\ (v = "imap:odd" => relaxed)
MCRest(v) == CASE MCScheme(v) \in {"imap", "imaps", "sslimap"} -> "INBOX"
               [] OTHER -> "rest"

L(word, dot, index, value) == [word |-> word, dot |-> dot, index |-> index, value |-> value]

MCLines ==
    {L("", FALSE, NONE, ""), L("label", FALSE, 1, "a"),
     L("interval", FALSE, NONE, "7"), L("interval", FALSE, 1, "9"), L("interval", TRUE, 1, "9"),
     L("interval", TRUE, 1, "abc"),
     L("askpass", FALSE, NONE, "ask"), L("askpass", FALSE, 2, "mine"), L("askpass", TRUE, 2, "dot"),
     L("tls", FALSE, NONE, "SECURE128"), L("unknown", FALSE, NONE, "x"),
     L("label", TRUE, 0, "sixteen"), L("label", TRUE, 1, "a"), L("label", TRUE, 1, "longlabel"),
     L("label", TRUE, 1, ""), L("label", TRUE, 2, "c"), L("label", TRUE, 3, "d"),
     L("path", TRUE, 1, "toolong"),
     L("fetchinterval", TRUE, 1, "9"), L("debug", TRUE, 1, "all"), L("action", TRUE, 1, "msglst"), L("buttontwo", TRUE, 1, "mutt")}
    \union {L("path", TRUE, 1, p) : p \in {"pop3:bad", "pop3s:", "POP3S:", "imap:odd", "IMAPS:",
              "sslimap:", "SSLimap:", "shell:bad", "maildir:", "mbox:"}}

=============================================================================
