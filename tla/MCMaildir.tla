----------------------------- MODULE MCMaildir -----------------------------
(* Small instances of Maildir. *)
EXTENDS Maildir

\* The two ways a maildir is counted right: nobody touches it during a check,
\* or every check starts with the flush of the F flag.
Between == [sizeTells |-> FALSE, flush |-> FALSE, timing |-> "between"]
Flushed == [sizeTells |-> FALSE, flush |-> TRUE, timing |-> "anytime"]
GoodSetups == {Between, Flushed}

\* Mail arrives while a check runs, in a later second than its stat.
DuringCheck == {[sizeTells |-> FALSE, flush |-> FALSE, timing |-> "later"]}
=============================================================================
