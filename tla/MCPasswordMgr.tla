--------------------------- MODULE MCPasswordMgr ---------------------------
(* Small instances of PasswordMgr. *)
EXTENDS PasswordMgr

CONSTANTS b1, b2, b3, work, home, n1, n2

ThreeBoxes == {b1, b2, b3}
TwoAccounts == {work, home}
TwoNodes == {n1, n2}

OneForAll == [b \in Boxes |-> work]
LastApart == [b \in Boxes |-> IF b = b3 THEN home ELSE work]

\* Three IMAP mailboxes on two accounts; the servers refuse only the empty
\* password; a login may be started while another waits.
Nested == [open |-> Boxes, pop3 |-> {}, accountOf |-> LastApart, rejects |-> {}, depth |-> 2]

\* One IMAP or POP3 mailbox, whose server may refuse what the user types.
AloneImap == [open |-> {b1}, pop3 |-> {}, accountOf |-> OneForAll,
              rejects |-> {"plain"}, depth |-> 1]
AlonePop3 == [open |-> {b1}, pop3 |-> {b1}, accountOf |-> OneForAll,
              rejects |-> {"plain"}, depth |-> 1]

\* One IMAP and two POP3 mailboxes that share an account.
Mixed == [open |-> Boxes, pop3 |-> {b2, b3}, accountOf |-> OneForAll, rejects |-> {},
          depth |-> 2]
GoodSetups == {Nested, Mixed, AloneImap, AlonePop3}

\* Two POP3 mailboxes that share an account and log in one after the other.
PopShared == {[open |-> {b1, b2}, pop3 |-> {b1, b2}, accountOf |-> OneForAll,
               rejects |-> {}, depth |-> 1]}

\* Two IMAP mailboxes on two accounts, with refused passwords.
ApartRefused == {[open |-> {b1, b3}, pop3 |-> {}, accountOf |-> LastApart,
                  rejects |-> {"plain"}, depth |-> 1]}

PlainOrOther == {"plain", "other"}
Anything == {"plain", "other", "star", "empty"}
=============================================================================
