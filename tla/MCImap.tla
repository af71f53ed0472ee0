------------------------------- MODULE MCImap -------------------------------
(* Small instances of Imap. *)
EXTENDS Imap, TLC

CONSTANTS b1, b2, b3, work, home, c1, c2, c3, c4

ThreeBoxes == {b1, b2, b3}
TwoAccounts == {work, home}
FourConns == {c1, c2, c3, c4}
Heap == Permutations(FourConns)

\* The first two mailboxes share an account.
LastApart == [b \in Boxes |-> IF b = b3 THEN home ELSE work]

NoPopups == [accountOf |-> LastApart, popups |-> {}, depth |-> 1]
SomePopups == [accountOf |-> LastApart, popups |-> {b1, b3}, depth |-> 3]
AllSetups == {NoPopups, SomePopups}
WithPopups == {SomePopups}
=============================================================================
