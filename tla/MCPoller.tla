------------------------------ MODULE MCPoller ------------------------------
(* Small instances of Poller. *)
EXTENDS Poller

First == {0}
Second == {1}
Third == {2}

\* The second of three mailboxes has a path nobody understood, and so no label.
Remotes == {0, 2}

\* Due every second.  The third also fetches every second.
LoopEvery == [i \in Boxes |-> 1]
FetchThird == [i \in Boxes |-> IF i = 2 THEN 1 ELSE 0]

\* <<TotalMsgs, UnreadMsgs, TextStatus>>
MailCounts == {<<1, 0, NoText>>, <<2, 0, NoText>>, <<2, 1, NoText>>}
PlainTexts == {NoText}
=============================================================================
