----------------------------- MODULE MCTlsComm -----------------------------
(* Small instances of TlsComm. *)
EXTENDS TlsComm

CONSTANTS tag, star, nl

AllBytes == {tag, star, nl}
Answer == <<tag, tag, nl>>
Notice == <<star, tag, nl>>
Blank == <<nl>>
Long == <<star, star, tag, tag, nl>>

\* Whole lines, as long as any prefix; calls may nest.
Polite == [lines |-> {Answer, Notice}, prefixes |-> {<<tag, tag>>, <<star>>, <<>>},
           buflen |-> 6, whole |-> TRUE, depth |-> 1]
Nested == [Polite EXCEPT !.depth = 3]
\* Lines in pieces, some too short or longer than the callers' buffers.
Rough == [lines |-> {Answer, Blank, Long}, prefixes |-> {<<tag, tag>>},
          buflen |-> 4, whole |-> FALSE, depth |-> 2]
Short == [lines |-> {Answer, Blank}, prefixes |-> {<<tag, tag>>},
          buflen |-> 6, whole |-> TRUE, depth |-> 1]
AllSetups == {Polite, Nested, Rough, Short}
WholeButShort == {Short}
=============================================================================
