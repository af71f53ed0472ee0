------------------------------ MODULE TlsComm ------------------------------
(***************************************************************************)
(* tlsComm.c: how a client gets the answer it expects.  The server's bytes  *)
(* arrive in pieces; tlscomm_expect() reads them into the connection's      *)
(* buffer, takes line after line from it and returns the first one that     *)
(* begins with the prefix.                                                  *)
(*                                                                         *)
(* wait_for_it() bounds a wait by EXPECT_TIMEOUT and serves X events, which *)
(* may call tlscomm_expect() again on the same connection: the calls are a  *)
(* stack, and each has a count of its own of the bytes in the one buffer.   *)
(***************************************************************************)
EXTENDS Naturals, Sequences, SequencesExt, FiniteSetsExt

CONSTANTS
    Bytes, NL,      \* what lines are made of, and the newline
    Setups,         \* the surroundings a call may meet: see Setup
    BUF_SIZE,       \* length of connection_state.unprocessed
    MaxLines        \* BOUND: how many lines the server sends

\* lines:    what the server may send
\* prefixes: what calls may expect
\* buflen:   the length of the callers' line buffers
\* whole:    do lines arrive in one piece?
\* depth:    BOUND: how deep calls nest
Setup == [lines : SUBSET Seq(Bytes), prefixes : SUBSET Seq(Bytes),
          buflen : Nat, whole : BOOLEAN, depth : Nat]

ASSUME TlsCommAssumption ==
    /\ NL \in Bytes
    /\ BUF_SIZE \in Nat \ {0, 1} /\ MaxLines \in Nat
    /\ \A s \in Setups :
          /\ s.lines \subseteq Seq(Bytes) /\ s.prefixes \subseteq Seq(Bytes)
          /\ \A l \in s.lines : l # <<>> /\ \A j \in 1 .. Len(l) : l[j] = NL <=> j = Len(l)
          /\ s.buflen \in Nat \ {0, 1}
          /\ s.whole \in BOOLEAN /\ s.depth \in Nat

VARIABLES
    setup,      \* never changes
    wire,       \* bytes under way
    socket,     \* bytes that arrived and were not read
    hungUp,     \* the server has closed the connection
    buf,        \* unprocessed, without its terminating NUL
    calls,      \* the calls of tlscomm_expect under way, innermost last
    sent,       \* HISTORY: the lines the server sent
    taken       \* HISTORY: the lines taken from the buffer

server == <<wire, hungUp, sent>>
vars == <<setup, server, socket, buf, calls, taken>>

\* A call: its prefix, buffered_bytes, and where it is: in the condition of
\* the outer loop, in wait_for_it, before the read, or in the inner loop.
Call(p, n, at) == [prefix |-> p, n |-> n, at |-> at]

Top == calls[Len(calls)]
At(where) == calls # <<>> /\ Top.at = where
Goto(where, n) == calls' = Append(Front(calls), Call(Top.prefix, n, where))
Return == calls' = Front(calls)

\* getline_from_buffer: how many bytes it takes.
LineLengthBare(b) ==                                               \* mutant
    Min({j - 1 : j \in {j \in 1 .. Len(b) : b[j] = NL}}
        \union {Len(b), setup.buflen - 1})
LineLength(b) ==
    LET i == Min({j - 1 : j \in {j \in 1 .. Len(b) : b[j] = NL}}
                 \union {Len(b), setup.buflen - 1})
    IN IF i < Len(b) /\ b[i + 1] = NL THEN i + 1 ELSE i

Init ==
    /\ setup \in Setups
    /\ wire = <<>> /\ socket = <<>> /\ hungUp = FALSE
    /\ buf = <<>>
    /\ calls = <<>>
    /\ sent = <<>> /\ taken = <<>>

-----------------------------------------------------------------------------
\* The server and the network.
Send(l) ==
    /\ ~hungUp
    /\ Len(sent) < MaxLines
    /\ sent' = Append(sent, l)
    /\ wire' = wire \o l
    /\ UNCHANGED <<setup, socket, hungUp, buf, calls, taken>>

HangUp ==
    /\ ~hungUp
    /\ hungUp' = TRUE
    /\ UNCHANGED <<setup, wire, socket, buf, calls, sent, taken>>

Arrive ==
    /\ \E k \in 1 .. Len(wire) :
          /\ setup.whole => wire[k] = NL
          /\ socket' = socket \o SubSeq(wire, 1, k)
          /\ wire' = SubSeq(wire, k + 1, Len(wire))
    /\ UNCHANGED <<setup, hungUp, buf, calls, sent, taken>>

\* A read would not block: there are bytes, or the end.
Readable == socket # <<>> \/ (hungUp /\ wire = <<>>)

\* A client calls, or an event served in a wait makes it call again.
Expect(p) ==
    /\ calls = <<>> \/ (At("wait") /\ Len(calls) < setup.depth)
    /\ calls' = Append(calls, Call(p, 0, "loop"))
    /\ UNCHANGED <<setup, server, socket, buf, taken>>

\* unprocessed[0] != '\0' || wait_for_it(...)
LoopWithBytes ==
    /\ At("loop")
    /\ buf # <<>>
    /\ Goto("fill", Top.n)
    /\ UNCHANGED <<setup, server, socket, buf, taken>>

LoopAndWait ==
    /\ At("loop")
    /\ buf = <<>>
    /\ Goto("wait", Top.n)
    /\ UNCHANGED <<setup, server, socket, buf, taken>>

WaitEnds ==
    /\ At("wait")
    /\ Readable
    /\ Goto("fill", Top.n)
    /\ UNCHANGED <<setup, server, socket, buf, taken>>

WaitTimesOut ==
    /\ At("wait")
    /\ ~Readable
    /\ Return
    /\ UNCHANGED <<setup, server, socket, buf, taken>>

\* unprocessed[buffered_bytes] is a byte: the buffer was filled by an earlier
\* call, and its bytes are counted.
FindBytesUncounted ==                                              \* mutant
    /\ At("fill")
    /\ Top.n # Len(buf)
    /\ Goto("lines", Top.n)
    /\ UNCHANGED <<setup, server, socket, buf, taken>>
FindBytes ==
    /\ At("fill")
    /\ Top.n # Len(buf)
    /\ Goto("lines", Len(buf))
    /\ UNCHANGED <<setup, server, socket, buf, taken>>

\* unprocessed[buffered_bytes] is the NUL: read behind it.
RoomForNoNul == BUF_SIZE - Top.n                                   \* mutant
Room == BUF_SIZE - 1 - Top.n
ReadOver ==                                                        \* mutant
    /\ At("fill")
    /\ Top.n = Len(buf)
    /\ Readable
    /\ LET k == Min({Len(socket), Room})
       IN /\ buf' = SubSeq(socket, 1, k)
          /\ socket' = SubSeq(socket, k + 1, Len(socket))
          /\ IF Top.n + k = 0 THEN Return ELSE Goto("lines", Top.n + k)
    /\ UNCHANGED <<setup, server, taken>>
ReadPastEnd ==                                                     \* mutant
    /\ At("fill")
    /\ Top.n = Len(buf)
    /\ Readable
    /\ LET k == Min({Len(socket), Room})
       IN /\ buf' = buf \o SubSeq(socket, 1, k)
          /\ socket' = SubSeq(socket, k + 1, Len(socket))
          /\ Goto("lines", Top.n + k)
    /\ UNCHANGED <<setup, server, taken>>
Read ==
    /\ At("fill")
    /\ Top.n = Len(buf)
    /\ Readable
    /\ LET k == Min({Len(socket), Room})
       IN /\ buf' = buf \o SubSeq(socket, 1, k)
          /\ socket' = SubSeq(socket, k + 1, Len(socket))
          /\ IF Top.n + k = 0 THEN Return ELSE Goto("lines", Top.n + k)
    /\ UNCHANGED <<setup, server, taken>>

\* The read fails: the connection was reset, or its encryption is broken.
ReadFails ==
    /\ At("fill")
    /\ Top.n = Len(buf)
    /\ hungUp
    /\ Return
    /\ UNCHANGED <<setup, server, socket, buf, taken>>

\* buffered_bytes >= prefixlen: take a line; it is the answer, or is dropped.
TakeLine ==
    /\ At("lines")
    /\ Top.n >= Len(Top.prefix)
    /\ LET i == LineLength(buf)
           line == SubSeq(buf, 1, i)
       IN IF i = 0 THEN Goto("lines", 0) /\ UNCHANGED <<buf, taken>>
          ELSE /\ buf' = SubSeq(buf, i + 1, Len(buf))
               /\ taken' = Append(taken, line)
               /\ IF IsPrefix(Top.prefix, line) THEN Return
                                                ELSE Goto("lines", Top.n - i)
    /\ UNCHANGED <<setup, server, socket>>

TooFewBytes ==
    /\ At("lines")
    /\ Top.n < Len(Top.prefix)
    /\ Goto("loop", Top.n)
    /\ UNCHANGED <<setup, server, socket, buf, taken>>

Step == \/ LoopWithBytes \/ LoopAndWait \/ WaitEnds \/ WaitTimesOut
        \/ FindBytes \/ Read \/ ReadFails \/ TakeLine \/ TooFewBytes

Next ==
    \/ \E l \in setup.lines : Send(l)
    \/ HangUp \/ Arrive
    \/ \E p \in setup.prefixes : Expect(p)
    \/ Step

\* A call that can go on does.  A read from a silent server cannot; nothing
\* is assumed of the server or of the user.
Spec == Init /\ [][Next]_vars /\ WF_vars(Step)
-----------------------------------------------------------------------------
\* TYPES.  The buffer never outgrows unprocessed.
TypeOK ==
    /\ setup \in Setups
    /\ wire \in Seq(Bytes) /\ socket \in Seq(Bytes) /\ buf \in Seq(Bytes)
    /\ hungUp \in BOOLEAN
    /\ calls \in Seq([prefix : setup.prefixes, n : Nat,
                      at : {"loop", "wait", "fill", "lines"}])
    /\ sent \in Seq(setup.lines) /\ taken \in Seq(Seq(Bytes))
    /\ Len(buf) < BUF_SIZE

\* No byte is lost, repeated or moved, however the server's bytes are cut up,
\* however long its lines are and however calls nest.
BytesInOrder == FlattenSeq(taken) \o buf \o socket \o wire = FlattenSeq(sent)

\* buffered_bytes is what the buffer holds whenever lines are taken from it:
\* a call inside a wait may have filled or emptied the buffer meanwhile.
CountIsTrue ==
    \A c \in {calls[k] : k \in 1 .. Len(calls)} : c.at = "lines" => c.n = Len(buf)

\* Lines arrive whole, fit the callers' buffers, and never pile up beyond
\* what unprocessed holds.
Clean == /\ setup.whole
         /\ \A l \in setup.lines : Len(l) < setup.buflen /\ MaxLines * Len(l) < BUF_SIZE

\* Such lines are taken whole, one after the other.
LinesAreWhole == Clean => taken = SubSeq(sent, 1, Len(taken))

\* A call returns, if the server sends finitely many such lines, none shorter
\* than a prefix, and the user does not put popup upon popup ...
LongLines == \A l \in setup.lines, p \in setup.prefixes : Len(l) >= Len(p)
ReturnsOnLongLines ==
    Clean /\ LongLines /\ setup.depth = 1 /\ calls # <<>> ~> calls = <<>>

\* ... and, says the comment at wait_for_it, always.
Returns == calls # <<>> ~> calls = <<>>
=============================================================================
