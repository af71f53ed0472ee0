------------------------------- MODULE Config -------------------------------
(***************************************************************************)
(* From a .wmbiffrc to the array of mailboxes: ReadLine, Read_Config_File,  *)
(* parse_mbox_path and init_biff of wmbiff.c, with the creators of the       *)
(* clients.                                                                 *)
(*                                                                         *)
(* A line is what one fgets returns.  The words of a line, and what the      *)
(* creators look for in a path, are told apart by constant operators on      *)
(* values; users, passwords, servers and ports are not kept.                 *)
(***************************************************************************)
EXTENDS Integers, Sequences, FiniteSetsExt

CONSTANTS
    Lines,              \* what the lines of the file may say
    MAX_LINES,          \* BOUND: lines in the file
    Options,            \* of the command line: -relax, and those that ask for a font
    Spools,             \* what MAIL, or USER behind /var/mail/, may name
    MAX_NUM_MAILBOXES, BUF_SMALL, BUF_BIG,
    NONE,               \* no index, no value
    Length(_),          \* strlen of a value
    Padded(_, _),       \* a value, with blanks behind it up to a length
    Cut(_, _),          \* the first characters of a value, so many
    atoi(_),            \* the number it begins with, or 0
    Scheme(_),          \* the prefix of paths[] it has, whatever its case, or ""
    Letters(_),         \* the case of the prefix: "lower", or "ssl" if only the
                        \* letters before imap are not, or "other"
    WellFormed(_, _),   \* what follows the prefix suits the creator, relaxed or not
    Rest(_)             \* what the creator leaves in path: the file, the command
                        \* or the name of the folder

Schemes == {"pop3", "pop3s", "shell", "imap", "imaps", "sslimap", "maildir", "mbox"}

\* The functions a creator may put in checkMail.
Checkers == {"pop3CheckMail", "imap_checkmail", "shellCmdCheck", "maildirCheckHistory",
             "mboxCheckHistory"}

\* The left side of a line is a word, perhaps with a dot behind it, and perhaps
\* an index; a comment, or a line with nothing on one side of the "=", has the
\* empty word and no index.
ASSUME ConfigAssumption ==
    /\ \A l \in Lines : /\ l.dot \in BOOLEAN /\ l.index \in Int \union {NONE}
                        /\ l.word = "" => l.index = NONE
    /\ NONE \notin Int /\ NONE \notin Checkers
    /\ Options \subseteq [relax : BOOLEAN, font : BOOLEAN]
    /\ MAX_NUM_MAILBOXES \in Nat \ {0} /\ BUF_SMALL \in Nat /\ BUF_BIG \in Nat
    /\ \A l \in Lines : Length(l.value) \in Nat /\ atoi(l.value) \in Int
    /\ \A l \in Lines : l.value # "" => Cut(l.value, 6) # "" /\ Cut(Padded(l.value, 5), 6) # ""
    /\ \A l \in Lines : Scheme(l.value) \in Schemes \union {""}
    /\ Scheme("") = ""

Indexes == 0 .. MAX_NUM_MAILBOXES - 1
DEFAULT_LOOP == 5
DEFAULT_ASKPASS == "ssh-askpass"

\* The settings of a mailbox that are strings, by the words before the dot.
fieldOf == [label |-> "label", path |-> "path", notify |-> "notify", action |-> "action",
            action_disconnected |-> "actiondc", action_new_mail |-> "actionnew",
            action_no_new_mail |-> "actionnonew", buttontwo |-> "button2",
            fetchcmd |-> "fetchcmd"]
Fields == {fieldOf[w] : w \in DOMAIN fieldOf}

\* The settings of the whole program that are strings.
GlobalWords == {"skinfile", "certfile", "globalnotify", "tls"}

VARIABLES
    phase,          \* start, read, nofile, running, exited
    Relax, font,    \* the options: never change
    num_mailboxes,
    mbox,
    loopinterval,
    global,         \* the strings of GlobalWords
    read            \* HISTORY: the lines read

configVars == <<phase, Relax, font, num_mailboxes, mbox, loopinterval, global, read>>

NewBox == [text |-> [f \in Fields |-> ""], loopinterval |-> 0, fetchinterval |-> 0,
           all |-> FALSE, askpass |-> DEFAULT_ASKPASS, checkMail |-> NONE,
           dossl |-> FALSE, wantCacheHeaders |-> FALSE]

\* init_biff, before it reads the file.
ConfigInit ==
    /\ phase = "start"
    /\ \E o \in Options : Relax = o.relax /\ font = o.font
    /\ num_mailboxes = 1
    /\ mbox = [i \in Indexes |-> NewBox]
    /\ loopinterval = DEFAULT_LOOP
    /\ global = [w \in GlobalWords |-> NONE]
    /\ read = <<>>

-----------------------------------------------------------------------------
(* A line.                                                                  *)

\* ReadLine keeps the dot of a name only when an index follows.
Dotted(line) == line.dot /\ line.index # NONE

\* Too long for the member of mbox_t.
TooLong(field, value) == Length(value) + 1 > (IF field = "label" THEN BUF_SMALL ELSE BUF_BIG)

\* num_mailboxes grows with any line that has an index and is not global.
GrowLate(n) == IF n > num_mailboxes THEN n ELSE num_mailboxes           \* mutant
Grow(n) == IF 1 + n > num_mailboxes THEN 1 + n ELSE num_mailboxes

AskpassUnlessSet(line) ==                                          \* mutant
    mbox' = [i \in Indexes |-> IF \/ line.index = i
                                  \/ line.index = NONE /\ mbox[i].askpass = DEFAULT_ASKPASS
                               THEN [mbox[i] EXCEPT !.askpass = line.value] ELSE mbox[i]]
\* "askpass": for one mailbox, or for all of them, the ones that have theirs too.
Askpass(line) ==
    mbox' = [i \in Indexes |-> IF line.index \in {NONE, i}
                               THEN [mbox[i] EXCEPT !.askpass = line.value] ELSE mbox[i]]

\* The settings that can be global, with an index or without.
GlobalSetting(line) ==
    /\ ~Dotted(line)
    /\ \/ line.word = "interval" /\ loopinterval' = atoi(line.value) /\ UNCHANGED <<mbox, global>>
       \/ line.word = "askpass" /\ Askpass(line) /\ UNCHANGED <<loopinterval, global>>
       \/ /\ line.word \in GlobalWords
          /\ global' = [global EXCEPT ![line.word] = line.value]
          /\ UNCHANGED <<loopinterval, mbox>>
    /\ UNCHANGED num_mailboxes

IsGlobal(line) == ~Dotted(line) /\ line.word \in GlobalWords \union {"interval", "askpass"}

\* What a line does to its mailbox.
SetFirst(box, line) ==                                             \* mutant
    CASE line.word \in DOMAIN fieldOf /\ ~TooLong(fieldOf[line.word], line.value) ->
            [box EXCEPT !.text[fieldOf[line.word]] = IF @ = "" THEN line.value ELSE @]
      [] line.word = "interval" -> [box EXCEPT !.loopinterval = atoi(line.value)]
      [] line.word = "fetchinterval" -> [box EXCEPT !.fetchinterval = atoi(line.value)]
      [] line.word = "debug" -> [box EXCEPT !.all = (line.value = "all")]
      [] OTHER -> box
Set(box, line) ==
    CASE line.word \in DOMAIN fieldOf /\ ~TooLong(fieldOf[line.word], line.value) ->
            [box EXCEPT !.text[fieldOf[line.word]] = line.value]
      [] line.word = "interval" -> [box EXCEPT !.loopinterval = atoi(line.value)]
      [] line.word = "fetchinterval" -> [box EXCEPT !.fetchinterval = atoi(line.value)]
      [] line.word = "debug" -> [box EXCEPT !.all = (line.value = "all")]
      [] OTHER -> box

LocalSetting(line) ==
    /\ ~IsGlobal(line)
    /\ line.index # NONE
    /\ num_mailboxes' = Grow(line.index)
    /\ mbox' = IF Dotted(line) THEN [mbox EXCEPT ![line.index] = Set(@, line)] ELSE mbox
    /\ UNCHANGED <<loopinterval, global>>

\* A line that is not parsed, or an unknown word without an index.
NoSetting(line) ==
    /\ ~IsGlobal(line)
    /\ line.word = "" \/ line.index = NONE
    /\ UNCHANGED <<num_mailboxes, mbox, loopinterval, global>>

\* One turn of the loop of Read_Config_File.  Any word with an index that no
\* mailbox has ends the program.
NextLine ==
    /\ phase = "read" /\ Len(read) < MAX_LINES
    /\ \E line \in Lines :
          /\ read' = Append(read, line)
          /\ IF line.word # "" /\ line.index \notin Indexes \union {NONE}
             THEN phase' = "exited" /\ UNCHANGED <<num_mailboxes, mbox, loopinterval, global>>
             ELSE phase' = "read" /\ (GlobalSetting(line) \/ LocalSetting(line) \/ NoSetting(line))
    /\ UNCHANGED <<Relax, font>>

-----------------------------------------------------------------------------
(* The creators.                                                            *)

\* The regular expressions of pop3Create know the prefix in small letters, and
\* the relaxed ones only without its s.
pop3Create(box) ==
    LET path == box.text.path
    IN IF Letters(path) = "lower" /\ WellFormed(path, Relax) /\ ~(Relax /\ Scheme(path) = "pop3s")
       THEN [box EXCEPT !.checkMail = "pop3CheckMail", !.dossl = Scheme(path) = "pop3s"]
       ELSE [box EXCEPT !.text.label = ""]

imap4CreateAnyCase(box) ==                                         \* mutant
    LET path == box.text.path
        made == [box EXCEPT !.dossl = Scheme(path) # "imap" /\ Letters(path) = "lower",
                            !.text.path = Rest(path)]
    IN IF WellFormed(path, Relax)
       THEN [made EXCEPT !.checkMail = "imap_checkmail",
                         !.wantCacheHeaders = \E f \in {"action", "fetchcmd", "button2"} :
                                                 box.text[f] = "msglst"]
       ELSE [made EXCEPT !.text.label = "", !.text.path = "INBOX"]
\* Those of imap4Create know "imap:" and "imaps:", with anything before.
imap4Create(box) ==
    LET path == box.text.path
        found == Letters(path) = "lower" \/ (Letters(path) = "ssl" /\ Scheme(path) = "sslimap")
        made == [box EXCEPT !.dossl = Scheme(path) # "imap" /\ Letters(path) = "lower",
                            !.text.path = Rest(path)]
    IN IF found /\ WellFormed(path, Relax)
       THEN [made EXCEPT !.checkMail = "imap_checkmail",
                         !.wantCacheHeaders = \E f \in {"action", "fetchcmd", "button2"} :
                                                 box.text[f] = "msglst"]
       ELSE [made EXCEPT !.text.label = "", !.text.path = "INBOX"]

\* A command without its two colons stays what it was, and is a mailbox.
shellCreate(box) ==
    [box EXCEPT !.checkMail = "shellCmdCheck",
                !.text.path = IF WellFormed(@, Relax) THEN Rest(@) ELSE @]
maildirCreate(box) == [box EXCEPT !.checkMail = "maildirCheckHistory", !.text.path = Rest(@)]
mboxCreate(box) == [box EXCEPT !.checkMail = "mboxCheckHistory",
                               !.text.path = IF Scheme(@) = "mbox" THEN Rest(@) ELSE @]

\* A path with no prefix is an mbox.
parse_mbox_path(box) ==
    CASE Scheme(box.text.path) \in {"pop3", "pop3s"} -> pop3Create(box)
      [] Scheme(box.text.path) = "shell" -> shellCreate(box)
      [] Scheme(box.text.path) \in {"imap", "imaps", "sslimap"} -> imap4Create(box)
      [] Scheme(box.text.path) = "maildir" -> maildirCreate(box)
      [] OTHER -> mboxCreate(box)

\* A label is drawn as five characters unless there is a font, and ends after six.
Fitted(label) == Cut(IF ~font /\ Length(label) < 5 THEN Padded(label, 5) ELSE label, 6)

\* init_biff: labels that look right, and the global interval for the mailboxes
\* without one.
WithInterval(box) ==
    IF box.text.label # ""
    THEN [box EXCEPT !.text.label = Fitted(@),
                     !.loopinterval = IF @ = 0 THEN loopinterval ELSE @]
    ELSE box

-----------------------------------------------------------------------------
\* main: the permissions of the file are looked at, then it is opened.  The
\* other outcomes of the check are warnings.
FindFile ==
    /\ phase = "start"
    /\ \/ phase' = "exited"        \* it is a directory
       \/ phase' = "nofile"        \* it is not there, or cannot be read
       \/ phase' = "read"
    /\ UNCHANGED <<Relax, font, num_mailboxes, mbox, loopinterval, global, read>>

\* The rest of Read_Config_File and of init_biff.
EndOfFile ==
    /\ phase = "read"
    /\ phase' = "running"
    /\ global' = [global EXCEPT !["tls"] = IF @ = NONE THEN "NORMAL" ELSE @]
    /\ mbox' = [i \in Indexes |-> IF i < num_mailboxes /\ mbox[i].text.label # ""
                                  THEN WithInterval(parse_mbox_path(mbox[i])) ELSE mbox[i]]
    /\ UNCHANGED <<Relax, font, num_mailboxes, loopinterval, read>>

\* Without a file: the spool of MAIL or of USER, if there is one.
DefaultBox ==
    /\ phase = "nofile"
    /\ \/ /\ \E spool \in Spools :
               /\ Length(spool) + 1 <= BUF_BIG
               /\ mbox' = [mbox EXCEPT ![0] = WithInterval(mboxCreate(
                                 [@ EXCEPT !.text.label = "Spool", !.text.path = spool]))]
          /\ phase' = "running"
       \/ /\ phase' = "exited"     \* no variable, a name too long, or no such file
          /\ UNCHANGED mbox
    /\ UNCHANGED <<Relax, font, num_mailboxes, loopinterval, global, read>>

ConfigNext == FindFile \/ NextLine \/ EndOfFile \/ DefaultBox

ConfigSpec == ConfigInit /\ [][ConfigNext]_configVars
-----------------------------------------------------------------------------
(* What the file means, as the lines taken together.                        *)

\* The value of the last of the lines at these places.
Last(places, default) == IF places = {} THEN default ELSE read[Max(places)].value

\* The lines about a setting of mailbox i.
About(word, i) == {k \in DOMAIN read : read[k].word = word /\ read[k].dot /\ read[k].index = i}

\* The text written for a setting of mailbox i: values too long do not count.
Written(word, i) ==
    Last({k \in About(word, i) : ~TooLong(fieldOf[word], read[k].value)}, "")

\* What holds for all the mailboxes, and the program that asks for passwords: an
\* index that follows without a dot is looked at after "askpass" only, and with
\* one even "askpass" is no setting.
Undotted(word) == {k \in DOMAIN read : read[k].word = word /\ (read[k].dot => read[k].index = NONE)}
GlobalInterval == IF Undotted("interval") = {} THEN DEFAULT_LOOP ELSE atoi(Last(Undotted("interval"), NONE))
OwnNumber(word, i) == IF About(word, i) = {} THEN 0 ELSE atoi(Last(About(word, i), NONE))
OwnInterval(i) == OwnNumber("interval", i)
AskpassOf(i) == Last({k \in Undotted("askpass") : read[k].index \in {NONE, i}}, DEFAULT_ASKPASS)
-----------------------------------------------------------------------------
\* TYPES.
ConfigTypeOK ==
    /\ phase \in {"start", "read", "nofile", "running", "exited"}
    /\ num_mailboxes \in 1 .. MAX_NUM_MAILBOXES
    /\ loopinterval \in Int
    /\ \A i \in Indexes : /\ DOMAIN mbox[i].text = Fields
                        /\ mbox[i].loopinterval \in Int /\ mbox[i].fetchinterval \in Int

\* The last good line about a setting is the one that counts, whatever is between
\* them, for every setting of Read_Config_File: the strings, the intervals and the
\* debugging of every mailbox, its askpass program (an "askpass" with a dot is no
\* line about it: see AskpassPerMailbox), and what holds for the whole program.
LastLineWins ==
    phase = "read" =>
        /\ \A i \in Indexes :
              /\ \A w \in DOMAIN fieldOf : mbox[i].text[fieldOf[w]] = Written(w, i)
              /\ mbox[i].loopinterval = OwnInterval(i)
              /\ mbox[i].fetchinterval = OwnNumber("fetchinterval", i)
              /\ mbox[i].all <=> Last(About("debug", i), "") = "all"
              /\ mbox[i].askpass = AskpassOf(i)
        /\ \A w \in GlobalWords : global[w] = Last(Undotted(w), NONE)
        /\ loopinterval = GlobalInterval

\* "Each option takes the form option[.mbox] = value"; askpass "can be specified on
\* a per-mailbox basis": the last of the lines about the askpass program of a
\* mailbox, or of all, names it.
AskpassPerMailbox ==
    phase = "read" => \A i \in Indexes :
        mbox[i].askpass =
            Last(About("askpass", i) \union {k \in Undotted("askpass") : read[k].index \in {NONE, i}},
                 DEFAULT_ASKPASS)

\* Once the program runs, every mailbox with a label shows what was written for it,
\* made to fit, and has the checker of its path and an interval, its own or the one
\* for all, wherever in the file the lines are; an IMAP mailbox fetches headers beforehand if a button shows them; and a
\* mailbox whose path was not understood has no label.
BoxesAreReady ==
    phase = "running" /\ read # <<>> => \A i \in Indexes :
        LET box == mbox[i]  path == Written("path", i)
        IN IF box.text.label # ""
           THEN /\ box.text.label = Fitted(Written("label", i))
                /\ box.checkMail # NONE
                /\ box.loopinterval = IF OwnInterval(i) # 0 THEN OwnInterval(i) ELSE GlobalInterval
                /\ box.wantCacheHeaders <=>
                      /\ box.checkMail = "imap_checkmail"
                      /\ "msglst" \in {Written(w, i) : w \in {"action", "fetchcmd", "buttontwo"}}
           ELSE Written("label", i) # "" =>
                   /\ Scheme(path) \in {"pop3", "pop3s", "imap", "imaps", "sslimap"}
                   /\ box.checkMail = NONE

\* "but always end after 5 characters": no label is longer.
LabelsEnd == phase = "running" => \A i \in Indexes : Length(mbox[i].text.label) <= 5

\* A mailbox that is to be read through TLS is, or it is not shown: the prefix is
\* compared once in any case, once in small letters, once by a regular
\* expression.  "SSLimap:" with just these capitals slips through.
TlsWhenAsked ==
    phase = "running" => \A i \in Indexes :
        LET path == Written("path", i)
        IN mbox[i].text.label # "" /\ Letters(path) # "ssl" =>
              (mbox[i].dossl <=> Scheme(path) \in {"pop3s", "imaps", "sslimap"})
=============================================================================
