--------------------------- MODULE RemoteProgram ---------------------------
(***************************************************************************)
(* The program remote on the local system (remote.c): a session with the   *)
(* distant system in which the user's terminal and the line are joined,    *)
(* and the transfers that the distant system asks for (load and send).     *)
(***************************************************************************)
EXTENDS TransferLine

VARIABLES
    l,        \* the process: pc, file, record and buffer
    local,    \* the files of the local system
    stop,     \* onestop and allstop
    aborts,   \* what remains of MaxAborts
    eintr,    \* a signal ended a read()
    session   \* the lock file and the modes of terminal and line

remoteVars == <<l, local, stop, aborts, eintr, session>>

Absent == <<"absent">>

InitRemote(held) ==
    /\ l = [pc |-> "try", cmd |-> "none", name |-> <<>>, query |-> FALSE,
            fd |-> FALSE, pos |-> 0, n |-> 0, got |-> 0, c |-> Noise,
            buf |-> <<>>]
    /\ local = held
    /\ stop = [one |-> FALSE, all |-> FALSE]
    /\ aborts = MaxAborts
    /\ eintr = FALSE
    /\ session = [lock |-> "none", hookup |-> FALSE, term |-> "user", line |-> "user",
                  tflags |-> "unset", ptflags |-> "unset", ptxlflags |-> "unset"]

Go(pc) == [l EXCEPT !.pc = pc]
Silent == UNCHANGED <<down, faults, hung>>
Reply(c, timed) == ToDistant(<<c>>, timed)

-----------------------------------------------------------------------------
(* main and try: find a line that is not locked.                           *)

\* The modes of the terminal or the line are saved and replaced ...
xlucent(s, d, saved) == [s EXCEPT ![saved] = s[d], ![d] = "xlucent"]


xparent(s, d, saved) == [s EXCEPT ![saved] = s[d], ![d] = "xparent"]

\* ... and set again to what was saved.
tinit(s, d, saved) == [s EXCEPT ![d] = s[saved]]

Reset(s) == tinit(tinit(s, "line", "ptflags"), "term", "tflags")

\* access(): the lock file is looked for ...
Try ==
    /\ l.pc = "try"
    /\ l' = Go(IF session.lock = "none" THEN "creat" ELSE "busy")
    /\ Silent
    /\ UNCHANGED <<up, local, stop, aborts, eintr, session>>

\* ... and made, or not.  The line is opened, or the lock removed again.  A
\* speed that does not exist ends the program in the middle of xlucent.
Connect ==
    /\ l.pc = "creat"
    /\ LET mine == xlucent([session EXCEPT !.lock = "mine", !.hookup = TRUE], "term", "tflags")
       IN  \/ /\ session' = xlucent(mine, "line", "ptflags")
              /\ l' = Go("x0")
              /\ UNCHANGED faults
           \/ /\ Fault
              /\ session' = [Reset([mine EXCEPT !.ptflags = mine.line])
                               EXCEPT !.lock = "none", !.hookup = FALSE]
              /\ l' = Go("exited")
           \/ Fault /\ session' = [session EXCEPT !.lock = "none"] /\ l' = Go("exited")
           \/ Fault /\ l' = Go("busy") /\ UNCHANGED session
    /\ UNCHANGED <<up, down, hung, local, stop, aborts, eintr>>

\* Every line is in use: say by whom.
Busy ==
    /\ l.pc = "busy"
    /\ l' = Go("exited")
    /\ UNCHANGED <<lineVars, local, stop, aborts, eintr, session>>

\* Another user's session begins or ends.
OtherUser ==
    /\ \/ session.lock = "none" /\ session' = [session EXCEPT !.lock = "other"]
       \/ session.lock = "other" /\ session' = [session EXCEPT !.lock = "none"]
    /\ l.pc \in {"try", "creat"}
    /\ UNCHANGED <<lineVars, l, local, stop, aborts, eintr>>

logout ==
    /\ l' = Go("exited")
    /\ session' = [Reset(session) EXCEPT !.lock = "none", !.hookup = FALSE]

\* The user ends the session: the distant system is told to log out, with
\* one character for the word.
cleanup ==
    /\ l.pc \in {"x0", "x1", "x2"}
    /\ aborts > 0
    /\ aborts' = aborts - 1
    /\ logout
    /\ down' = Append(down, "msg")
    /\ UNCHANGED <<up, faults, hung, local, stop, eintr>>

intrupt(s) ==
    /\ l' = Go("exited")
    /\ session' = [s EXCEPT !.lock = "none", !.hookup = FALSE]

\* The user interrupts the program before it has the line, or types nothing
\* in the first twenty seconds: the process that reads the terminal then
\* restores the modes and ends both.
Hookup ==
    /\ \/ l.pc = "creat" /\ intrupt(session)
       \/ l.pc \in {"x0", "x1", "x2"} /\ session.hookup /\ intrupt(Reset(session))
    /\ aborts > 0
    /\ aborts' = aborts - 1
    /\ UNCHANGED <<lineVars, local, stop, eintr>>

-----------------------------------------------------------------------------
(* Each of the following is what the program does with the character c it  *)
(* has read where it reads it.                                             *)

Drops(n) == SubSeq(l.buf, 1, Len(l.buf) - n)

\* unix_to_term: pass characters on until a request is recognised.
Translucent(c) ==
    /\ \/ /\ l.pc = "x0" /\ l' = Go(IF c = "SOH" THEN "x1" ELSE "x0")
       \/ /\ l.pc = "x1" /\ l' = Go(IF c = "ESC" THEN "x2" ELSE "x0")
       \/ /\ l.pc = "x2" /\ c \notin {"L", "S", "Q", "K"} /\ l' = Go("x0")
    /\ Silent
    /\ UNCHANGED <<local, stop, session>>

\* main: a request of the distant system
Request(c) ==
    /\ l.pc = "x2"
    /\ \/ /\ c \in {"L", "S"}
          /\ l' = [Go("flags") EXCEPT !.cmd = c]
          /\ session' = xparent([session EXCEPT !.hookup = FALSE], "line", "ptxlflags")
          /\ Reply("ACK", FALSE)
       \/ c = "Q" /\ Reply("Q", FALSE) /\ logout
       \/ /\ c = "K" /\ Reply("K", FALSE) /\ l' = Go("kill")
          /\ session' = [session EXCEPT !.hookup = FALSE]
    /\ UNCHANGED <<local, stop>>

Kill(c) ==
    /\ l.pc = "kill"
    /\ logout
    /\ down' = Append(down, "msg")
    /\ UNCHANGED <<faults, hung, local, stop>>

\* The transfer is over: flow control is turned on again.
Over == /\ l' = [Go("x0") EXCEPT !.cmd = "none", !.name = <<>>, !.fd = FALSE,
                                 !.pos = 0, !.n = 0, !.got = 0, !.c = Noise]
        /\ session' = tinit(session, "line", "ptxlflags")

Flags(c) ==
    /\ l.pc = "flags"
    /\ l' = [Go("name") EXCEPT !.query = (c = "q1")]
    /\ Reply("ACK", FALSE)
    /\ UNCHANGED <<local, stop, session>>

\* getname: the first character
NameStart(c) ==
    /\ l.pc = "name"
    /\ \/ c = "CAN" /\ Over
       \/ /\ c # "CAN"
          /\ \/ c = "ESC" /\ l' = Go("namemsg")
             \/ c = "STX" /\ l' = [Go("namechar") EXCEPT !.name = <<>>]
             \/ /\ c \notin {"ESC", "STX"}
                /\ \E pc \in {"namewait", "namesum2"} : l' = Go(pc)
          /\ UNCHANGED session
    /\ Silent
    /\ UNCHANGED <<local, stop>>

\* message, in the middle of a name or of a file
Message(c) ==
    /\ \/ l.pc = "namemsg" /\ l' = Go(IF c = "ETX" THEN "name" ELSE "namemsg")
       \/ l.pc = "msg" /\ l' = Go(IF c = "ETX" THEN "rec" ELSE "msg")
    /\ Silent
    /\ UNCHANGED <<local, stop, session>>

NameChar(c) ==
    /\ l.pc = "namechar"
    /\ l' = IF c = "ETX" THEN Go("namesum")
            ELSE IF Len(l.name) = 0 THEN [l EXCEPT !.name = <<c>>]
            ELSE Go("namewait")
    /\ Silent
    /\ UNCHANGED <<local, stop, session>>

\* wait_etx, whose variable is not set when it is first tested
NameWait(c) ==
    /\ \/ /\ l.pc = "namewait"
          /\ l' = Go(IF c = "ETX" THEN "namesum2" ELSE "namewait")
          /\ Silent
       \/ /\ l.pc = "namesum2"
          /\ l' = Go("name")
          /\ Reply("CAN", FALSE)
    /\ UNCHANGED <<local, stop, session>>

BadName(c) ==
    /\ l.pc = "namesum"
    /\ l.name # <<c>>
    /\ l' = Go("name")
    /\ Reply("NAK", FALSE)
    /\ UNCHANGED <<local, stop, session>>

Held(n) == IF n \in DOMAIN local THEN local[n] ELSE Absent

Write(n, s) ==
    local' = [m \in DOMAIN local \cup {n} |-> IF m = n THEN s ELSE local[m]]

\* load, once the name is known: ask the user, make the file.
LoadNamed(c) ==
    /\ l.pc = "namesum" /\ l.cmd = "L" /\ l.name = <<c>>
    /\ \/ /\ l.query /\ Held(c) # Absent
          /\ l' = Go("declined")
          /\ Reply("CAN", FALSE)
          /\ UNCHANGED <<local, stop>>
       \/ /\ Write(c, <<>>)
          /\ stop' = [one |-> FALSE, all |-> FALSE]
          /\ l' = [Go("rec") EXCEPT !.fd = TRUE]
          /\ Reply("ACK", FALSE)
       \/ /\ Fault
          /\ stop' = [one |-> FALSE, all |-> FALSE]
          /\ l' = [Go("rec") EXCEPT !.fd = FALSE]
          /\ down' = Append(down, "CAN")
          /\ UNCHANGED <<local, hung>>
    /\ UNCHANGED session

\* The answer to the user's no: the acknowledge that should follow is written
\* to no line.
Declined(c) ==
    /\ l.pc = "declined"
    /\ Over
    /\ hung' = TRUE
    /\ UNCHANGED <<down, faults>>
    /\ UNCHANGED <<local, stop>>

-----------------------------------------------------------------------------
(* load: getrec and the answer to it                                       *)

RecStart(c) ==
    /\ l.pc = "rec"
    /\ \/ /\ c = "STX" /\ l' = [Go("count") EXCEPT !.c = c] /\ Silent
          /\ UNCHANGED <<local, session>>
       \/ /\ c = "ESC" /\ l' = Go("msg") /\ Silent
          /\ UNCHANGED <<local, session>>
       \/ /\ c = "CAN"
          /\ IF l.fd THEN Write(l.name[1], Held(l.name[1]) \o l.buf)
                     ELSE UNCHANGED local
          /\ l' = [Go("x0") EXCEPT !.cmd = "none", !.name = <<>>, !.fd = FALSE,
                                   !.buf = <<>>, !.c = Noise]
          /\ session' = tinit(session, "line", "ptxlflags")
          /\ Reply("ACK", FALSE)
       \/ /\ c \notin {"STX", "ESC", "CAN"}
          /\ Reply("CAN", TRUE)
          /\ UNCHANGED <<l, local, session>>
    /\ UNCHANGED stop

RecCount(c) ==
    /\ l.pc = "count"
    /\ l' = [Go(IF Count(c) = 0 THEN "etx" ELSE "data")
               EXCEPT !.n = Count(c), !.got = 0, !.c = c]
    /\ Silent
    /\ UNCHANGED <<local, stop, session>>

RecData(c) ==
    /\ l.pc = "data"
    /\ l' = [Go(IF l.n = 1 THEN "etx" ELSE "data")
               EXCEPT !.n = @ - 1, !.got = @ + 1, !.c = c, !.buf = Append(@, c)]
    /\ Silent
    /\ UNCHANGED <<local, stop, session>>


\* Leave out what was read of the record and ask for it again.
Again == /\ l' = [Go("rec") EXCEPT !.buf = Drops(l.got), !.n = 0, !.got = 0,
                                   !.c = Noise]
         /\ Reply("NAK", TRUE)

RecEtx(c) ==
    /\ l.pc = "etx"
    /\ \/ c = "ETX" /\ l' = [Go("sum") EXCEPT !.c = c] /\ Silent
       \/ c # "ETX" /\ Again
    /\ UNCHANGED <<local, stop, session>>

\* The record is good: write a disk record when there is more than one, and
\* answer the distant system or pass on the user's request to stop.
Accepted ==
    LET ends == [Go("rec") EXCEPT !.n = 0, !.got = 0, !.c = Noise]
        full == Len(l.buf) > RecSiz
        answer == IF stop.one THEN "CAN" ELSE IF stop.all THEN "ESC" ELSE "ACK"
    IN  \/ /\ ~full \/ l.fd
           /\ IF full
              THEN /\ Write(l.name[1], Held(l.name[1]) \o SubSeq(l.buf, 1, RecSiz))
                   /\ l' = [ends EXCEPT !.buf = SubSeq(@, RecSiz + 1, Len(@))]
              ELSE l' = ends /\ UNCHANGED local
           /\ Reply(answer, TRUE)
        \/ /\ full
           /\ IF l.fd THEN Fault ELSE UNCHANGED faults
           /\ l' = ends
           /\ down' = Append(down, "CAN")
           /\ UNCHANGED <<hung, local>>

RecSum(c) ==
    /\ l.pc = "sum"
    /\ IF l.got = 1 /\ c = Last(l.buf)
       THEN Accepted
       ELSE Again /\ UNCHANGED local
    /\ UNCHANGED <<stop, session>>

-----------------------------------------------------------------------------
(* send: sendrec and the end of the transfer                               *)

Text == Held(l.name[1])

SendNamed(c) ==
    /\ l.pc = "namesum" /\ l.cmd = "S" /\ l.name = <<c>>
    /\ \/ /\ Held(c) \in {Absent, <<>>}
          /\ l' = Go("refused")
          /\ Reply("CAN", FALSE)
          /\ UNCHANGED stop
       \/ /\ Held(c) \notin {Absent, <<>>}
          /\ stop' = [one |-> FALSE, all |-> FALSE]
          /\ l' = [Go("sent") EXCEPT !.pos = 1, !.c = "NAK"]
          /\ \E a \in {"ACK", "EXEC"} :
                \/ down' = down \o <<a>> \o Record(Held(c)[1]) /\ UNCHANGED <<faults, hung>>
                \/ /\ Fault
                   /\ \E d \in Damaged(Record(Held(c)[1])) : down' = down \o <<a>> \o d
                   /\ UNCHANGED hung
    /\ UNCHANGED <<local, session>>

Refused(c) ==
    /\ l.pc = "refused"
    /\ Over
    /\ Reply("ACK", FALSE)
    /\ UNCHANGED <<local, stop>>

Sent(c) ==
    /\ l.pc = "sent"
    /\ \/ c = "NAK" /\ ToDistant(Record(Text[l.pos]), TRUE) /\ UNCHANGED <<l, session>>
       \/ /\ c = "ACK" /\ ~stop.one /\ ~stop.all /\ l.pos < Len(Text)
          /\ l' = [l EXCEPT !.pos = @ + 1]
          /\ ToDistant(Record(Text[l.pos + 1]), TRUE)
          /\ UNCHANGED session
       \/ /\ c = "ACK" /\ ~stop.one /\ ~stop.all /\ l.pos = Len(Text)
          /\ Over
          /\ ToDistant(<<"EOT", "ACK">>, FALSE)
       \/ /\ c # "NAK" /\ (c = "CAN" \/ stop.one \/ (c # "ACK" /\ ~stop.all))
          /\ Over
          /\ ToDistant(<<"CAN", "ACK">>, FALSE)
       \/ /\ c \notin {"NAK", "CAN"} /\ stop.all /\ ~stop.one
          /\ Over
          /\ ToDistant(<<"ESC", "ACK">>, FALSE)
    /\ UNCHANGED <<local, stop>>

-----------------------------------------------------------------------------
(* Reading the line                                                        *)

Handles(c) ==
    \/ Translucent(c) \/ Request(c) \/ Kill(c) \/ Flags(c) \/ NameStart(c)
    \/ Message(c) \/ NameChar(c) \/ NameWait(c) \/ BadName(c) \/ LoadNamed(c)
    \/ Declined(c) \/ RecStart(c) \/ RecCount(c) \/ RecData(c) \/ RecEtx(c)
    \/ RecSum(c) \/ SendNamed(c) \/ Refused(c) \/ Sent(c)

LocalReads ==
    /\ ~eintr
    /\ up # <<>>
    /\ up' = Tail(up)
    /\ Handles(Head(up))
    /\ UNCHANGED <<aborts, eintr>>

\* aread: ten seconds pass.
Timed == l.pc \in {"data", "etx", "sum", "declined"}

LocalTimeout(quiet) ==
    /\ Timed
    /\ ~eintr
    /\ up = <<>>
    /\ quiet
    /\ \/ Declined(Noise)
       \/ l.pc # "declined" /\ Again /\ UNCHANGED <<local, stop, session>>
    /\ UNCHANGED <<up, aborts, eintr>>

\* watch_for_abort: the user ends one transfer or all of them.
Abort(kind) ==
    /\ l.pc \in {"rec", "count", "data", "etx", "sum", "msg", "sent"}
    /\ aborts > 0
    /\ aborts' = aborts - 1
    /\ stop' = [stop EXCEPT ![kind] = TRUE]
    /\ eintr' = (up = <<>>)
    /\ UNCHANGED <<lineVars, l, local, session>>

\* The signal also ends a read() that waits, and the program goes on with what
\* its variable holds: anything when getrec begins, the last character later.
Interrupted ==
    /\ eintr
    /\ eintr' = FALSE
    /\ \E c \in IF l.pc = "rec" THEN Chars ELSE {l.c} : Handles(c)
    /\ UNCHANGED <<up, aborts>>
=============================================================================
