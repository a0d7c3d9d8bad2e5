-------------------------- MODULE TransferPrograms --------------------------
(***************************************************************************)
(* The programs that the user runs on the distant system: putfile, which   *)
(* sends files to the local one, getfile, which fetches them, and local,   *)
(* which ends the session (putfile.c, getfile.c and local.c).              *)
(***************************************************************************)
EXTENDS TransferLine

VARIABLES
    t,         \* the process: pc, file, block, tries and characters
    distant,   \* the files of the distant system
    won,       \* the files it counts as transferred
    resent     \* putfile sent a block again that it was not asked for

distantVars == <<t, distant, won, resent>>

InitDistant(job, held) ==
    /\ t = [job |-> job, pc |-> "file", file |-> 1, pos |-> 0, tries |-> 0,
            acknak |-> "ACK", c |-> Noise, n |-> 0, got |-> <<>>]
    /\ distant = held
    /\ won = {}
    /\ resent = FALSE

At(pc) == [t EXCEPT !.pc = pc]
Quiet == UNCHANGED <<up, faults, hung>>
Now == Files[t.file]

\* The next argument of the command line
NextFile == [t EXCEPT !.pc = "file", !.file = @ + 1, !.pos = 0, !.tries = 0,
                      !.c = Noise, !.n = 0, !.got = <<>>, !.acknak = "ACK"]

\* A text file is sent with returns for newlines, and stored with newlines
\* for returns.
Wire(f, c) == IF c = "nl" /\ ~f.bin THEN "cr" ELSE c
Stored(f, c) == IF c = "cr" /\ ~f.bin THEN "nl" ELSE c

-----------------------------------------------------------------------------
(* Both programs: the request, the flags and the name.                     *)

Begin ==
    /\ t.pc = "file"
    /\ t.file <= Len(Files)
    /\ t' = At("setup")
    /\ ToLocal(<<"SOH", "ESC", IF t.job = "put" THEN "L" ELSE "S">>, FALSE)
    /\ UNCHANGED <<down, distant, won, resent>>

\* putfile leaves out what it cannot open, a directory and an empty file;
\* getfile leaves out a file that the user wants to keep.
Skip ==
    /\ t.pc = "file"
    /\ t.file <= Len(Files)
    /\ \/ t.job = "put" /\ Fault
       \/ t.job = "get" /\ Now.query /\ distant[Now.name] # <<>> /\ UNCHANGED faults
    /\ t' = NextFile
    /\ UNCHANGED <<up, down, hung, distant, won, resent>>

Setup(c) ==
    /\ t.pc = "setup"
    /\ t' = At("flags")
    /\ ToLocal(<<IF Now.query THEN "q1" ELSE "q0">>, FALSE)
    /\ UNCHANGED <<distant, won, resent>>

SendName(tries) ==
    /\ t' = [At("name") EXCEPT !.tries = tries]
    /\ ToLocal(Name(Now.name), FALSE)

FlagsSeen(c) ==
    /\ t.pc = "flags"
    /\ SendName(1)
    /\ UNCHANGED <<distant, won, resent>>

NameAgain(c) ==
    /\ t.pc = "name"
    /\ c \notin {"ACK", "CAN"} /\ (t.job = "get" => c # "EXEC")
    /\ t.tries < Retries
    /\ SendName(t.tries + 1)
    /\ UNCHANGED <<distant, won, resent>>

\* The name was not accepted: end of file, or cancel.
NameFails(c) ==
    /\ t.pc = "name"
    /\ c # "ACK" /\ (t.job = "get" => c # "EXEC")
    /\ c = "CAN" \/ t.tries = Retries
    /\ t' = [At(IF t.job = "put" /\ c = "ESC" THEN "endall" ELSE "end")
               EXCEPT !.acknak = c]
    /\ ToLocal(<<"CAN">>, FALSE)
    /\ UNCHANGED <<distant, won, resent>>

\* The local system is ready.
End(c) ==
    /\ \/ t.pc = "end" /\ t' = NextFile
       \/ t.pc = "endall" /\ t' = [NextFile EXCEPT !.file = Len(Files) + 1]
    /\ Quiet
    /\ UNCHANGED <<distant, won, resent>>

-----------------------------------------------------------------------------
(* putfile                                                                 *)

\* Send the next block, or the end of the file.
PutBlock(pos) ==
    IF pos <= Len(distant[Now.name])
    THEN /\ t' = [At("ack") EXCEPT !.pos = pos, !.tries = 1, !.acknak = "NAK"]
         /\ ToLocal(Record(Wire(Now, distant[Now.name][pos])), TRUE)
         /\ UNCHANGED won
    ELSE /\ t' = At("end")
         /\ won' = won \cup {t.file}
         /\ ToLocal(<<"CAN">>, FALSE)

PutNext(c) ==
    /\ t.job = "put"
    /\ t.pc \in {"name", "ack"}
    /\ c = "ACK"
    /\ PutBlock(t.pos + 1)
    /\ UNCHANGED <<distant, resent>>

\* No acknowledge: send the block again or give the file up.
Repeat(c) ==
    IF c \notin {"CAN", "ESC"} /\ t.tries < Retries
    THEN /\ t' = [t EXCEPT !.tries = @ + 1, !.acknak = c]
         /\ ToLocal(Record(Wire(Now, distant[Now.name][t.pos])), TRUE)
    ELSE /\ t' = [At(IF c = "ESC" THEN "endall" ELSE "end") EXCEPT !.acknak = c]
         /\ ToLocal(<<"ESC", "msg", "ETX", "CAN">>, FALSE)

PutAgain(c) ==
    /\ t.job = "put"
    /\ t.pc = "ack"
    /\ c # "ACK"
    /\ Repeat(c)
    /\ resent' = (resent \/ c # "NAK")
    /\ UNCHANGED <<distant, won>>

MutPutTimeoutWaits(late) ==
    /\ t.pc = "ack"
    /\ down = <<>>
    /\ late
    /\ UNCHANGED <<lineVars, distantVars>>

\* The alarm of twenty seconds goes off.
PutTimeout(late) ==
    /\ t.pc = "ack"
    /\ down = <<>>
    /\ late
    /\ Repeat(t.acknak)
    /\ resent' = TRUE
    /\ UNCHANGED <<down, distant, won>>

-----------------------------------------------------------------------------
(* getfile                                                                 *)

\* The file is made; if not, the record that comes is read and refused.
GetNamed(c) ==
    /\ t.job = "get"
    /\ t.pc = "name"
    /\ c \in {"ACK", "EXEC"}
    /\ \/ /\ distant' = [distant EXCEPT ![Now.name] = <<>>]
          /\ t' = At("first")
          /\ UNCHANGED faults
       \/ /\ Fault
          /\ t' = At("discard")
          /\ UNCHANGED distant
    /\ UNCHANGED <<up, hung, won, resent>>

\* look_for_etx after creat failed
Discard(c) ==
    /\ t.pc \in {"discard", "discardsum"}
    /\ \/ t.pc = "discard" /\ c = "ETX" /\ t' = At("discardsum") /\ Quiet
       \/ t.pc = "discard" /\ c # "ETX" /\ UNCHANGED t /\ Quiet
       \/ t.pc = "discardsum" /\ t' = At("cancelled") /\ ToLocal(<<"CAN">>, FALSE)
    /\ UNCHANGED <<distant, won, resent>>

Cancelled(c) ==
    /\ t.pc = "cancelled"
    /\ t' = [At(IF c = "ESC" THEN "endall" ELSE "end") EXCEPT !.acknak = c]
    /\ won' = IF c = "EOT" THEN won \cup {t.file} ELSE won
    /\ Quiet
    /\ UNCHANGED <<distant, resent>>

\* A record begins with c.
Begins(c) ==
    IF c = "STX" THEN [At("count") EXCEPT !.got = <<>>]
    ELSE At(IF c = "ETX" THEN "flushsum" ELSE "flush")

\* The character between records: the end, or the first of a record.
GetFirst(c) ==
    /\ t.pc = "first"
    /\ \/ /\ c \in {"CAN", "EOT", "ESC"}
          /\ t' = At(IF c = "ESC" THEN "endall" ELSE "end")
          /\ won' = IF c = "EOT" THEN won \cup {t.file} ELSE won
       \/ /\ c \notin {"CAN", "EOT", "ESC"}
          /\ t' = [Begins(c) EXCEPT !.tries = 0]
          /\ UNCHANGED won
    /\ Quiet
    /\ UNCHANGED <<distant, resent>>

GetCount(c) ==
    /\ t.pc = "count"
    /\ t' = [At(IF Count(c) = 0 THEN "etx" ELSE "data") EXCEPT !.n = Count(c)]
    /\ Quiet
    /\ UNCHANGED <<distant, won, resent>>

GetData(c) ==
    /\ t.pc = "data"
    /\ t' = [At(IF t.n = 1 THEN "etx" ELSE "data")
               EXCEPT !.n = @ - 1, !.got = Append(@, c)]
    /\ Quiet
    /\ UNCHANGED <<distant, won, resent>>

GetEtx(c) ==
    /\ t.pc = "etx"
    /\ t' = At(IF c = "ETX" THEN "sum" ELSE "flush")
    /\ Quiet
    /\ UNCHANGED <<distant, won, resent>>

\* The record is not good: ask for it again, or cancel.
Refuse ==
    LET s == [t EXCEPT !.tries = @ + 1, !.n = 0, !.got = <<>>] IN
    IF s.tries < Retries
    THEN t' = [s EXCEPT !.pc = "nak"] /\ ToLocal(<<"NAK">>, TRUE)
    ELSE t' = [s EXCEPT !.pc = "first"] /\ ToLocal(<<"CAN">>, FALSE)

MutGetSumUnchecked(c) ==
    /\ t.pc = "sum"
    /\ distant' = [distant EXCEPT ![Now.name] =
                     @ \o [i \in DOMAIN t.got |-> Stored(Now, t.got[i])]]
    /\ t' = [At("first") EXCEPT !.got = <<>>]
    /\ ToLocal(<<"ACK">>, FALSE)
    /\ UNCHANGED <<won, resent>>

GetSum(c) ==
    /\ t.pc = "sum"
    /\ \/ /\ t.got = <<c>>
          /\ distant' = [distant EXCEPT ![Now.name] = Append(@, Stored(Now, c))]
          /\ t' = [At("first") EXCEPT !.got = <<>>]
          /\ ToLocal(<<"ACK">>, FALSE)
       \/ /\ t.got = <<c>>
          /\ Fault
          /\ t' = [At("first") EXCEPT !.got = <<>>]
          /\ up' = Append(up, "CAN")
          /\ UNCHANGED <<distant, hung>>
       \/ t.got # <<c>> /\ Refuse /\ UNCHANGED distant
    /\ UNCHANGED <<won, resent>>

\* look_for_etx: read to the end of the record.
Flush(c) ==
    /\ \/ t.pc = "flush" /\ t' = At(IF c = "ETX" THEN "flushsum" ELSE "flush") /\ Quiet
       \/ t.pc = "flushsum" /\ Refuse
    /\ UNCHANGED <<distant, won, resent>>

\* The first character after a NAK
GetAgain(c) ==
    /\ t.pc = "nak"
    /\ t' = Begins(c)
    /\ Quiet
    /\ UNCHANGED <<distant, won, resent>>

\* An alarm goes off: NAKs are sent until a character comes; a missing end of
\* text is passed over; anything else that is missing spoils the record.
GetTimeout(late) ==
    /\ t.pc \in {"nak", "etx", "data", "sum", "flush", "flushsum",
                 "discard", "discardsum"}
    /\ down = <<>>
    /\ late
    /\ \/ t.pc = "nak" /\ ToLocal(<<"NAK">>, TRUE) /\ UNCHANGED t
       \/ t.pc = "etx" /\ t' = At("sum") /\ Quiet
       \/ t.pc \in {"data", "sum", "flush", "flushsum"} /\ Refuse
       \/ /\ t.pc \in {"discard", "discardsum"}
          /\ t' = At("cancelled")
          /\ ToLocal(<<"CAN">>, FALSE)
    /\ UNCHANGED <<down, distant, won, resent>>

-----------------------------------------------------------------------------
(* local, which the user runs last                                         *)

Quit ==
    /\ t.pc = "file"
    /\ t.file > Len(Files)
    /\ t' = At("quit")
    /\ \E c \in {"Q", "K"} : ToLocal(<<"SOH", "ESC", c>>, FALSE)
    /\ UNCHANGED <<down, distant, won, resent>>

QuitSeen(c) ==
    /\ t.pc = "quit"
    /\ t' = At("left")
    /\ IF c = "K" THEN ToLocal(<<c>>, FALSE) ELSE Quiet
    /\ UNCHANGED <<distant, won, resent>>

-----------------------------------------------------------------------------
DistantHandles(c) ==
    \/ Setup(c) \/ FlagsSeen(c) \/ NameAgain(c) \/ NameFails(c) \/ End(c)
    \/ PutNext(c) \/ PutAgain(c) \/ GetNamed(c) \/ Discard(c) \/ Cancelled(c)
    \/ GetFirst(c) \/ GetCount(c) \/ GetData(c) \/ GetEtx(c) \/ GetSum(c)
    \/ Flush(c) \/ GetAgain(c) \/ QuitSeen(c)

DistantReads ==
    /\ down # <<>>
    /\ down' = Tail(down)
    /\ DistantHandles(Head(down))
=============================================================================
