---------------------------- MODULE FileTransfer ----------------------------
(***************************************************************************)
(* The program remote on one system and putfile, getfile or local on the   *)
(* other, joined by a line.                                                *)
(***************************************************************************)
EXTENDS RemoteProgram, TransferPrograms

CONSTANT MaxDelays     \* bound: alarms that go off although an answer comes

VARIABLE delays        \* what remains of it

vars == <<lineVars, remoteVars, distantVars, delays>>

TextOf(n) == (CHOOSE f \in Range(Files) : f.name = n).text

Old == <<"old">>

\* The system that receives may hold some of the files already.
Init ==
    /\ InitLine
    /\ delays = MaxDelays
    /\ \E job \in Jobs, have \in SUBSET Names :
       LET full == [n \in Names |-> TextOf(n)]
           olds == [n \in have |-> Old]
           new == [n \in Names |-> IF n \in have THEN Old ELSE <<>>]
       IN  /\ InitDistant(job, IF job = "put" THEN full ELSE new)
           /\ InitRemote(IF job = "put" THEN olds ELSE full)

\* An alarm goes off because nothing can come, or too early.
Alarm(nothing) ==
    \/ nothing /\ UNCHANGED delays
    \/ delays > 0 /\ delays' = delays - 1

Local ==
    \/ /\ Try \/ Connect \/ Busy \/ LocalReads \/ Interrupted
       /\ UNCHANGED <<distantVars, delays>>
    \/ LocalTimeout(Alarm(down = <<>>)) /\ UNCHANGED distantVars

User ==
    /\ OtherUser \/ cleanup \/ Hookup \/ \E kind \in {"one", "all"} : Abort(kind)
    /\ UNCHANGED <<distantVars, delays>>

NothingComes == up = <<>> /\ ~Timed /\ ~eintr

Distant ==
    /\ l.pc \notin {"try", "busy", "creat"}
    /\ \/ (Begin \/ Skip \/ Quit \/ DistantReads) /\ UNCHANGED delays
       \/ PutTimeout(Alarm(NothingComes))
       \/ GetTimeout(Alarm(NothingComes))
    /\ UNCHANGED remoteVars

Next == Local \/ User \/ Distant

Spec == Init /\ [][Next]_vars

FairSpec == Spec /\ WF_vars(Local) /\ WF_vars(Distant)

-----------------------------------------------------------------------------
WireText(f) == [i \in DOMAIN f.text |-> Wire(f, f.text[i])]
StoredText(f) == [i \in DOMAIN f.text |-> Stored(f, f.text[i])]

\* putfile counted file k and the local system has left load.
Settled(k) == k \in won /\ t.file > k /\ up = <<>> /\ l.pc = "x0"

Mishaps == MaxFaults + MaxDelays - faults - delays

NoAbort == aborts = MaxAborts

RECURSIVE Collapse(_)
Collapse(s) ==
    IF Len(s) < 2 THEN s
    ELSE IF s[1] = s[2] THEN Collapse(Tail(s)) ELSE <<s[1]>> \o Collapse(Tail(s))


\* A file that getfile counts as transferred is exact, aborted transfers, lost
\* and damaged characters and failing writes included, when no alarm goes off
\* before an answer that is on its way.
GetExact ==
    t.job = "get" /\ delays = MaxDelays =>
        \A k \in won : distant[Files[k].name] = StoredText(Files[k])

\* The user's command on the distant system comes to its end after a damaged
\* character or a slow answer, unless the character was one that is waited for
\* without an alarm, or the session or the transfer was ended by the user.
Completes ==
    <>(\/ t.pc = "left" \/ l.pc = "exited" \/ hung \/ ~NoAbort
       \/ MaxFaults - faults > 1
       \/ resent /\ Mishaps > 1)

=============================================================================
