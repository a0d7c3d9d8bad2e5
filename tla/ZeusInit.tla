------------------------------ MODULE ZeusInit ------------------------------
(***************************************************************************)
(* Process 1: /etc/INIT of ZEUS, as re/init/zeus-init.c reconstructs it.   *)
(* It reads /etc/inittab for its present state, runs /etc/rc, and keeps    *)
(* the processes of the entries running; init(1) asks it for another state *)
(* by a signal.                                                            *)
(*                                                                         *)
(* The program is one thread of control that signals interrupt at any      *)
(* step.  stk is its stack: the head is the step it is about to take, the  *)
(* rest are the routines to return to.                                     *)
(***************************************************************************)
EXTENDS Integers, Sequences, FiniteSets

CONSTANTS
    Ids,          \* the identifiers of /etc/inittab, and the console's
    Inittab,      \* its lines: [state, id, flags]
    States,       \* the states that init(1) is asked for
    Copies,       \* bound: processes of one kind at a time
    MaxRequests,  \* bound: changes of state that are asked for
    MaxFailures   \* bound: forks, allocations and opens of inittab that fail

ASSUME InitAssumption ==
    /\ "co" \in Ids                               \* main looks it up itself
    /\ {"rc", "shell", "none"} \cap Ids = {}      \* what runs besides the entries
    /\ Inittab \in Seq([state : Nat, id : Ids, flags : SUBSET {"c", "o", "k", "t"}])
    /\ Copies \in Nat \ {0}

VARIABLES
    state, lstate,          \* the state and the one before it
    rdstate, xstate,        \* inittab must be read; rc was killed
    itab,                   \* itab[]: the process and the command of each entry
    kids,                   \* the children: what they run, whether they live
    rcid, shell,            \* the last rc and the last default shell
    armed,                  \* the signals of the states are caught
    alarm,                  \* the alarm clock of runrc is set
    stk,                    \* the stack
    pnum,                   \* what waitttys returned
    pos,                    \* the line that readttys is at
    fresh,                  \* inittab was read since invttys ran
    lost,                   \* a request was erased by err()
    budget                  \* what remains of the bounds on failures

vars == <<state, lstate, rdstate, xstate, itab, kids, rcid, shell, armed,
          alarm, stk, pnum, pos, fresh, lost, budget>>

\* A process is named after what it runs: an entry, rc or the default shell.
Pids == (Ids \cup {"rc", "shell"}) \X (1 .. Copies)
NOPROC == <<"none", 0>>
NOCMD == [state |-> 0, once |-> FALSE]
Unused == [proc |-> NOPROC, cmd |-> NOCMD]

\* lookid: the table with an entry for i
lookid(t, i) ==
    [j \in DOMAIN t \cup {i} |-> IF j \in DOMAIN t THEN t[j] ELSE Unused]

Top == Head(stk)
Go(pc) == stk' = <<pc>> \o Tail(stk)
Call(pc, ret) == stk' = <<pc, ret>> \o Tail(stk)
Return == stk' = Tail(stk)

Init ==
    /\ state \in {1, 2}
    /\ lstate = 0
    /\ rdstate = TRUE
    /\ xstate = FALSE
    /\ itab = [i \in {} |-> Unused]
    /\ kids = [p \in Pids |-> "none"]
    /\ rcid = NOPROC
    /\ shell = NOPROC
    /\ armed = FALSE
    /\ alarm = FALSE
    /\ stk = <<"loop">>
    /\ pnum = NOPROC
    /\ pos = 1
    /\ fresh = FALSE
    /\ lost = FALSE
    /\ budget = [requests |-> MaxRequests, failures |-> MaxFailures]

-----------------------------------------------------------------------------
(* Processes.  A number is not used again while init remembers it.         *)

Free(k, what) == {n \in 1 .. Copies : k[<<what, n>>] = "none"
                                       /\ <<what, n>> \notin {rcid, shell}}

NewPid(k, what) == <<what, CHOOSE n \in Free(k, what) : TRUE>>

\* fork() and the child's exec
Forked(k, p) == [k EXCEPT ![p] = "alive"]

\* kill(-p, 9)
Killed(k, p) == [q \in Pids |-> IF q = p /\ k[q] = "alive" THEN "dead" ELSE k[q]]

Fails == budget.failures > 0 /\ budget' = [budget EXCEPT !.failures = @ - 1]

\* MUTANT: a process that is there already is started again.
MutStartsAnyway(i) == i \in DOMAIN itab /\ itab[i].cmd # NOCMD

\* invttys: start what has a command and no process; a command that runs
\* once is forgotten, also when it could not be started.  fails are the
\* entries whose fork fails.
Starts(i) == i \in DOMAIN itab /\ itab[i].proc = NOPROC /\ itab[i].cmd # NOCMD

Started(i, p) ==
    [proc |-> p, cmd |-> IF itab[i].cmd.once THEN NOCMD ELSE itab[i].cmd]

invttys ==
    /\ Top = "inv"
    /\ \E fails \in SUBSET {i \in Ids : Starts(i)} :
       /\ \/ fails = {} /\ UNCHANGED budget
          \/ Cardinality(fails) = 1 /\ Fails
       /\ itab' = [i \in DOMAIN itab |->
                     IF ~Starts(i) THEN itab[i]
                     ELSE Started(i, IF i \in fails THEN NOPROC ELSE NewPid(kids, i))]
       /\ kids' = [p \in Pids |->
                     IF \E i \in Ids \ fails : Starts(i) /\ p = NewPid(kids, i)
                     THEN "alive" ELSE kids[p]]
    /\ fresh' = FALSE
    /\ Call("wait", "loop")
    /\ UNCHANGED <<state, lstate, rdstate, xstate, rcid, shell, armed,
                   alarm, pnum, pos, lost>>

-----------------------------------------------------------------------------
(* main                                                                    *)

Loop ==
    /\ Top = "loop"
    /\ xstate' = FALSE
    /\ pnum' = NOPROC
    /\ Go("rd")
    /\ UNCHANGED <<state, lstate, rdstate, itab, kids, rcid, shell, armed,
                   alarm, pos, fresh, lost, budget>>

\* Read inittab and run rc as long as a change is asked for.
Reread ==
    /\ Top = "rd"
    /\ rdstate
    /\ rdstate' = FALSE
    /\ itab' = [i \in DOMAIN itab |-> [itab[i] EXCEPT !.cmd = NOCMD]]
    /\ lost' = FALSE
    /\ Go("open")
    /\ UNCHANGED <<state, lstate, xstate, kids, rcid, shell, armed, alarm,
                   pnum, pos, fresh, budget>>

\* Otherwise start what is missing, after the console's processes were ended
\* if the last change was from state 1 to state 2.
Console ==
    /\ Top = "rd"
    /\ ~rdstate
    /\ IF state = 2 /\ lstate = 1
       THEN /\ itab' = lookid(itab, "co")
            /\ kids' = Killed(kids, itab'["co"].proc)
       ELSE UNCHANGED <<itab, kids>>
    /\ Go("inv")
    /\ UNCHANGED <<state, lstate, rdstate, xstate, rcid, shell, armed, alarm,
                   pnum, pos, fresh, lost, budget>>

\* readttys, once the table is cleared
OpenTab ==
    /\ Top = "open"
    /\ \/ /\ rdstate' = FALSE
          /\ Go("line")
          /\ UNCHANGED budget
       \/ /\ Fails
          /\ Call("err", "open")
          /\ UNCHANGED rdstate
    /\ UNCHANGED <<state, lstate, xstate, itab, kids, rcid, shell, armed,
                   alarm, pnum, pos, fresh, lost>>

\* fit: c is the command as it is kept, or NOCMD for want of memory.
fit(cmd, c) ==
    \/ c = cmd /\ UNCHANGED budget
    \/ c = NOCMD /\ Fails

Line(l) ==
    LET t == lookid(itab, l.id)
        cmd == [state |-> l.state, once |-> "c" \notin l.flags]
    IN  /\ IF "o" \in l.flags
           THEN itab' = t /\ UNCHANGED budget
           ELSE \E c \in {cmd, NOCMD} :
                   fit(cmd, c) /\ itab' = [t EXCEPT ![l.id].cmd = c]
        /\ kids' = IF "k" \in l.flags THEN Killed(kids, t[l.id].proc) ELSE kids

ReadLine ==
    /\ Top = "line"
    /\ pos <= Len(Inittab)
    /\ IF Inittab[pos].state = state
       THEN Line(Inittab[pos])
       ELSE UNCHANGED <<itab, kids, budget>>
    /\ pos' = pos + 1
    /\ UNCHANGED <<state, lstate, rdstate, xstate, rcid, shell, armed,
                   alarm, stk, pnum, fresh, lost>>

MutReadEndForgets ==
    /\ Top = "line"
    /\ pos > Len(Inittab)
    /\ pos' = 1
    /\ rdstate' = FALSE
    /\ Call("rc", "done")
    /\ UNCHANGED <<state, lstate, xstate, itab, kids, rcid, shell, armed, alarm,
                   pnum, fresh, lost, budget>>

ReadEnd ==
    /\ Top = "line"
    /\ pos > Len(Inittab)
    /\ pos' = 1
    /\ Call("rc", "done")
    /\ UNCHANGED <<state, lstate, rdstate, xstate, itab, kids, rcid,
                   shell, armed, alarm, pnum, fresh, lost, budget>>

Done ==
    /\ Top = "done"
    /\ xstate' = FALSE
    /\ fresh' = TRUE
    /\ Go("rd")
    /\ UNCHANGED <<state, lstate, rdstate, itab, kids, rcid, shell, armed,
                   alarm, pnum, pos, lost, budget>>

-----------------------------------------------------------------------------
(* runrc, waitttys and err                                                 *)

\* The signals of the states and the alarm are ignored, or caught again; the
\* alarm stays ignored until runrc sets it.
ignsigs == armed' = FALSE /\ alarm' = FALSE
setsigs(al) == armed' = TRUE /\ alarm' = al

MutRunRcNoAlarm ==
    /\ Top = "rc"
    /\ rcid' = NewPid(kids, "rc")
    /\ kids' = Forked(kids, rcid')
    /\ setsigs(FALSE)
    /\ Call("wait", "rctest")
    /\ UNCHANGED <<state, lstate, rdstate, xstate, itab, shell, pnum, pos, fresh,
                   lost, budget>>

\* runrc: start rc, catch the signals and set the alarm; or fork again.
RunRc ==
    /\ Top = "rc"
    /\ \/ /\ Fails
          /\ UNCHANGED <<kids, rcid, armed, alarm, stk>>
       \/ /\ rcid' = NewPid(kids, "rc")
          /\ kids' = Forked(kids, rcid')
          /\ setsigs(~xstate)
          /\ Call("wait", "rctest")
          /\ UNCHANGED budget
    /\ UNCHANGED <<state, lstate, rdstate, xstate, itab, shell, pnum, pos,
                   fresh, lost>>

\* runrc waits for the rc it started or for a change of state.
RcTest ==
    /\ Top = "rctest"
    /\ IF pnum # rcid /\ ~rdstate
       THEN Call("wait", "rctest") /\ UNCHANGED alarm
       ELSE Return /\ alarm' = (alarm /\ xstate)
    /\ pnum' = NOPROC
    /\ UNCHANGED <<state, lstate, rdstate, xstate, itab, kids, rcid, shell,
                   armed, pos, fresh, lost, budget>>

\* waitttys: wait() returns a child that ended.
Reap ==
    /\ Top = "wait"
    /\ \E p \in Pids :
       /\ kids[p] = "dead"
       /\ kids' = [kids EXCEPT ![p] = "none"]
       /\ itab' = [i \in DOMAIN itab |->
                     IF itab[i].proc = p THEN [itab[i] EXCEPT !.proc = NOPROC]
                                         ELSE itab[i]]
       /\ pnum' = p
    /\ Return
    /\ UNCHANGED <<state, lstate, rdstate, xstate, rcid, shell, armed,
                   alarm, pos, fresh, lost, budget>>

MutWaitRestarts ==
    /\ \/ Top = "wait" /\ \A p \in Pids : kids[p] = "none"
       \/ Top = "intr"
    /\ IF Top = "intr" THEN Go("wait") /\ UNCHANGED pnum
       ELSE IF ~rdstate /\ ~xstate
       THEN Call("err", "wait") /\ UNCHANGED pnum
       ELSE Return /\ pnum' = NOPROC
    /\ UNCHANGED <<state, lstate, rdstate, xstate, itab, kids, rcid, shell,
                   armed, alarm, pos, fresh, lost, budget>>

\* wait() fails: there is no child, or a signal came.
WaitFails ==
    /\ \/ Top = "wait" /\ \A p \in Pids : kids[p] = "none"
       \/ Top = "intr"
    /\ IF ~rdstate /\ ~xstate
       THEN Call("err", "wait") /\ UNCHANGED pnum
       ELSE Return /\ pnum' = NOPROC
    /\ UNCHANGED <<state, lstate, rdstate, xstate, itab, kids, rcid, shell,
                   armed, alarm, pos, fresh, lost, budget>>

\* err(2): run a shell on the console; init ends if it cannot be started.
Err ==
    /\ Top = "err"
    /\ \/ /\ Fails
          /\ stk' = <<"exited">>
          /\ UNCHANGED <<kids, shell, rdstate, armed, alarm, lost>>
       \/ /\ shell' = NewPid(kids, "shell")
          /\ kids' = Forked(kids, shell')
          /\ rdstate' = FALSE
          /\ lost' = (lost \/ rdstate)
          /\ setsigs(FALSE)
          /\ Call("wait", "errtest")
          /\ UNCHANGED budget
    /\ UNCHANGED <<state, lstate, xstate, itab, rcid, pnum, pos, fresh>>

ErrTest ==
    /\ Top = "errtest"
    /\ IF pnum # shell /\ ~rdstate
       THEN Call("wait", "errtest") /\ UNCHANGED shell
       ELSE Return /\ shell' = NOPROC
    /\ pnum' = NOPROC
    /\ UNCHANGED <<state, lstate, rdstate, xstate, itab, kids, rcid,
                   armed, alarm, pos, fresh, lost, budget>>

-----------------------------------------------------------------------------
(* Signals.  One that comes during wait() makes it fail.                   *)

Interrupted == IF Top = "wait" THEN <<"intr">> \o Tail(stk) ELSE stk

\* chst for the signal of a state
chst(s) ==
    /\ Top # "exited"
    /\ armed
    /\ budget.requests > 0
    /\ budget' = [budget EXCEPT !.requests = @ - 1]
    /\ ignsigs
    /\ lstate' = state
    /\ state' = s
    /\ rdstate' = TRUE
    /\ stk' = Interrupted
    /\ UNCHANGED <<xstate, itab, kids, rcid, shell, pnum, pos, fresh, lost>>

\* chst for STx, which is never ignored and asks for state 1
Hangup ==
    /\ Top # "exited"
    /\ budget.requests > 0
    /\ budget' = [budget EXCEPT !.requests = @ - 1]
    /\ ignsigs
    /\ lstate' = state
    /\ state' = 1
    /\ rdstate' = TRUE
    /\ stk' = Interrupted
    /\ UNCHANGED <<xstate, itab, kids, rcid, shell, pnum, pos, fresh, lost>>

\* The alarm of runrc: rc took too long.
rckill ==
    /\ Top # "exited"
    /\ alarm
    /\ alarm' = FALSE
    /\ kids' = Killed(kids, rcid)
    /\ xstate' = TRUE
    /\ stk' = Interrupted
    /\ UNCHANGED <<state, lstate, rdstate, itab, rcid, shell, armed, pnum,
                   pos, fresh, lost, budget>>

\* A child ends.
Die(p) ==
    /\ kids[p] = "alive"
    /\ kids' = Killed(kids, p)
    /\ UNCHANGED <<state, lstate, rdstate, xstate, itab, rcid, shell,
                   armed, alarm, stk, pnum, pos, fresh, lost, budget>>

-----------------------------------------------------------------------------
Step ==
    \/ Loop \/ Reread \/ Console \/ OpenTab \/ ReadLine \/ ReadEnd \/ Done
    \/ invttys \/ RunRc \/ RcTest \/ Reap \/ WaitFails \/ Err \/ ErrTest

Next ==
    \/ Step \/ rckill \/ Hangup
    \/ \E s \in States : chst(s)
    \/ \E p \in Pids : Die(p)

Spec == Init /\ [][Next]_vars

\* The system runs init and delivers the alarm.  Nothing obliges a child to end.
FairSpec == Spec /\ WF_vars(Step) /\ WF_vars(rckill)

-----------------------------------------------------------------------------
(* What init promises.                                                     *)

\* The table and the processes agree whatever routine waits: every process
\* that was started for an entry and not yet waited for is the one in_proc
\* names, so that no entry ever has two (invttys, waitttys, lookproc).
Tracked ==
    \A i \in Ids, n \in 1 .. Copies :
        kids[<<i, n>>] # "none" <=> i \in DOMAIN itab /\ itab[i].proc = <<i, n>>

\* When main goes on to start processes and no change is asked for, the
\* commands are those of the present state, although signals came while
\* inittab was read.  The exception is a request that err() erases when it
\* starts the default shell (rdstate = 0 at line 507).
TableOfState ==
    Top \in {"rd", "inv"} /\ ~rdstate /\ ~lost =>
        \A i \in DOMAIN itab : itab[i].cmd # NOCMD => itab[i].cmd.state = state

\* A request that interrupts wait() makes init read inittab with no help from
\* a child, unless the default shell is running.
ActsOnChange ==
    (Top = "intr" /\ rdstate /\ stk[2] # "errtest") ~> (Top \in {"open", "exited"})

Lives(i, st) ==
    i \in DOMAIN itab /\ itab[i].proc # NOPROC /\ kids[itab[i].proc] = st

\* An entry that is to run continuously is started again after it ended, even
\* if rc hangs, unless the state changes, fork fails or the default shell runs.
Respawned ==
    \A i \in Ids :
        (Lives(i, "dead") /\ itab[i].cmd # NOCMD /\ ~itab[i].cmd.once)
          ~> (\/ Lives(i, "alive") \/ rdstate \/ Top = "err"
              \/ budget.failures < MaxFailures)

\* "on the 1 -> 2 transition, terminate the old console process group before
\* starting the state-2 entry": main ends the console's processes only when
\* it has just read inittab.
ConsoleOnce == [][Console /\ kids' # kids => fresh]_vars
=============================================================================
