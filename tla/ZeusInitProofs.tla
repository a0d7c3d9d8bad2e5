--------------------------- MODULE ZeusInitProofs ---------------------------
(***************************************************************************)
(* For every inittab, every number of requests and failures, process 1     *)
(* keeps track of its processes and acts on the table of its state.        *)
(***************************************************************************)
EXTENDS ZeusInit, SequenceTheorems, TLAPS

-----------------------------------------------------------------------------
(* The table and the processes                                             *)

Cmds == [state : Nat, once : BOOLEAN]
Procs(i) == {NOPROC} \cup ({i} \X (1 .. Copies))

\* What an entry's in_proc names was started for that entry; rc and the
\* default shell have numbers of their own.
TableInv ==
    /\ kids \in [Pids -> {"none", "alive", "dead"}]
    /\ DOMAIN itab \subseteq Ids
    /\ itab = [i \in DOMAIN itab |-> itab[i]]
    /\ \A i \in DOMAIN itab : itab[i] \in [proc : Procs(i), cmd : Cmds]
    /\ rcid = NOPROC \/ rcid[1] = "rc"
    /\ shell = NOPROC \/ shell[1] = "shell"
    /\ Tracked

LEMMA PidOfEntry ==
    ASSUME NEW i \in Ids, NEW n \in 1 .. Copies
    PROVE  /\ <<i, n>> \in Pids
           /\ <<i, n>> # NOPROC
           /\ i \notin {"rc", "shell"}
  BY InitAssumption DEF Pids, NOPROC

LEMMA TableInit == Init => TableInv
<1>. SUFFICES ASSUME Init PROVE TableInv
  OBVIOUS
<1>1. DOMAIN itab = {}
  BY DEF Init
<1>2. Tracked
  BY <1>1, PidOfEntry DEF Init, Tracked
<1>. QED
  BY <1>1, <1>2 DEF Init, TableInv

\* What leaves the table and the processes alone.
LEMMA TableQuiet ==
    ASSUME TableInv, UNCHANGED <<itab, kids>>,
           rcid' = rcid \/ rcid' = NewPid(kids, "rc"),
           shell' = shell \/ shell' = NOPROC \/ shell' = NewPid(kids, "shell")
    PROVE  TableInv'
<1>1. Tracked'
  BY DEF TableInv, Tracked
<1>. QED
  BY <1>1 DEF TableInv, NewPid

\* Ending processes does not change which are waited for.
LEMMA TableKilled ==
    ASSUME TableInv, NEW p, UNCHANGED <<itab, rcid, shell>>, kids' = Killed(kids, p)
    PROVE  TableInv'
<1>1. kids' \in [Pids -> {"none", "alive", "dead"}]
  BY DEF TableInv, Killed
<1>2. \A q \in Pids : kids'[q] = "none" <=> kids[q] = "none"
  BY DEF TableInv, Killed
<1>3. Tracked'
  <2>1. Tracked
    BY DEF TableInv
  <2>. QED
    BY <1>2, <2>1, PidOfEntry, Zenon DEF Tracked
<1>. QED
  BY <1>1, <1>3 DEF TableInv

\* A process that is none of an entry's is started.
LEMMA TableForked ==
    ASSUME TableInv, NEW what \in {"rc", "shell"},
           UNCHANGED itab, kids' = Forked(kids, NewPid(kids, what)),
           rcid' = rcid \/ rcid' = NewPid(kids, "rc"),
           shell' = shell \/ shell' = NewPid(kids, "shell")
    PROVE  TableInv'
<1>1. kids' \in [Pids -> {"none", "alive", "dead"}]
  BY DEF TableInv, Forked
<1>2. \A i \in Ids, n \in 1 .. Copies : kids'[<<i, n>>] = kids[<<i, n>>]
  BY PidOfEntry DEF TableInv, Forked, NewPid
<1>3. Tracked'
  <2>1. Tracked
    BY DEF TableInv
  <2>. QED
    BY <1>2, <2>1, Zenon DEF Tracked
<1>. QED
  BY <1>1, <1>3 DEF TableInv, NewPid

\* lookid() adds an entry that has no process.
LEMMA TableLookid ==
    ASSUME TableInv, NEW i \in Ids
    PROVE  LET t == lookid(itab, i) IN
           /\ DOMAIN t = DOMAIN itab \cup {i}
           /\ t = [j \in DOMAIN t |-> t[j]]
           /\ \A j \in DOMAIN t : t[j] \in [proc : Procs(j), cmd : Cmds]
           /\ \A j \in Ids, n \in 1 .. Copies :
                kids[<<j, n>>] # "none" <=> j \in DOMAIN t /\ t[j].proc = <<j, n>>
           /\ \A j \in DOMAIN t : t[j].cmd # NOCMD => j \in DOMAIN itab /\ t[j] = itab[j]
<1>. DEFINE t == lookid(itab, i)
<1>1. /\ DOMAIN t = DOMAIN itab \cup {i}
      /\ \A j \in DOMAIN t : t[j] = IF j \in DOMAIN itab THEN itab[j] ELSE Unused
      /\ t = [j \in DOMAIN t |-> t[j]]
  BY DEF lookid
<1>. HIDE DEF t
<1>2. \A j : Unused \in [proc : Procs(j), cmd : Cmds] /\ Unused.cmd = NOCMD
  BY DEF Unused, Procs, Cmds, NOCMD
<1>3. \A j \in Ids, n \in 1 .. Copies : Unused.proc # <<j, n>>
  BY PidOfEntry DEF Unused
<1>4. \A j \in Ids, n \in 1 .. Copies :
        kids[<<j, n>>] # "none" <=> j \in DOMAIN t /\ t[j].proc = <<j, n>>
  <2>. SUFFICES ASSUME NEW j \in Ids, NEW n \in 1 .. Copies
                PROVE  kids[<<j, n>>] # "none" <=> j \in DOMAIN t /\ t[j].proc = <<j, n>>
    OBVIOUS
  <2>1. kids[<<j, n>>] # "none" <=> j \in DOMAIN itab /\ itab[j].proc = <<j, n>>
    BY Zenon DEF TableInv, Tracked
  <2>2. CASE j \in DOMAIN itab
    BY <1>1, <2>1, <2>2
  <2>3. CASE j \notin DOMAIN itab
    <3>1. ~(j \in DOMAIN t /\ t[j].proc = <<j, n>>)
      BY <1>1, <1>3, <2>3
    <3>. QED
      BY <2>1, <2>3, <3>1
  <2>. QED
    BY <2>2, <2>3
<1>5. \A j \in DOMAIN t : t[j] \in [proc : Procs(j), cmd : Cmds]
  BY <1>1, <1>2 DEF TableInv
<1>6. \A j \in DOMAIN t : t[j].cmd # NOCMD => j \in DOMAIN itab /\ t[j] = itab[j]
  BY <1>1, <1>2
<1>7. QED
  BY <1>1, <1>4, <1>5, <1>6 DEF t

-----------------------------------------------------------------------------
(* One step                                                                *)

\* A line of inittab changes an entry's command and may end its process.
LEMMA TableLine ==
    ASSUME TableInv, NEW l \in [state : Nat, id : Ids, flags : SUBSET {"c", "o", "k", "t"}],
           Line(l), UNCHANGED <<rcid, shell>>
    PROVE  TableInv'
<1>. DEFINE t == lookid(itab, l.id)
            mid == IF "k" \in l.flags THEN Killed(kids, t[l.id].proc) ELSE kids
<1>0. l.id \in Ids /\ l.state \in Nat
  OBVIOUS
<1>1. /\ DOMAIN t = DOMAIN itab \cup {l.id}
      /\ t = [j \in DOMAIN t |-> t[j]]
      /\ \A j \in DOMAIN t : t[j] \in [proc : Procs(j), cmd : Cmds]
      /\ \A j \in Ids, n \in 1 .. Copies :
           kids[<<j, n>>] # "none" <=> j \in DOMAIN t /\ t[j].proc = <<j, n>>
  BY <1>0, TableLookid
<1>2. \E c \in Cmds : itab' = t \/ itab' = [t EXCEPT ![l.id].cmd = c]
  <2>. DEFINE once == "c" \notin l.flags
              cmd == [state |-> l.state, once |-> once]
  <2>1. once \in BOOLEAN
    BY Zenon
  <2>2. NOCMD \in Cmds
    BY DEF NOCMD, Cmds
  <2>3. cmd \in Cmds
    <3>. HIDE DEF once
    <3>. QED
      BY <1>0, <2>1 DEF Cmds
  <2>4. itab' = t \/ \E c \in {cmd, NOCMD} : itab' = [t EXCEPT ![l.id].cmd = c]
    BY Zenon DEF Line
  <2>. HIDE DEF cmd, t
  <2>. QED
    BY <2>2, <2>3, <2>4
<1>3. kids' = mid
  BY DEF Line
<1>4. kids' \in [Pids -> {"none", "alive", "dead"}]
  BY <1>3 DEF TableInv, Killed
<1>5. \A q \in Pids : kids'[q] = "none" <=> kids[q] = "none"
  BY <1>3 DEF TableInv, Killed
<1>. HIDE DEF t, mid
<1>6. /\ DOMAIN itab' = DOMAIN t
      /\ itab' = [j \in DOMAIN itab' |-> itab'[j]]
      /\ \A j \in DOMAIN t : /\ itab'[j] \in [proc : Procs(j), cmd : Cmds]
                              /\ itab'[j].proc = t[j].proc
  <2>1. CASE itab' = t
    BY <1>1, <2>1
  <2>2. CASE itab' # t
    <3>1. PICK c \in Cmds : itab' = [t EXCEPT ![l.id].cmd = c]
      BY <1>2, <2>2
    <3>2. \A j \in DOMAIN t : itab'[j] = IF j = l.id THEN [t[j] EXCEPT !.cmd = c] ELSE t[j]
      BY <1>1, <3>1
    <3>3. DOMAIN itab' = DOMAIN t /\ itab' = [j \in DOMAIN itab' |-> itab'[j]]
      BY <1>1, <3>1
    <3>4. ASSUME NEW j \in DOMAIN t
          PROVE  /\ itab'[j] \in [proc : Procs(j), cmd : Cmds]
                 /\ itab'[j].proc = t[j].proc
      BY <1>1, <3>2, ZenonT(60)
    <3>. QED
      BY <3>3, <3>4
  <2>. QED
    BY <2>1, <2>2
<1>7. Tracked'
  <2>. SUFFICES ASSUME NEW j \in Ids, NEW n \in 1 .. Copies
                PROVE  kids'[<<j, n>>] # "none" <=>
                         j \in DOMAIN itab' /\ itab'[j].proc = <<j, n>>
    BY Zenon DEF Tracked
  <2>1. kids'[<<j, n>>] # "none" <=> kids[<<j, n>>] # "none"
    BY <1>5, PidOfEntry
  <2>2. kids[<<j, n>>] # "none" <=> j \in DOMAIN t /\ t[j].proc = <<j, n>>
    BY <1>1, Zenon
  <2>. QED
    BY <1>6, <2>1, <2>2
<1>. QED
  BY <1>0, <1>1, <1>4, <1>6, <1>7 DEF TableInv

\* invttys(): an entry is started only if it has no process, so that the
\* number it gets is the only one.
LEMMA TableStarts ==
    ASSUME TableInv, invttys
    PROVE  TableInv'
<1>1. PICK fails \in SUBSET {i \in Ids : Starts(i)} :
        /\ itab' = [i \in DOMAIN itab |->
                     IF ~Starts(i) THEN itab[i]
                     ELSE Started(i, IF i \in fails THEN NOPROC ELSE NewPid(kids, i))]
        /\ kids' = [p \in Pids |->
                     IF \E i \in Ids \ fails : Starts(i) /\ p = NewPid(kids, i)
                     THEN "alive" ELSE kids[p]]
  BY DEF invttys
<1>2. \A i \in Ids : Starts(i) =>
        /\ i \in DOMAIN itab
        /\ \A n \in 1 .. Copies : kids[<<i, n>>] = "none"
  <2>. SUFFICES ASSUME NEW i \in Ids, Starts(i)
                PROVE  i \in DOMAIN itab /\ \A n \in 1 .. Copies : kids[<<i, n>>] = "none"
    OBVIOUS
  <2>1. i \in DOMAIN itab /\ itab[i].proc = NOPROC
    BY DEF Starts
  <2>. QED
    BY <2>1, PidOfEntry DEF TableInv, Tracked
<1>3. \A i \in Ids : Starts(i) => \E n \in 1 .. Copies : NewPid(kids, i) = <<i, n>>
  <2>. SUFFICES ASSUME NEW i \in Ids, Starts(i)
                PROVE  \E n \in 1 .. Copies : NewPid(kids, i) = <<i, n>>
    OBVIOUS
  <2>1. 1 \in Free(kids, i)
    BY <1>2, InitAssumption, PidOfEntry DEF Free, TableInv
  <2>2. (CHOOSE n \in Free(kids, i) : TRUE) \in Free(kids, i)
    BY <2>1
  <2>. QED
    BY <2>2 DEF NewPid, Free
<1>4. \A i \in Ids : \A j, n : <<j, n>> = NewPid(kids, i) => i = j
  BY DEF NewPid
<1>5. kids' \in [Pids -> {"none", "alive", "dead"}]
  BY <1>1 DEF TableInv
<1>6. /\ DOMAIN itab' = DOMAIN itab
      /\ itab' = [i \in DOMAIN itab' |-> itab'[i]]
  BY <1>1
<1>7. \A i \in DOMAIN itab' : itab'[i] \in [proc : Procs(i), cmd : Cmds]
  <2>. SUFFICES ASSUME NEW i \in DOMAIN itab
                PROVE  itab'[i] \in [proc : Procs(i), cmd : Cmds]
    BY <1>6
  <2>1. i \in Ids /\ itab[i] \in [proc : Procs(i), cmd : Cmds]
    BY DEF TableInv
  <2>2. CASE ~Starts(i)
    BY <1>1, <2>1, <2>2
  <2>3. CASE Starts(i)
    <3>1. NewPid(kids, i) \in Procs(i) /\ NOPROC \in Procs(i)
      BY <1>3, <2>1, <2>3 DEF Procs
    <3>2. NOCMD \in Cmds /\ itab[i].cmd \in Cmds
      BY <2>1 DEF NOCMD, Cmds
    <3>3. \E q \in Procs(i) : itab'[i] = Started(i, q)
      BY <1>1, <2>3, <3>1
    <3>. QED
      BY <3>2, <3>3 DEF Started
  <2>. QED
    BY <2>2, <2>3
<1>8. Tracked'
  <2>. SUFFICES ASSUME NEW j \in Ids, NEW n \in 1 .. Copies
                PROVE  kids'[<<j, n>>] # "none" <=>
                         j \in DOMAIN itab' /\ itab'[j].proc = <<j, n>>
    BY Zenon DEF Tracked
  <2>1. /\ <<j, n>> \in Pids /\ <<j, n>> # NOPROC
        /\ kids[<<j, n>>] # "none" <=> j \in DOMAIN itab /\ itab[j].proc = <<j, n>>
    BY PidOfEntry, Zenon DEF TableInv, Tracked
  <2>2. kids'[<<j, n>>] = IF Starts(j) /\ j \notin fails /\ <<j, n>> = NewPid(kids, j)
                          THEN "alive" ELSE kids[<<j, n>>]
    BY <1>1, <1>4, <2>1
  <2>3. CASE ~Starts(j)
    BY <1>1, <1>6, <2>1, <2>2, <2>3
  <2>4. CASE Starts(j)
    <3>1. j \in DOMAIN itab /\ kids[<<j, n>>] = "none"
      BY <1>2, <2>4
    <3>2. itab'[j].proc = IF j \in fails THEN NOPROC ELSE NewPid(kids, j)
      BY <1>1, <2>4, <3>1 DEF Started
    <3>. QED
      BY <1>6, <2>1, <2>2, <2>4, <3>1, <3>2
  <2>. QED
    BY <2>3, <2>4
<1>. QED
  BY <1>5, <1>6, <1>7, <1>8 DEF TableInv, invttys

\* waitttys(): the process that was waited for is struck from its entry.
LEMMA TableReap ==
    ASSUME TableInv, Reap
    PROVE  TableInv'
<1>1. PICK p \in Pids :
        /\ kids' = [kids EXCEPT ![p] = "none"]
        /\ itab' = [i \in DOMAIN itab |->
                     IF itab[i].proc = p THEN [itab[i] EXCEPT !.proc = NOPROC]
                                         ELSE itab[i]]
  BY DEF Reap
<1>2. /\ kids' \in [Pids -> {"none", "alive", "dead"}]
      /\ DOMAIN itab' = DOMAIN itab
      /\ itab' = [i \in DOMAIN itab' |-> itab'[i]]
  BY <1>1 DEF TableInv
<1>3. \A i \in DOMAIN itab' :
        /\ itab'[i] \in [proc : Procs(i), cmd : Cmds]
        /\ itab'[i].proc = IF itab[i].proc = p THEN NOPROC ELSE itab[i].proc
  <2>. SUFFICES ASSUME NEW i \in DOMAIN itab
                PROVE  /\ itab'[i] \in [proc : Procs(i), cmd : Cmds]
                       /\ itab'[i].proc = IF itab[i].proc = p THEN NOPROC ELSE itab[i].proc
    BY <1>2
  <2>1. itab[i] \in [proc : Procs(i), cmd : Cmds] /\ NOPROC \in Procs(i)
    BY DEF TableInv, Procs
  <2>. QED
    BY <1>1, <2>1
<1>4. Tracked'
  <2>. SUFFICES ASSUME NEW j \in Ids, NEW n \in 1 .. Copies
                PROVE  kids'[<<j, n>>] # "none" <=>
                         j \in DOMAIN itab' /\ itab'[j].proc = <<j, n>>
    BY Zenon DEF Tracked
  <2>1. /\ <<j, n>> \in Pids /\ <<j, n>> # NOPROC
        /\ kids[<<j, n>>] # "none" <=> j \in DOMAIN itab /\ itab[j].proc = <<j, n>>
    BY PidOfEntry, Zenon DEF TableInv, Tracked
  <2>2. kids'[<<j, n>>] = IF <<j, n>> = p THEN "none" ELSE kids[<<j, n>>]
    BY <1>1, <2>1 DEF TableInv
  <2>. QED
    BY <1>2, <1>3, <2>1, <2>2
<1>. QED
  BY <1>2, <1>3, <1>4 DEF TableInv, Reap

\* The line that readttys() is at
PosInv == pos \in Nat \ {0}

LEMMA PosStep == PosInv /\ [Next]_vars => PosInv'
<1>. SUFFICES ASSUME PosInv, [Next]_vars PROVE PosInv'
  OBVIOUS
<1>1. pos' \in {pos, pos + 1, 1}
  BY DEF PosInv, Next, Step, vars, Loop, Reread, Console, OpenTab, ReadLine, ReadEnd,
         Done, invttys, RunRc, RcTest, Reap, WaitFails, Err, ErrTest, rckill, Hangup,
         chst, Die
<1>. QED
  BY <1>1 DEF PosInv

LEMMA TableStep == TableInv /\ PosInv /\ [Next]_vars => TableInv'
<1>. SUFFICES ASSUME TableInv, PosInv, [Next]_vars PROVE TableInv'
  OBVIOUS
<1>1. CASE Loop \/ OpenTab \/ ReadEnd \/ Done \/ RcTest \/ WaitFails \/ ErrTest
  BY <1>1, TableQuiet DEF Loop, OpenTab, ReadEnd, Done, RcTest, WaitFails, ErrTest
<1>2. CASE Reread
  <2>1. itab' = [i \in DOMAIN itab |-> [itab[i] EXCEPT !.cmd = NOCMD]]
    BY <1>2 DEF Reread
  <2>2. \A i \in DOMAIN itab : /\ itab'[i] \in [proc : Procs(i), cmd : Cmds]
                                /\ itab'[i].proc = itab[i].proc
    BY <2>1 DEF TableInv, Cmds, NOCMD
  <2>3. Tracked'
    <3>1. DOMAIN itab' = DOMAIN itab /\ kids' = kids
      BY <1>2, <2>1 DEF Reread
    <3>. QED
      BY <2>2, <3>1, ZenonT(60) DEF TableInv, Tracked
  <2>. QED
    BY <1>2, <2>1, <2>2, <2>3 DEF TableInv, Reread
<1>3. CASE Console
  <2>1. CASE ~(state = 2 /\ lstate = 1)
    BY <1>3, <2>1, TableQuiet DEF Console
  <2>2. CASE state = 2 /\ lstate = 1
    <3>. DEFINE l == [state |-> 0, id |-> "co", flags |-> {"k", "o"}]
    <3>1. l \in [state : Nat, id : Ids, flags : SUBSET {"c", "o", "k", "t"}]
      BY InitAssumption
    <3>2. Line(l)
      BY <1>3, <2>2 DEF Console, Line
    <3>. QED
      BY <1>3, <3>1, <3>2, TableLine DEF Console
  <2>. QED
    BY <2>1, <2>2
<1>4. CASE ReadLine
  <2>1. CASE Inittab[pos].state = state
    <3>1. pos \in 1 .. Len(Inittab)
      BY <1>4, InitAssumption DEF ReadLine, PosInv
    <3>. DEFINE L == [state : Nat, id : Ids, flags : SUBSET {"c", "o", "k", "t"}]
    <3>2. Inittab \in Seq(L)
      BY InitAssumption
    <3>3. PICK l \in L : l = Inittab[pos]
      <4>. HIDE DEF L
      <4>. QED
        BY <3>1, <3>2
    <3>4. Line(l) /\ UNCHANGED <<rcid, shell>>
      BY <1>4, <2>1, <3>3, SMTT(60) DEF ReadLine, Line
    <3>. QED
      BY <3>4, TableLine
  <2>2. CASE Inittab[pos].state # state
    BY <1>4, <2>2, TableQuiet DEF ReadLine
  <2>. QED
    BY <2>1, <2>2
<1>5. CASE invttys
  BY <1>5, TableStarts
<1>6. CASE RunRc
  BY <1>6, TableQuiet, TableForked DEF RunRc
<1>7. CASE Reap
  BY <1>7, TableReap
<1>8. CASE Err
  BY <1>8, TableQuiet, TableForked DEF Err
<1>9. CASE rckill
  BY <1>9, TableKilled DEF rckill
<1>10. CASE Hangup \/ \E s \in States : chst(s)
  BY <1>10, TableQuiet DEF Hangup, chst
<1>11. CASE \E p \in Pids : Die(p)
  BY <1>11, TableKilled DEF Die
<1>12. CASE UNCHANGED vars
  BY <1>12, TableQuiet DEF vars
<1>. QED
  BY <1>1, <1>2, <1>3, <1>4, <1>5, <1>6, <1>7, <1>8, <1>9, <1>10, <1>11, <1>12
     DEF Next, Step

\* Tracked: for every inittab and any number of entries, requests, failing
\* forks and children that end at any step, invttys(), waitttys() and the
\* signal handlers keep in_proc and the children of process 1 in agreement.
THEOREM TrackedHolds == Spec => []Tracked
<1>1. TableInv => Tracked
  BY DEF TableInv
<1>2. Init => PosInv
  BY DEF Init, PosInv
<1>. QED
  BY <1>1, <1>2, TableInit, TableStep, PosStep, PTL DEF Spec

-----------------------------------------------------------------------------
(* The commands in the table are those of the present state.               *)

\* The stack: the routines of main at the bottom, those that they call above.
Base == {"loop", "rd", "open", "line", "done", "inv", "exited"}
Upper == {"rc", "wait", "intr", "rctest", "err", "errtest"}

Bottom(s) == s[Len(s)]

Shape(s) ==
    /\ s \in Seq(Base \cup Upper)
    /\ s # <<>>
    /\ \A k \in 1 .. Len(s) : s[k] \in Base <=> k = Len(s)

Current(t, st) == \A i \in DOMAIN t : t[i].cmd # NOCMD => t[i].cmd.state = st
Cleared(t) == \A i \in DOMAIN t : t[i].cmd = NOCMD

\* Whatever routine waits, the commands are of the present state if no change
\* is asked for; and while readttys() tries to open inittab, also under a
\* default shell, there are none, so that it may forget a request (rdstate = 0).
StateInv ==
    /\ Shape(stk)
    /\ ~rdstate /\ ~lost => Current(itab, state)
    /\ Bottom(stk) = "open" => Cleared(itab)

\* At a routine of main the stack is that routine alone.
LEMMA ShapeBase ==
    ASSUME NEW s, Shape(s), Head(s) \in Base
    PROVE  Len(s) = 1 /\ Tail(s) = << >> /\ Bottom(s) = Head(s)
<1>. DEFINE R == Base \cup Upper
<1>1. s \in Seq(R) /\ s # << >> /\ \A k \in 1 .. Len(s) : s[k] \in Base <=> k = Len(s)
  BY DEF Shape
<1>. HIDE DEF R
<1>2. Len(s) \in Nat \ {0} /\ s[1] = Head(s)
  BY <1>1
<1>3. Len(s) = 1
  BY <1>1, <1>2
<1>4. Tail(s) = << >>
  <2>1. Tail(s) \in Seq(R) /\ Len(Tail(s)) = 0
    BY <1>1, <1>3, HeadTailProperties
  <2>. QED
    BY <2>1, EmptySeq, Zenon
<1>. QED
  BY <1>2, <1>3, <1>4 DEF Bottom

LEMMA ShapeOne ==
    ASSUME NEW b \in Base
    PROVE  Shape(<<b>>) /\ Bottom(<<b>>) = b
  BY DEF Shape, Bottom, Base, Upper

LEMMA ShapeTwo ==
    ASSUME NEW u \in Upper, NEW b \in Base
    PROVE  Shape(<<u, b>>) /\ Bottom(<<u, b>>) = b
  BY DEF Shape, Bottom, Base, Upper

\* Above the bottom a step, a call and a return leave the bottom as it is.
LEMMA ShapeUpper ==
    ASSUME NEW s, Shape(s), Head(s) \in Upper, NEW u \in Upper, NEW v \in Upper
    PROVE  /\ Shape(<<u>> \o Tail(s)) /\ Bottom(<<u>> \o Tail(s)) = Bottom(s)
           /\ Shape(<<u, v>> \o Tail(s)) /\ Bottom(<<u, v>> \o Tail(s)) = Bottom(s)
           /\ Shape(Tail(s)) /\ Bottom(Tail(s)) = Bottom(s)
<1>1. Base \cap Upper = {}
  BY DEF Base, Upper
<1>. DEFINE R == Base \cup Upper
<1>0. /\ s \in Seq(R) /\ s # << >> /\ u \in R /\ v \in R
      /\ \A k \in 1 .. Len(s) : s[k] \in Base <=> k = Len(s)
  BY DEF Shape
<1>. HIDE DEF R
<1>2. Len(s) \in Nat /\ Len(s) > 1 /\ s[1] = Head(s)
  BY <1>0, <1>1
<1>3. /\ Tail(s) \in Seq(R) /\ Len(Tail(s)) = Len(s) - 1
      /\ \A k \in 1 .. Len(s) - 1 : Tail(s)[k] = s[k + 1]
  BY <1>0, <1>2, HeadTailProperties
<1>4. Shape(Tail(s)) /\ Bottom(Tail(s)) = Bottom(s)
  <2>. DEFINE r == Tail(s)
  <2>. HIDE DEF r
  <2>0. /\ r \in Seq(R) /\ Len(r) = Len(s) - 1
        /\ \A k \in 1 .. Len(s) - 1 : r[k] = s[k + 1]
    BY <1>3 DEF r
  <2>1. r # << >> /\ r[Len(r)] = s[Len(s)]
    BY <1>2, <2>0
  <2>2. \A k \in 1 .. Len(r) : r[k] \in Base <=> k = Len(r)
    BY <1>0, <1>2, <2>0
  <2>3. Shape(r) /\ Bottom(r) = Bottom(s)
    BY <2>0, <2>1, <2>2 DEF Shape, Bottom, R
  <2>. QED
    BY <2>3 DEF r
<1>5. Shape(<<u>> \o Tail(s)) /\ Bottom(<<u>> \o Tail(s)) = Bottom(s)
  <2>. DEFINE q == Tail(s)
              r == <<u>> \o q
  <2>. HIDE DEF q
  <2>0. q \in Seq(R) /\ Len(q) = Len(s) - 1 /\ \A k \in 1 .. Len(s) - 1 : q[k] = s[k + 1]
    BY <1>3 DEF q
  <2>1. r \in Seq(R) /\ Len(r) = Len(s) /\ r[1] = u
        /\ \A k \in 2 .. Len(s) : r[k] = s[k]
    BY <1>0, <1>2, <2>0
  <2>. HIDE DEF r
  <2>2. \A k \in 1 .. Len(r) : r[k] \in Base <=> k = Len(r)
    BY <1>0, <1>1, <1>2, <2>1
  <2>3. r # << >> /\ r[Len(r)] = s[Len(s)]
    BY <1>2, <2>1
  <2>4. Shape(r) /\ Bottom(r) = Bottom(s)
    BY <2>1, <2>2, <2>3 DEF Shape, Bottom, R
  <2>. QED
    BY <2>4 DEF q, r
<1>6. Shape(<<u, v>> \o Tail(s)) /\ Bottom(<<u, v>> \o Tail(s)) = Bottom(s)
  <2>. DEFINE q == Tail(s)
              r == <<u, v>> \o q
  <2>. HIDE DEF q
  <2>0. q \in Seq(R) /\ Len(q) = Len(s) - 1 /\ \A k \in 1 .. Len(s) - 1 : q[k] = s[k + 1]
    BY <1>3 DEF q
  <2>1. r \in Seq(R) /\ Len(r) = Len(s) + 1 /\ r[1] = u /\ r[2] = v
        /\ \A k \in 3 .. Len(s) + 1 : r[k] = s[k - 1]
    BY <1>0, <1>2, <2>0
  <2>. HIDE DEF r
  <2>2. \A k \in 1 .. Len(r) : r[k] \in Base <=> k = Len(r)
    BY <1>0, <1>1, <1>2, <2>1
  <2>3. r # << >> /\ r[Len(r)] = s[Len(s)]
    BY <1>2, <2>1
  <2>4. Shape(r) /\ Bottom(r) = Bottom(s)
    BY <2>1, <2>2, <2>3 DEF Shape, Bottom, R
  <2>. QED
    BY <2>4 DEF q, r
<1>. QED
  BY <1>4, <1>5, <1>6

\* A step that adds no command, and erases no request without noting it
LEMMA StateKeeps ==
    ASSUME StateInv, Shape(stk'),
           Bottom(stk') = Bottom(stk) \/ Bottom(stk') # "open",
           \A i \in DOMAIN itab' : \/ itab'[i].cmd = NOCMD
                                   \/ i \in DOMAIN itab /\ itab'[i].cmd = itab[i].cmd,
           ~rdstate' /\ ~lost' => ~rdstate /\ ~lost /\ state' = state
    PROVE  StateInv'
<1>1. ASSUME ~rdstate', ~lost' PROVE Current(itab', state')
  <2>1. Current(itab, state) /\ state' = state
    BY <1>1 DEF StateInv
  <2>. QED
    BY <2>1 DEF Current
<1>2. ASSUME Bottom(stk') = "open" PROVE Cleared(itab')
  BY <1>2 DEF StateInv, Cleared
<1>. QED
  BY <1>1, <1>2 DEF StateInv

\* The stack after a step of main, and after a step of what it calls
LEMMA StackMain ==
    ASSUME StateInv, Top \in Base
    PROVE  /\ \A b \in Base : Go(b) => Shape(stk') /\ Bottom(stk') = b
           /\ \A u \in Upper, b \in Base : Call(u, b) => Shape(stk') /\ Bottom(stk') = b
<1>1. Tail(stk) = << >>
  BY ShapeBase DEF StateInv, Top
<1>2. ASSUME NEW b \in Base, Go(b) PROVE Shape(stk') /\ Bottom(stk') = b
  <2>1. stk' = <<b>>
    BY <1>1, <1>2, <<b>> \in Seq({b}), ConcatEmptySeq, Zenon DEF Go
  <2>. QED
    BY <2>1, ShapeOne
<1>3. ASSUME NEW u \in Upper, NEW b \in Base, Call(u, b)
      PROVE  Shape(stk') /\ Bottom(stk') = b
  <2>1. stk' = <<u, b>>
    BY <1>1, <1>3, <<u, b>> \in Seq({u, b}), ConcatEmptySeq, Zenon DEF Call
  <2>. QED
    BY <2>1, ShapeTwo
<1>. QED
  BY <1>2, <1>3

LEMMA StackUpper ==
    ASSUME StateInv, Top \in Upper
    PROVE  /\ Return => Shape(stk') /\ Bottom(stk') = Bottom(stk)
           /\ \A u \in Upper, v \in Upper :
                Call(u, v) => Shape(stk') /\ Bottom(stk') = Bottom(stk)
           /\ \A u \in Upper :
                stk' = <<u>> \o Tail(stk) => Shape(stk') /\ Bottom(stk') = Bottom(stk)
<1>1. Shape(stk) /\ Head(stk) \in Upper
  BY DEF StateInv, Top
<1>2. "wait" \in Upper
  BY DEF Upper
<1>3. ASSUME Return PROVE Shape(stk') /\ Bottom(stk') = Bottom(stk)
  BY <1>1, <1>2, <1>3, ShapeUpper, Zenon DEF Return
<1>4. ASSUME NEW u \in Upper, NEW v \in Upper, Call(u, v)
      PROVE  Shape(stk') /\ Bottom(stk') = Bottom(stk)
  BY <1>1, <1>4, ShapeUpper, Zenon DEF Call
<1>5. ASSUME NEW u \in Upper, stk' = <<u>> \o Tail(stk)
      PROVE  Shape(stk') /\ Bottom(stk') = Bottom(stk)
  BY <1>1, <1>5, ShapeUpper, Zenon
<1>. QED
  BY <1>3, <1>4, <1>5

LEMMA StackInterrupted ==
    ASSUME StateInv, stk' = Interrupted
    PROVE  Shape(stk') /\ Bottom(stk') = Bottom(stk)
<1>1. CASE Top = "wait"
  <2>1. Top \in Upper /\ "intr" \in Upper
    BY <1>1 DEF Upper
  <2>2. stk' = <<"intr">> \o Tail(stk)
    BY <1>1 DEF Interrupted
  <2>. QED
    BY <2>1, <2>2, StackUpper
<1>2. CASE Top # "wait"
  BY <1>2 DEF Interrupted, StateInv
<1>. QED
  BY <1>1, <1>2

LEMMA StateInit == Init => StateInv
<1>. SUFFICES ASSUME Init PROVE StateInv
  OBVIOUS
<1>1. Shape(stk) /\ Bottom(stk) = "loop"
  BY ShapeOne DEF Init, Base
<1>. QED
  BY <1>1 DEF Init, StateInv

\* readttys() takes the lines of the present state.
LEMMA StateLine ==
    ASSUME TableInv, StateInv, NEW l \in [state : Nat, id : Ids, flags : SUBSET {"c", "o", "k", "t"}],
           l.state = state, Line(l), ~rdstate, ~lost, UNCHANGED state
    PROVE  Current(itab', state')
<1>. DEFINE t == lookid(itab, l.id)
            cmd == [state |-> l.state, once |-> "c" \notin l.flags]
<1>1. Current(t, state)
  BY DEF StateInv, Current, lookid, Unused
<1>2. l.id \in DOMAIN t /\ cmd.state = state
  BY DEF lookid
<1>3. \A i \in DOMAIN t : t[i] \in [proc : Procs(i), cmd : Cmds]
  BY DEF TableInv, lookid, Unused, Procs, Cmds, NOCMD
<1>4. itab' = t \/ \E c \in {cmd, NOCMD} : itab' = [t EXCEPT ![l.id].cmd = c]
  BY Zenon DEF Line
<1>. HIDE DEF t, cmd
<1>5. CASE itab' = t
  BY <1>1, <1>5
<1>6. ASSUME NEW c \in {cmd, NOCMD}, itab' = [t EXCEPT ![l.id].cmd = c]
      PROVE  Current(itab', state')
  <2>1. DOMAIN itab' = DOMAIN t
    BY <1>6
  <2>2. ASSUME NEW i \in DOMAIN t, itab'[i].cmd # NOCMD
        PROVE  itab'[i].cmd.state = state
    <3>1. CASE i = l.id
      <4>1. itab'[i].cmd = c
        BY <1>3, <1>6, <3>1
      <4>. QED
        BY <1>2, <1>6, <2>2, <4>1
    <3>2. CASE i # l.id
      <4>1. itab'[i] = t[i]
        BY <1>6, <3>2
      <4>. QED
        BY <1>1, <2>2, <4>1 DEF Current
    <3>. QED
      BY <3>1, <3>2
  <2>. QED
    BY <2>1, <2>2 DEF Current
<1>. QED
  BY <1>4, <1>5, <1>6

LEMMA StateStep == TableInv /\ PosInv /\ StateInv /\ [Next]_vars => StateInv'
<1>. SUFFICES ASSUME TableInv, PosInv, StateInv, [Next]_vars PROVE StateInv'
  OBVIOUS
<1>0. \A i \in DOMAIN itab : itab[i] \in [proc : Procs(i), cmd : Cmds]
  BY DEF TableInv
<1>1. CASE Loop \/ ReadEnd \/ Done
  <2>1. Shape(stk') /\ Bottom(stk') # "open"
    BY <1>1, StackMain DEF Loop, ReadEnd, Done, Base, Upper
  <2>. QED
    BY <1>1, <2>1, StateKeeps DEF Loop, ReadEnd, Done
<1>2. CASE Reread
  <2>1. Shape(stk') /\ Bottom(stk') = "open"
    BY <1>2, StackMain DEF Reread, Base
  <2>2. Cleared(itab')
    BY <1>0, <1>2 DEF Reread, Cleared
  <2>. QED
    BY <2>1, <2>2 DEF StateInv, Cleared, Current
<1>3. CASE Console
  <2>1. Shape(stk') /\ Bottom(stk') # "open"
    BY <1>3, StackMain DEF Console, Base
  <2>2. \A i \in DOMAIN itab' : \/ itab'[i].cmd = NOCMD
                                \/ i \in DOMAIN itab /\ itab'[i].cmd = itab[i].cmd
    BY <1>3 DEF Console, lookid, Unused
  <2>. QED
    BY <1>3, <2>1, <2>2, StateKeeps DEF Console
<1>4. CASE OpenTab
  <2>1. CASE Go("line")
    <3>1. Shape(stk') /\ Bottom(stk') = "line"
      BY <1>4, <2>1, StackMain DEF OpenTab, Base
    <3>2. Bottom(stk) = "open"
      BY <1>4, ShapeBase DEF OpenTab, StateInv, Top, Base
    <3>3. Cleared(itab')
      BY <1>4, <3>2 DEF OpenTab, StateInv
    <3>. QED
      BY <3>1, <3>3 DEF StateInv, Cleared, Current
  <2>2. CASE Call("err", "open") /\ UNCHANGED rdstate
    <3>1. Shape(stk') /\ Bottom(stk') = "open"
      BY <1>4, <2>2, StackMain DEF OpenTab, Base, Upper
    <3>2. Bottom(stk) = "open"
      BY <1>4, ShapeBase DEF OpenTab, StateInv, Top, Base
    <3>. QED
      BY <1>4, <2>2, <3>1, <3>2, StateKeeps DEF OpenTab
  <2>. QED
    BY <1>4, <2>1, <2>2 DEF OpenTab
<1>5. CASE ReadLine
  <2>1. CASE Inittab[pos].state = state
    <3>1. pos \in 1 .. Len(Inittab)
      BY <1>5, InitAssumption DEF ReadLine, PosInv
    <3>. DEFINE L == [state : Nat, id : Ids, flags : SUBSET {"c", "o", "k", "t"}]
    <3>2. Inittab \in Seq(L)
      BY InitAssumption
    <3>3. PICK l \in L : l = Inittab[pos]
      <4>. HIDE DEF L
      <4>. QED
        BY <3>1, <3>2
    <3>4. l.state = state /\ Line(l)
      BY <1>5, <2>1, <3>3, SMTT(60) DEF ReadLine, Line
    <3>5. ~rdstate' /\ ~lost' => Current(itab', state')
      BY <1>5, <3>4, StateLine DEF ReadLine
    <3>6. Bottom(stk) = "line" /\ stk' = stk
      BY <1>5, ShapeBase DEF ReadLine, StateInv, Top, Base
    <3>. QED
      BY <3>5, <3>6 DEF StateInv
  <2>2. CASE Inittab[pos].state # state
    BY <1>5, <2>2, StateKeeps DEF ReadLine, StateInv
  <2>. QED
    BY <2>1, <2>2
<1>6. CASE invttys
  <2>1. Shape(stk') /\ Bottom(stk') # "open"
    BY <1>6, StackMain DEF invttys, Base, Upper
  <2>2. \A i \in DOMAIN itab' : \/ itab'[i].cmd = NOCMD
                                \/ i \in DOMAIN itab /\ itab'[i].cmd = itab[i].cmd
    BY <1>6 DEF invttys, Started
  <2>. QED
    BY <1>6, <2>1, <2>2, StateKeeps DEF invttys
<1>7. CASE RunRc \/ RcTest \/ WaitFails \/ ErrTest
  <2>1. Shape(stk') /\ Bottom(stk') = Bottom(stk)
    <3>1. Top \in Upper
      BY <1>7 DEF RunRc, RcTest, WaitFails, ErrTest, Upper
    <3>2. \/ Return \/ stk' = stk
          \/ \E u \in Upper, v \in Upper : Call(u, v)
      BY <1>7 DEF RunRc, RcTest, WaitFails, ErrTest, Upper
    <3>. QED
      BY <3>1, <3>2, StackUpper DEF StateInv
  <2>. QED
    BY <1>7, <2>1, StateKeeps DEF RunRc, RcTest, WaitFails, ErrTest
<1>8. CASE Reap
  <2>1. Shape(stk') /\ Bottom(stk') = Bottom(stk)
    BY <1>8, StackUpper DEF Reap, Upper
  <2>2. PICK p \in Pids : itab' = [i \in DOMAIN itab |->
                     IF itab[i].proc = p THEN [itab[i] EXCEPT !.proc = NOPROC]
                                         ELSE itab[i]]
    BY <1>8 DEF Reap
  <2>3. \A i \in DOMAIN itab' : i \in DOMAIN itab /\ itab'[i].cmd = itab[i].cmd
    BY <1>0, <2>2
  <2>. QED
    BY <1>8, <2>1, <2>3, StateKeeps DEF Reap
<1>9. CASE Err
  <2>1. CASE stk' = <<"exited">> /\ UNCHANGED <<rdstate, lost>>
    <3>1. Shape(stk') /\ Bottom(stk') = "exited"
      BY <2>1, ShapeOne DEF Base
    <3>. QED
      BY <1>9, <2>1, <3>1, StateKeeps DEF Err
  <2>2. CASE Call("wait", "errtest") /\ rdstate' = FALSE /\ lost' = (lost \/ rdstate)
    <3>1. Shape(stk') /\ Bottom(stk') = Bottom(stk)
      BY <1>9, <2>2, StackUpper DEF Err, Upper
    <3>2. ~lost' => ~rdstate /\ ~lost
      BY <2>2, Zenon
    <3>3. UNCHANGED <<itab, state>>
      BY <1>9 DEF Err
    <3>. QED
      BY <3>1, <3>2, <3>3, StateKeeps
  <2>. QED
    BY <1>9, <2>1, <2>2 DEF Err
<1>10. CASE rckill \/ Hangup \/ \E s \in States : chst(s)
  <2>1. Shape(stk') /\ Bottom(stk') = Bottom(stk)
    BY <1>10, StackInterrupted DEF rckill, Hangup, chst
  <2>. QED
    BY <1>10, <2>1, StateKeeps DEF rckill, Hangup, chst
<1>11. CASE (\E p \in Pids : Die(p)) \/ UNCHANGED vars
  BY <1>11, StateKeeps DEF Die, vars, StateInv
<1>. QED
  BY <1>1, <1>2, <1>3, <1>4, <1>5, <1>6, <1>7, <1>8, <1>9, <1>10, <1>11 DEF Next, Step

\* TableOfState: for every inittab, whatever signals come while it is read
\* and whatever fails, when main goes on to start processes and no change is
\* asked for, the commands are those of the present state, unless err()
\* erased a request.
THEOREM TableOfStateHolds == Spec => []TableOfState
<1>1. StateInv => TableOfState
  BY DEF StateInv, TableOfState, Current
<1>2. Init => PosInv
  BY DEF Init, PosInv
<1>. QED
  BY <1>1, <1>2, TableInit, TableStep, PosStep, StateInit, StateStep, PTL DEF Spec
=============================================================================
