---------------------------- MODULE LinePrinter ----------------------------
(***************************************************************************)
(* The ZEUS line printer driver, sys/dev/lpr.c: the calls of the programs  *)
(* that share the open printer (the top half), the interrupt handler, the  *)
(* parallel port and the printer.  One port is modelled; the ports of a    *)
(* machine share nothing but the flag hpcpu, which moves their addresses.  *)
(*                                                                         *)
(* The kernel is not preemptive: a call runs until it returns or sleeps,   *)
(* and only the handler, whose steps come first, interrupts it.            *)
(***************************************************************************)
EXTENDS Integers, Sequences

CONSTANTS
    Programs,      \* processes that hold the descriptor of the printer
    Text,          \* characters they write
    Types,         \* printer types (minor device bits 2 and 3) they open
    Params,        \* arguments of ioctl(SETLPR)
    Hiwat, Lowat,  \* LPHIWAT and LPLOWAT
    Ind, Line, Col,\* the initial indentation, lines per page and columns
    Widest,        \* no page has more columns
    MaxChars,      \* bound: characters written altogether
    MaxOpens       \* bound: calls of open and of ioctl altogether

ASSUME PrinterAssumption ==
    /\ Hiwat \in Nat /\ Ind \in Int /\ Line \in Int /\ Col \in Nat
    /\ Widest \in Nat \ {0} /\ Col <= Widest
    /\ \A a \in Params : /\ a.indent \in Int /\ a.lines \in Int /\ a.cols \in Int
                         /\ a.cols <= Widest

VARIABLES
    port,      \* Port[port_no]: its type, its flags and its lpr_data
    outq,      \* l_outq
    pio,       \* the port's interrupt logic: enabled, request pending
    ready,     \* the printer asks for a character (LPBUSY or DDEMAND high)
    buffered,  \* the printer is busy only after the end of a line
    cpu,       \* the call that runs in the kernel
    proc,      \* where the programs are
    intr,      \* the interrupt handler
    head,      \* column at which the text queued so far leaves the print head
    smeared,   \* a form feed was left out in the middle of a line
    left       \* what remains of the bounds

vars == <<port, outq, pio, ready, buffered, cpu, proc, intr, head, smeared, left>>

Centron  == 0
Dataprod == 1
RawCent  == 2
RawDatap == 3
NLPT == 3
Unconfig == 65535

Raw(t) == t \in {RawCent, RawDatap}

Parity == "parity"               \* a character with bit 7 set
Terminators == {"nl", "cr", "ff"}

Idle == [who |-> "nobody", pc |-> "idle", c |-> "nul", todo |-> <<>>,
         flush |-> FALSE, ret |-> "idle"]

AtUser == [at |-> "user", c |-> "nul"]

Port == [type |-> Unconfig, open |-> FALSE, nocr |-> FALSE, aslp |-> FALSE,
         cyc_started |-> FALSE, ind |-> Ind, ccc |-> 0, mcc |-> 0, mlc |-> 0,
         line |-> Line, col |-> Col]

Init ==
    /\ port = Port
    /\ outq = <<>>
    /\ pio = [enabled |-> FALSE, pending |-> FALSE]
    /\ ready = TRUE
    /\ buffered \in BOOLEAN
    /\ cpu = Idle
    /\ proc = [p \in Programs |-> AtUser]
    /\ intr = "off"
    /\ head = 0
    /\ smeared = FALSE
    /\ left = [chars |-> MaxChars, opens |-> MaxOpens]

-----------------------------------------------------------------------------
(* lp_output: what it queues for a character, the line state it leaves     *)
(* behind, and whether it goes on to print.                                *)

Queue(p, out, flush) == [p |-> p, out |-> out, flush |-> flush]

Spaces(n) == [i \in 1 .. n |-> "sp"]

\* case FORM, which '\n' falls into, and the part of case '\r' after it
FormFeed(p, c, before) ==
    LET eject == IF c = "ff" /\ p.type = Centron THEN <<"cr">> ELSE <<>>
        end == [p EXCEPT !.mcc = 0, !.ccc = p.ind]
    IN  IF p.mlc # 0
        THEN Queue([end EXCEPT !.mlc = IF c = "ff" THEN 0 ELSE @],
                   before \o eject \o <<c>>, TRUE)
        ELSE Queue(end, before, TRUE)

NewLine(p) ==
    LET q == [p EXCEPT !.mlc = @ + 1]
    IN  IF q.line # 0 /\ q.mlc >= q.line
        THEN FormFeed(q, "ff", <<>>)
        ELSE FormFeed(q, "nl", IF q.type = Centron THEN <<"cr">> ELSE <<>>)

MutCharacterKeepsMcc(p, c) ==
    LET back == p.ccc < p.mcc
        pad == Spaces(IF p.ccc > p.mcc THEN p.ccc - p.mcc ELSE 0)
    IN  IF back /\ p.nocr
        THEN Queue([p EXCEPT !.ccc = @ + 1], <<>>, FALSE)
        ELSE Queue([p EXCEPT !.mcc = @ + Len(pad) + 1, !.ccc = @ + 1],
                   (IF back THEN <<"cr">> ELSE <<>>) \o pad \o <<c>>, FALSE)

\* default: a character at or after the print head, or before it
Character(p, c) ==
    LET back == p.ccc < p.mcc
        q == IF back THEN [p EXCEPT !.mcc = 0] ELSE p
        pad == Spaces(IF q.ccc > q.mcc THEN q.ccc - q.mcc ELSE 0)
    IN  IF back /\ p.nocr
        THEN Queue([p EXCEPT !.ccc = @ + 1], <<>>, FALSE)
        ELSE IF q.ccc < q.col
        THEN Queue([q EXCEPT !.mcc = @ + Len(pad) + 1, !.ccc = @ + 1],
                   (IF back THEN <<"cr">> ELSE <<>>) \o pad \o <<c>>, FALSE)
        ELSE Queue([q EXCEPT !.ccc = @ + 1],
                   IF back THEN <<"cr">> ELSE <<>>, FALSE)

lp_output(p, c) ==
    CASE Raw(p.type) ->
            Queue([p EXCEPT !.mcc = @ + 1, !.ccc = @ + 1], <<c>>, FALSE)
      [] OTHER ->
            CASE c = "tab" -> Queue([p EXCEPT
                     !.ccc = ((@ + 8 - p.ind) \div 8) * 8 + p.ind], <<>>, FALSE)
              [] c = "nl" -> NewLine(p)
              [] c = "ff" -> FormFeed(p, "ff", <<>>)
              [] c = "cr" -> Queue([p EXCEPT !.ccc = p.ind, !.mcc = 0],
                                   <<"cr">>, TRUE)
              [] c = "bs" -> Queue([p EXCEPT
                     !.ccc = IF @ > p.ind THEN @ - 1 ELSE @], <<>>, FALSE)
              [] c = "sp" -> Queue([p EXCEPT !.ccc = @ + 1], <<>>, FALSE)
              [] OTHER -> Character(p, c)

-----------------------------------------------------------------------------
(* The parallel port.  A request is made when the printer's line goes high *)
(* while the port is enabled, or when bit 3 is lowered and raised while    *)
(* that line is high; an edge that finds the port disabled is lost.        *)

Disabled == [pio EXCEPT !.enabled = FALSE]
Enabled == [pio EXCEPT !.enabled = TRUE]
Pulsed(q) == [q EXCEPT !.pending = @ \/ (q.enabled /\ ready)]

Deliverable == pio.enabled /\ pio.pending /\ intr = "off"

\* The printer takes one character.
Busy(c) == IF buffered THEN {c \notin Terminators} ELSE BOOLEAN

\* One round of the loop of printc: send a character, or return.
Sends == ready /\ outq # <<>>

SendOne ==
    /\ Sends
    /\ port' = [port EXCEPT !.cyc_started = @ \/ Head(outq) \in Terminators]
    /\ outq' = Tail(outq)
    /\ ready' \in Busy(Head(outq))

\* The printer becomes ready.
Ready ==
    /\ ~ready
    /\ ready' = TRUE
    /\ pio' = [pio EXCEPT !.pending = @ \/ pio.enabled]
    /\ UNCHANGED <<port, outq, buffered, cpu, proc, intr, head, smeared, left>>

-----------------------------------------------------------------------------
(* The top half.  cpu.pc is the next step of the call that runs.           *)

Running(pc) == cpu.pc = pc /\ intr = "off" /\ ~Deliverable

Go(pc) == [cpu EXCEPT !.pc = pc]

\* Call lp_output for a character and go on at ret afterwards.
Output(who, p, c, ret) ==
    LET o == lp_output(p, c)
    IN  /\ port' = o.p
        /\ cpu' = [who |-> who, pc |-> "put", c |-> c, todo |-> o.out,
                   flush |-> o.flush, ret |-> ret]
        /\ smeared' = (smeared \/ (/\ ~Raw(p.type) /\ c = "ff"
                                   /\ p.mlc = 0 /\ p.mcc > 0))

Return(ret) ==
    /\ cpu' = IF ret = "next" THEN Go("next") ELSE Idle
    /\ port' = IF ret = "closed"
               THEN [port EXCEPT !.open = FALSE, !.nocr = FALSE, !.aslp = FALSE]
               ELSE port

lpr_init(t) == [port EXCEPT !.type = t]

\* A port number or a type that does not exist is refused before anything
\* changes; so is an unconfigured port whose unused minor bits are set.
lp_open(p, t, nocr) ==
    LET new == port.type = Unconfig
        bad == new /\ (t >= NLPT \/ nocr)
        q == IF new THEN lpr_init(t) ELSE port
        opened == [q EXCEPT !.open = TRUE, !.nocr = nocr, !.aslp = FALSE]
    IN  /\ Running("idle")
        /\ left.opens > 0
        /\ left' = [left EXCEPT !.opens = @ - 1]
        /\ pio' = IF new /\ ~bad THEN Enabled ELSE pio
        /\ IF bad \/ q.open \/ q.nocr \/ q.aslp \/ ~ready
           THEN /\ port' = IF bad THEN port ELSE q
                /\ UNCHANGED <<cpu, smeared>>
           ELSE IF Raw(q.type)
           THEN port' = opened /\ UNCHANGED <<cpu, smeared>>
           ELSE Output(p, opened, "ff", "opened")
        /\ UNCHANGED <<outq, ready, buffered, proc, intr, head>>

\* The last descriptor is closed.
lp_close(p) ==
    /\ Running("idle")
    /\ port.open
    /\ \A q \in Programs : proc[q].at = "user"
    /\ IF Raw(port.type)
       THEN Return("closed") /\ UNCHANGED smeared
       ELSE Output(p, port, "ff", "closed")
    /\ UNCHANGED <<outq, pio, ready, buffered, proc, intr, head, left>>

lp_sgtty(a) ==
    /\ Running("idle")
    /\ port.open
    /\ left.opens > 0
    /\ left' = [left EXCEPT !.opens = @ - 1]
    /\ port' = IF a.cols < 1 \/ a.lines < 0 \/ a.cols < a.indent
               THEN port
               ELSE [port EXCEPT !.ind = a.indent, !.line = a.lines, !.col = a.cols]
    /\ UNCHANGED <<outq, pio, ready, buffered, cpu, proc, intr, head, smeared>>

\* write(): the call begins.
lp_write(p) ==
    /\ Running("idle")
    /\ port.open
    /\ proc[p].at = "user"
    /\ left.chars > 0
    /\ cpu' = [Idle EXCEPT !.who = p, !.pc = "next"]
    /\ UNCHANGED <<port, outq, pio, ready, buffered, proc, intr, head, smeared, left>>

\* The next character of the caller.
WriteNext ==
    /\ Running("next")
    /\ left.chars > 0
    /\ left' = [left EXCEPT !.chars = @ - 1]
    /\ pio' = Disabled
    /\ \E c \in Text : cpu' = [Go("test") EXCEPT !.c = c]
    /\ UNCHANGED <<port, outq, ready, buffered, proc, intr, head, smeared>>

\* No more characters, or the loop was left: print and return.
WriteEnd ==
    /\ Running("next") \/ Running("quit")
    /\ pio' = Disabled
    /\ cpu' = [Go("printc") EXCEPT !.ret = "idle"]
    /\ UNCHANGED <<port, outq, ready, buffered, proc, intr, head, smeared, left>>

MutWriteTestNoWait ==
    /\ Running("test")
    /\ pio' = Enabled
    /\ IF cpu.c = Parity /\ ~Raw(port.type)
       THEN cpu' = Go("quit") /\ UNCHANGED <<port, smeared>>
       ELSE Output(cpu.who, port, cpu.c, "next")
    /\ UNCHANGED <<outq, ready, buffered, proc, intr, head, left>>

\* The queue has room, or the caller must wait.
WriteTest ==
    /\ Running("test")
    /\ \/ /\ Len(outq) > Hiwat
          /\ cpu' = Go("crowded")
          /\ UNCHANGED <<port, pio, smeared>>
       \/ /\ Len(outq) <= Hiwat
          /\ pio' = Enabled
          /\ IF cpu.c = Parity /\ ~Raw(port.type)
             THEN cpu' = Go("quit") /\ UNCHANGED <<port, smeared>>
             ELSE Output(cpu.who, port, cpu.c, "next")
    /\ UNCHANGED <<outq, ready, buffered, proc, intr, head, left>>

\* After printc, whatever the queue now holds: ask for an interrupt and sleep.
WriteSleep ==
    /\ Running("sleep")
    /\ port' = [port EXCEPT !.aslp = TRUE]
    /\ pio' = Pulsed(Enabled)
    /\ proc' = [proc EXCEPT ![cpu.who] = [at |-> "asleep", c |-> cpu.c]]
    /\ cpu' = Idle
    /\ UNCHANGED <<outq, ready, buffered, intr, head, smeared, left>>

\* A program that was woken runs again.  A request that is pending when the
\* port is disabled may be kept or dropped.
Resume(p) ==
    /\ cpu = Idle
    /\ intr = "off"
    /\ proc[p].at = "awake"
    /\ \E keep \in BOOLEAN :
          pio' = [enabled |-> FALSE, pending |-> keep /\ pio.pending]
    /\ cpu' = [Idle EXCEPT !.who = p, !.pc = "test", !.c = proc[p].c]
    /\ proc' = [proc EXCEPT ![p] = AtUser]
    /\ UNCHANGED <<port, outq, ready, buffered, intr, head, smeared, left>>

\* A signal ends the sleep and the call.
Signal(p) ==
    /\ cpu = Idle
    /\ proc[p].at = "asleep"
    /\ proc' = [proc EXCEPT ![p] = AtUser]
    /\ UNCHANGED <<port, outq, pio, ready, buffered, cpu, intr, head, smeared, left>>

\* putc of one of the characters lp_output queues
Put ==
    /\ Running("put")
    /\ cpu.todo # <<>>
    /\ LET c == Head(cpu.todo) IN
       /\ outq' = Append(outq, c)
       /\ head' = IF c \in Terminators THEN 0 ELSE head + 1
       /\ smeared' = (smeared /\ c \notin Terminators)
    /\ cpu' = [cpu EXCEPT !.todo = Tail(@)]
    /\ UNCHANGED <<port, pio, ready, buffered, proc, intr, left>>

\* lp_output returns, or prints first.
PutEnd ==
    /\ Running("put")
    /\ cpu.todo = <<>>
    /\ \/ cpu.flush /\ pio' = Disabled /\ cpu' = Go("printc") /\ UNCHANGED port
       \/ ~cpu.flush /\ Return(cpu.ret) /\ UNCHANGED pio
    /\ UNCHANGED <<outq, ready, buffered, proc, intr, head, smeared, left>>

\* printc, called by the top half
Printc ==
    /\ Running("printc") \/ Running("crowded")
    /\ SendOne
    /\ UNCHANGED <<pio, buffered, cpu, proc, intr, head, smeared, left>>

\* The printer is busy or the queue is empty when printc looks.
PrintcEnd ==
    /\ ~Sends
    /\ \/ Running("printc") /\ cpu' = Go("enable")
       \/ Running("crowded") /\ cpu' = Go("sleep")
    /\ UNCHANGED <<port, outq, pio, ready, buffered, proc, intr, head, smeared, left>>

Enable ==
    /\ Running("enable")
    /\ pio' = Enabled
    /\ cpu' = Go("pulse")
    /\ UNCHANGED <<port, outq, ready, buffered, proc, intr, head, smeared, left>>

MutNoPulse ==
    /\ Running("pulse")
    /\ Return(cpu.ret)
    /\ UNCHANGED <<outq, pio, ready, buffered, proc, intr, head, smeared, left>>

\* Lower and raise bit 3, which catches the edge that came too early.
Pulse ==
    /\ Running("pulse")
    /\ pio' = Pulsed(pio)
    /\ Return(cpu.ret)
    /\ UNCHANGED <<outq, ready, buffered, proc, intr, head, smeared, left>>

-----------------------------------------------------------------------------
(* The interrupt handler, lpr_int.                                         *)

\* Interrupts of the port are disabled, of others enabled.
Interrupt ==
    /\ Deliverable
    /\ intr' = "printc"
    /\ pio' = [enabled |-> FALSE, pending |-> FALSE]
    /\ port' = [port EXCEPT !.cyc_started = FALSE]
    /\ UNCHANGED <<outq, ready, buffered, cpu, proc, head, smeared, left>>

IntPrintc ==
    /\ intr = "printc"
    /\ \/ SendOne /\ UNCHANGED intr
       \/ ~Sends /\ intr' = "end" /\ UNCHANGED <<port, outq, ready>>
    /\ UNCHANGED <<pio, buffered, cpu, proc, head, smeared, left>>

IntEnd ==
    /\ intr = "end"
    /\ LET wake == Len(outq) <= Lowat /\ port.aslp
       IN  /\ port' = [port EXCEPT !.aslp = @ /\ ~wake]
           /\ proc' = IF wake
                      THEN [p \in Programs |-> IF proc[p].at = "asleep"
                               THEN [proc[p] EXCEPT !.at = "awake"] ELSE proc[p]]
                      ELSE proc
    /\ pio' = IF port.cyc_started THEN Pulsed(Enabled) ELSE Enabled
    /\ intr' = "off"
    /\ UNCHANGED <<outq, ready, buffered, cpu, head, smeared, left>>

-----------------------------------------------------------------------------
Kernel ==
    \/ WriteNext \/ WriteEnd \/ WriteTest \/ WriteSleep \/ Put \/ PutEnd
    \/ Printc \/ PrintcEnd \/ Enable \/ Pulse

Handler == Interrupt \/ IntPrintc \/ IntEnd

Next ==
    \/ \E p \in Programs, t \in Types, nocr \in BOOLEAN : lp_open(p, t, nocr)
    \/ \E p \in Programs : lp_close(p) \/ lp_write(p) \/ Resume(p) \/ Signal(p)
    \/ \E a \in Params : lp_sgtty(a)
    \/ Kernel \/ Handler \/ Ready

Spec == Init /\ [][Next]_vars

FairSpec ==
    /\ Spec
    /\ WF_vars(Kernel) /\ WF_vars(Handler) /\ WF_vars(Ready)
    /\ \A p \in Programs : WF_vars(Resume(p))

-----------------------------------------------------------------------------
(* Properties.                                                             *)

\* The driver's idea of the print head (mcc) is where the characters queued so
\* far leave it, through tabs, backspaces, overstrikes, indentation and page
\* ends; a form feed that the driver drops in the middle of a line apart.
HeadKnown ==
    cpu.pc # "put" /\ ~Raw(port.type) /\ ~smeared => head = port.mcc

\* A writer that finds the queue above the high-water mark waits: the queue
\* never holds more than the mark, one padded line and three characters that
\* move the head, however many programs write, although open and close queue
\* a form feed without looking at the mark.
QueueBound == Len(outq) <= Hiwat + Widest + 3

\* Every program that sleeps until the queue is short is woken, and what is
\* queued is printed, although the interrupt may have come while the port was
\* disabled; for a printer that is busy only after the end of a line.
Served ==
    /\ \A p \in Programs :
          (buffered /\ proc[p].at = "asleep") ~> (proc[p].at # "asleep")
    /\ (buffered /\ outq # <<>>) ~> (outq = <<>>)
=============================================================================
