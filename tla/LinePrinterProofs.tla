------------------------- MODULE LinePrinterProofs -------------------------
(***************************************************************************)
(* For every high-water mark, page and number of programs, the printer's   *)
(* queue is bounded, and the driver knows where the print head will be.    *)
(***************************************************************************)
EXTENDS LinePrinter, SequenceTheorems, TLAPS

-----------------------------------------------------------------------------
(* The inductive invariant.  What is queued and what lp_output has yet to  *)
(* queue fit under the mark and one line with a carriage return.  After a  *)
(* form feed there may be two more: open and close queue nothing else, and *)
(* a second form feed on the same page is left out.                        *)

PortType ==
    [type : Types \cup {Unconfig}, open : BOOLEAN, nocr : BOOLEAN,
     aslp : BOOLEAN, cyc_started : BOOLEAN, ind : Int, ccc : Int, mcc : Nat,
     mlc : Nat, line : Int, col : Int]

Char == Text \cup {"nul", "sp", "cr", "nl", "ff"}

CpuType ==
    [who : Programs \cup {"nobody"},
     pc : {"idle", "next", "test", "quit", "crowded", "sleep", "put", "printc",
           "enable", "pulse"},
     c : Char, todo : Seq(Char), flush : BOOLEAN,
     ret : {"idle", "next", "opened", "closed"}]

QueueTypeOK ==
    /\ port \in PortType
    /\ port.col <= Widest
    /\ cpu \in CpuType
    /\ proc \in [Programs -> [at : {"user", "asleep", "awake"}, c : Char]]
    /\ outq \in Seq(Char)

Slack(p) == IF p.mlc = 0 THEN 2 ELSE 0

QueueInv ==
    /\ QueueTypeOK
    /\ cpu.pc # "put" => cpu.todo = <<>>
    /\ Len(outq) + Len(cpu.todo) <= Hiwat + Widest + 1 + Slack(port)

-----------------------------------------------------------------------------
(* What lp_output queues.                                                  *)

\* Padding is as long as it is asked to be.
LEMMA SpacesLen ==
    ASSUME NEW n \in Nat
    PROVE  Spaces(n) \in Seq(Char) /\ Len(Spaces(n)) = n
<1>1. Spaces(n) \in [1 .. n -> Char]
  BY DEF Spaces, Char
<1>2. Spaces(n) \in Seq(Char)
  BY <1>1, SeqDef
<1>3. DOMAIN Spaces(n) = 1 .. n
  BY <1>1
<1>4. DOMAIN Spaces(n) = 1 .. Len(Spaces(n)) /\ Len(Spaces(n)) \in Nat
  BY <1>2, LenProperties
<1>. QED
  BY <1>2, <1>3, <1>4

\* Sequences of one and two characters.
LEMMA Short ==
    /\ {"nul", "sp", "cr", "nl", "ff"} \subseteq Char
    /\ \A c \in Char : <<c>> \in Seq(Char) /\ Len(<<c>>) = 1
    /\ <<>> \in Seq(Char) /\ Len(<<>>) = 0
  BY DEF Char

\* What a call of lp_output makes of the line state, and how much it queues.
Fits(o, p, n) ==
    /\ o.p \in PortType /\ o.p.col = p.col
    /\ o.out \in Seq(Char) /\ Len(o.out) <= n

\* A form feed or the end of a line: at most two characters, none for a form
\* feed on a page that has no line yet.
LEMMA FormFeedBound ==
    ASSUME NEW p \in PortType, NEW c \in {"nl", "ff"},
           NEW before \in Seq(Char), Len(before) <= 1, c = "ff" => Len(before) = 0
    PROVE  /\ Fits(FormFeed(p, c, before), p, 2)
           /\ c = "ff" => /\ FormFeed(p, c, before).p.mlc = 0
                          /\ p.mlc = 0 => Len(FormFeed(p, c, before).out) = 0
<1>. DEFINE eject == IF c = "ff" /\ p.type = Centron THEN <<"cr">> ELSE <<>>
            end == [p EXCEPT !.mcc = 0, !.ccc = p.ind]
            last == [end EXCEPT !.mlc = IF c = "ff" THEN 0 ELSE @]
            out == before \o eject \o <<c>>
<1>1. /\ end \in PortType /\ end.col = p.col /\ end.mlc = p.mlc
      /\ last \in PortType /\ last.col = p.col /\ (c = "ff" => last.mlc = 0)
  BY DEF PortType
<1>2. out \in Seq(Char) /\ Len(out) <= 2
  <2>1. <<c>> \in Seq(Char) /\ Len(<<c>>) = 1
    BY Short
  <2>2. eject \in Seq(Char) /\ Len(before) + Len(eject) <= 1
    <3>1. CASE eject = <<>>
      BY <3>1, Short, LenProperties
    <3>2. CASE c = "ff" /\ eject = <<"cr">>
      BY <3>2, Short, LenProperties
    <3>. QED
      BY <3>1, <3>2
  <2>. HIDE DEF eject
  <2>3. before \o eject \in Seq(Char) /\ Len(before \o eject) = Len(before) + Len(eject)
    BY <2>2, ConcatProperties
  <2>. QED
    BY <2>1, <2>2, <2>3, ConcatProperties
<1>. HIDE DEF end, last, eject, out
<1>3. CASE p.mlc # 0
  <2>1. FormFeed(p, c, before) = Queue(last, out, TRUE)
    BY <1>3, <1>1 DEF FormFeed, end, last, eject, out
  <2>2. /\ Fits(Queue(last, out, TRUE), p, 2)
        /\ Queue(last, out, TRUE).p = last
    BY <1>1, <1>2 DEF Queue, Fits
  <2>. QED
    BY <2>1, <2>2, <1>1, <1>3
<1>4. CASE p.mlc = 0
  <2>1. FormFeed(p, c, before) = Queue(end, before, TRUE)
    BY <1>4 DEF FormFeed, end
  <2>2. Len(before) \in Nat /\ Len(before) <= 2
    BY LenProperties
  <2>3. /\ Fits(Queue(end, before, TRUE), p, 2)
        /\ Queue(end, before, TRUE).p = end
        /\ Queue(end, before, TRUE).out = before
    BY <1>1, <2>2 DEF Queue, Fits
  <2>. QED
    BY <2>1, <2>3, <1>1, <1>4
<1>. QED
  BY <1>3, <1>4 DEF PortType

\* The print head and the column move; the page stays.
LEMMA HeadMoves ==
    ASSUME NEW p \in PortType, NEW m \in Nat, NEW n \in Int
    PROVE  /\ [p EXCEPT !.mcc = m, !.ccc = n] \in PortType
           /\ [p EXCEPT !.mcc = m, !.ccc = n].col = p.col
           /\ [p EXCEPT !.ccc = n] \in PortType
           /\ [p EXCEPT !.ccc = n].col = p.col
  BY DEF PortType

\* A newline is at most two characters.
LEMMA NewLineBound ==
    ASSUME NEW p \in PortType
    PROVE  Fits(NewLine(p), p, 2)
<1>. DEFINE q == [p EXCEPT !.mlc = @ + 1]
            cr == IF q.type = Centron THEN <<"cr">> ELSE <<>>
            none == <<>>
<1>1. q \in PortType /\ q.col = p.col
  BY DEF PortType
<1>2. cr \in Seq(Char) /\ Len(cr) <= 1
  BY Short
<1>3. none \in Seq(Char) /\ Len(none) = 0 /\ Len(none) <= 1
  BY Short
<1>4. NewLine(p) \in {FormFeed(q, "ff", none), FormFeed(q, "nl", cr)}
  BY DEF NewLine
<1>. HIDE DEF q, cr, none
<1>5. Fits(FormFeed(q, "ff", none), q, 2)
  BY <1>1, <1>3, FormFeedBound, Zenon
<1>6. Fits(FormFeed(q, "nl", cr), q, 2)
  BY <1>1, <1>2, FormFeedBound
<1>. QED
  BY <1>1, <1>4, <1>5, <1>6 DEF Fits

\* A character that is printed brings at most a carriage return and the
\* padding up to its column, which is on the page.
LEMMA CharacterBound ==
    ASSUME NEW p \in PortType, NEW c \in Char, p.col <= Widest
    PROVE  Fits(Character(p, c), p, Widest + 1)
<1>. DEFINE back == p.ccc < p.mcc
            q == IF back THEN [p EXCEPT !.mcc = 0] ELSE p
            n == IF q.ccc > q.mcc THEN q.ccc - q.mcc ELSE 0
            pad == Spaces(n)
            cr == IF back THEN <<"cr">> ELSE <<>>
            all == cr \o pad \o <<c>>
<1>1. q \in PortType /\ q.col = p.col /\ q.ccc = p.ccc
  BY DEF PortType
<1>2. n \in Nat /\ (q.ccc < q.col => n + 1 <= Widest)
  BY <1>1, PrinterAssumption DEF PortType
<1>3. cr \in Seq(Char) /\ Len(cr) <= 1 /\ Len(cr) \in Nat
  BY Short
<1>4. pad \in Seq(Char) /\ Len(pad) = n
  BY <1>2, SpacesLen
<1>5. <<c>> \in Seq(Char) /\ Len(<<c>>) = 1
  BY Short
<1>. HIDE DEF q, n, pad, cr
<1>6. all \in Seq(Char) /\ Len(all) = Len(cr) + n + 1
  BY <1>2, <1>3, <1>4, <1>5, ConcatProperties
<1>7. CASE back /\ p.nocr
  <2>. DEFINE r == [p EXCEPT !.ccc = @ + 1]
  <2>1. Character(p, c) = Queue(r, <<>>, FALSE)
    BY <1>7 DEF Character
  <2>2. r \in PortType /\ r.col = p.col
    BY DEF PortType
  <2>. HIDE DEF r
  <2>. QED
    BY <2>1, <2>2, Short, PrinterAssumption DEF Queue, Fits
<1>8. CASE ~(back /\ p.nocr) /\ q.ccc < q.col
  <2>. DEFINE r == [q EXCEPT !.mcc = @ + Len(pad) + 1, !.ccc = @ + 1]
  <2>1. Character(p, c) = Queue(r, all, FALSE)
    BY <1>8 DEF Character, q, n, pad, cr
  <2>2. r \in PortType /\ r.col = p.col
    <3>1. q.mcc + Len(pad) + 1 \in Nat /\ q.ccc + 1 \in Int
      BY <1>1, <1>2, <1>4, SMTT(60) DEF PortType
    <3>. QED
      BY <1>1, <3>1, HeadMoves
  <2>3. Len(all) <= Widest + 1
    BY <1>2, <1>3, <1>6, <1>8, PrinterAssumption
  <2>. HIDE DEF r, all
  <2>. QED
    BY <2>1, <2>2, <2>3, <1>6 DEF Queue, Fits
<1>9. CASE ~(back /\ p.nocr) /\ ~(q.ccc < q.col)
  <2>. DEFINE r == [q EXCEPT !.ccc = @ + 1]
  <2>1. Character(p, c) = Queue(r, cr, FALSE)
    BY <1>9 DEF Character, q, cr
  <2>2. r \in PortType /\ r.col = p.col
    BY <1>1 DEF PortType
  <2>3. Len(cr) <= Widest + 1
    BY <1>3, PrinterAssumption
  <2>. HIDE DEF r
  <2>. QED
    BY <2>1, <2>2, <2>3, <1>3 DEF Queue, Fits
<1>. QED
  BY <1>7, <1>8, <1>9

\* What lp_output returns besides is whether it prints.
LEMMA OutputFlush ==
    ASSUME NEW p, NEW c
    PROVE  lp_output(p, c).flush \in BOOLEAN
  BY Zenon DEF lp_output, NewLine, FormFeed, Character, Queue

\* lp_output queues at most a line and a carriage return.
LEMMA OutputBound ==
    ASSUME NEW p \in PortType, NEW c \in Char, p.col <= Widest
    PROVE  Fits(lp_output(p, c), p, Widest + 1)
<1>1. CASE Raw(p.type)
  <2>. DEFINE r == [p EXCEPT !.mcc = @ + 1, !.ccc = @ + 1]
  <2>1. lp_output(p, c) = Queue(r, <<c>>, FALSE)
    BY <1>1 DEF lp_output
  <2>2. r \in PortType /\ r.col = p.col
    <3>1. p.mcc + 1 \in Nat /\ p.ccc + 1 \in Int
      BY DEF PortType
    <3>. QED
      BY <3>1, HeadMoves
  <2>. HIDE DEF r
  <2>. QED
    BY <2>1, <2>2, Short, PrinterAssumption DEF Queue, Fits
<1>2. CASE ~Raw(p.type) /\ c \in {"tab", "bs", "sp"}
  <2>1. PICK n \in Int : lp_output(p, c) = Queue([p EXCEPT !.ccc = n], <<>>, FALSE)
    <3>1. /\ ((p.ccc + 8 - p.ind) \div 8) * 8 + p.ind \in Int
          /\ (IF p.ccc > p.ind THEN p.ccc - 1 ELSE p.ccc) \in Int
          /\ p.ccc + 1 \in Int
      BY DEF PortType
    <3>2. CASE c = "tab"
      BY <1>2, <3>1, <3>2 DEF lp_output
    <3>3. CASE c = "bs"
      BY <1>2, <3>1, <3>3 DEF lp_output
    <3>4. CASE c = "sp"
      BY <1>2, <3>1, <3>4 DEF lp_output
    <3>. QED
      BY <1>2, <3>2, <3>3, <3>4
  <2>. DEFINE r == [p EXCEPT !.ccc = n]
  <2>2. r \in PortType /\ r.col = p.col
    BY DEF PortType
  <2>. HIDE DEF r
  <2>3. lp_output(p, c) = Queue(r, <<>>, FALSE)
    BY <2>1 DEF r
  <2>. QED
    BY <2>2, <2>3, Short, PrinterAssumption DEF Queue, Fits
<1>3. CASE ~Raw(p.type) /\ c = "nl"
  BY <1>3, NewLineBound, PrinterAssumption DEF lp_output, Fits
<1>4. CASE ~Raw(p.type) /\ c = "ff"
  <2>. DEFINE none == <<>>
  <2>1. lp_output(p, c) = FormFeed(p, "ff", none)
    BY <1>4 DEF lp_output
  <2>2. none \in Seq(Char) /\ Len(none) = 0 /\ Len(none) <= 1
    BY Short
  <2>. HIDE DEF none
  <2>3. Fits(FormFeed(p, "ff", none), p, 2)
    BY <2>2, FormFeedBound, Zenon
  <2>. QED
    BY <2>1, <2>3, PrinterAssumption DEF Fits
<1>5. CASE ~Raw(p.type) /\ c = "cr"
  <2>. DEFINE r == [p EXCEPT !.ccc = p.ind, !.mcc = 0]
  <2>1. lp_output(p, c) = Queue(r, <<"cr">>, TRUE)
    BY <1>5 DEF lp_output
  <2>2. r \in PortType /\ r.col = p.col
    BY DEF PortType
  <2>. HIDE DEF r
  <2>. QED
    BY <2>1, <2>2, Short, PrinterAssumption DEF Queue, Fits
<1>6. CASE ~Raw(p.type) /\ c \notin {"tab", "nl", "ff", "cr", "bs", "sp"}
  BY <1>6, CharacterBound DEF lp_output
<1>. QED
  BY <1>1, <1>2, <1>3, <1>4, <1>5, <1>6

\* The form feed of open and close.
LEMMA EjectBound ==
    ASSUME NEW p \in PortType, ~Raw(p.type)
    PROVE  /\ Fits(lp_output(p, "ff"), p, 2)
           /\ lp_output(p, "ff").p.mlc = 0
           /\ p.mlc = 0 => Len(lp_output(p, "ff").out) = 0
<1>. DEFINE none == <<>>
<1>1. lp_output(p, "ff") = FormFeed(p, "ff", none)
  BY DEF lp_output
<1>2. none \in Seq(Char) /\ Len(none) = 0 /\ Len(none) <= 1
  BY Short
<1>. HIDE DEF none
<1>3. /\ Fits(FormFeed(p, "ff", none), p, 2)
      /\ FormFeed(p, "ff", none).p.mlc = 0
      /\ p.mlc = 0 => Len(FormFeed(p, "ff", none).out) = 0
  BY <1>2, FormFeedBound, Zenon
<1>. QED
  BY <1>1, <1>3

-----------------------------------------------------------------------------
(* The steps.                                                              *)

Callers == Programs \cup {"nobody"}

\* A call of lp_output begins.
LEMMA OutputStep ==
    ASSUME NEW who \in Callers, NEW p \in PortType, p.col <= Widest,
           NEW c \in Char, NEW ret \in {"idle", "next", "opened", "closed"},
           Output(who, p, c, ret)
    PROVE  /\ port' \in PortType /\ port'.col <= Widest
           /\ cpu' \in CpuType /\ cpu'.pc = "put"
           /\ cpu'.todo \in Seq(Char) /\ Len(cpu'.todo) <= Widest + 1
           /\ port' = lp_output(p, c).p /\ cpu'.todo = lp_output(p, c).out
<1>1. Fits(lp_output(p, c), p, Widest + 1)
  BY OutputBound
<1>2. lp_output(p, c).flush \in BOOLEAN
  BY OutputFlush
<1>3. /\ port' = lp_output(p, c).p
      /\ cpu' = [who |-> who, pc |-> "put", c |-> c, todo |-> lp_output(p, c).out,
                 flush |-> lp_output(p, c).flush, ret |-> ret]
  BY DEF Output
<1>4. cpu' \in CpuType
  <2>1. lp_output(p, c).out \in Seq(Char)
    BY <1>1 DEF Fits
  <2>. HIDE DEF Char
  <2>. QED
    BY <1>2, <1>3, <2>1, Zenon DEF CpuType, Callers
<1>. QED
  BY <1>1, <1>3, <1>4 DEF Fits

\* So does one that queues a form feed.
LEMMA EjectStep ==
    ASSUME NEW who \in Callers, NEW p \in PortType, p.col <= Widest, ~Raw(p.type),
           NEW ret \in {"idle", "next", "opened", "closed"},
           Output(who, p, "ff", ret), NEW n \in Nat, n <= Hiwat + Widest + 1 + Slack(p)
    PROVE  n + Len(cpu'.todo) <= Hiwat + Widest + 1 + Slack(port')
<1>1. port' = lp_output(p, "ff").p /\ cpu'.todo = lp_output(p, "ff").out
  BY DEF Output
<1>2. /\ Fits(lp_output(p, "ff"), p, 2)
      /\ lp_output(p, "ff").p.mlc = 0
      /\ p.mlc = 0 => Len(lp_output(p, "ff").out) = 0
  BY EjectBound
<1>3. Slack(port') = 2 /\ Len(cpu'.todo) <= 2 /\ (p.mlc = 0 => Len(cpu'.todo) = 0)
  BY <1>1, <1>2 DEF Slack, Fits
<1>4. Len(cpu'.todo) \in Nat
  BY <1>1, <1>2, LenProperties DEF Fits
<1>. QED
  BY <1>3, <1>4, PrinterAssumption DEF Slack

LEMMA QueueInit == Init => QueueInv
<1>. SUFFICES ASSUME Init PROVE QueueInv
  OBVIOUS
<1>1. Port \in PortType /\ Port.col <= Widest /\ Port.mlc = 0
  BY PrinterAssumption DEF Port, PortType
<1>2. Idle \in CpuType /\ Idle.pc = "idle" /\ Idle.todo = <<>>
  BY Short DEF Idle, CpuType
<1>3. AtUser \in [at : {"user", "asleep", "awake"}, c : Char]
  BY Short DEF AtUser
<1>4. proc \in [Programs -> [at : {"user", "asleep", "awake"}, c : Char]]
  BY <1>3 DEF Init
<1>5. Len(outq) = 0 /\ outq \in Seq(Char) /\ Len(cpu.todo) = 0
  BY <1>2, Short DEF Init
<1>. QED
  BY <1>1, <1>2, <1>4, <1>5, PrinterAssumption
  DEF Init, QueueInv, QueueTypeOK, Slack

\* The queue, what is left to queue and the page stay as they are.
LEMMA QuietStep ==
    ASSUME QueueInv, UNCHANGED outq, cpu'.todo = cpu.todo,
           cpu' = cpu \/ cpu.todo = <<>>,
           cpu' \in CpuType, port' \in PortType, port'.col <= Widest,
           port'.mlc = port.mlc,
           proc' \in [Programs -> [at : {"user", "asleep", "awake"}, c : Char]]
    PROVE  QueueInv'
  BY DEF QueueInv, QueueTypeOK, Slack

LEMMA IdleCpu == Idle \in CpuType /\ Idle.pc = "idle" /\ Idle.todo = <<>>
  BY Short DEF Idle, CpuType

\* A call ends or goes on with the next character.
LEMMA ReturnStep ==
    ASSUME QueueInv, cpu.todo = <<>>, NEW ret, Return(ret)
    PROVE  /\ cpu' \in CpuType /\ cpu'.todo = <<>>
           /\ port' \in PortType /\ port'.col <= Widest /\ port'.mlc = port.mlc
<1>1. cpu' = Go("next") \/ cpu' = Idle
  BY DEF Return
<1>2. Go("next") \in CpuType /\ Go("next").todo = cpu.todo
  BY DEF QueueInv, QueueTypeOK, CpuType, Go
<1>3. [port EXCEPT !.open = FALSE, !.nocr = FALSE, !.aslp = FALSE] \in PortType
  BY Zenon DEF QueueInv, QueueTypeOK, PortType
<1>4. /\ [port EXCEPT !.open = FALSE, !.nocr = FALSE, !.aslp = FALSE].col = port.col
      /\ [port EXCEPT !.open = FALSE, !.nocr = FALSE, !.aslp = FALSE].mlc = port.mlc
  BY DEF QueueInv, QueueTypeOK, PortType
<1>. QED
  BY <1>1, <1>2, <1>3, <1>4, IdleCpu DEF Return, QueueInv, QueueTypeOK

\* A character is sent.
LEMMA SendStep ==
    ASSUME QueueInv, SendOne, UNCHANGED <<cpu, proc>>
    PROVE  QueueInv'
<1>1. outq \in Seq(Char) /\ outq # <<>> /\ outq' = Tail(outq)
  BY DEF QueueInv, QueueTypeOK, SendOne, Sends
<1>2. outq' \in Seq(Char) /\ Len(outq') = Len(outq) - 1 /\ Len(outq) \in Nat
  BY <1>1, HeadTailProperties, LenProperties
<1>3. port' \in PortType /\ port'.col = port.col /\ port'.mlc = port.mlc
  <2>. DEFINE b == port.cyc_started \/ Head(outq) \in Terminators
  <2>1. port' = [port EXCEPT !.cyc_started = b]
    BY DEF SendOne
  <2>2. b \in BOOLEAN
    OBVIOUS
  <2>. HIDE DEF b
  <2>. QED
    BY <2>1, <2>2 DEF QueueInv, QueueTypeOK, PortType
<1>4. Len(cpu.todo) \in Nat
  BY LenProperties DEF QueueInv, QueueTypeOK, CpuType
<1>. QED
  BY <1>2, <1>3, <1>4, PrinterAssumption DEF QueueInv, QueueTypeOK, Slack

LEMMA OpenStep ==
    ASSUME QueueInv, NEW p \in Programs, NEW t \in Types, NEW nocr \in BOOLEAN,
           lp_open(p, t, nocr)
    PROVE  QueueInv'
<1>. DEFINE new == port.type = Unconfig
            q == IF new THEN lpr_init(t) ELSE port
            opened == [q EXCEPT !.open = TRUE, !.nocr = nocr, !.aslp = FALSE]
<1>1. /\ port \in PortType /\ port.col <= Widest
      /\ cpu.todo = <<>> /\ cpu.pc = "idle" /\ UNCHANGED <<outq, proc>>
  BY DEF lp_open, Running, QueueInv, QueueTypeOK
<1>2. q \in PortType /\ q.col = port.col /\ q.mlc = port.mlc
  BY <1>1 DEF PortType, lpr_init
<1>3. /\ \/ port' = port /\ cpu' = cpu
         \/ port' = q /\ cpu' = cpu
         \/ port' = opened /\ cpu' = cpu
         \/ ~Raw(q.type) /\ Output(p, opened, "ff", "opened")
  BY DEF lp_open
<1>. HIDE DEF q
<1>4. opened \in PortType
  BY <1>2, Zenon DEF PortType
<1>5. opened.col = port.col /\ opened.mlc = port.mlc /\ opened.type = q.type
  BY <1>2 DEF PortType
<1>. HIDE DEF opened
<1>6. CASE cpu' = cpu /\ port' \in {port, q, opened}
  BY <1>1, <1>2, <1>4, <1>5, <1>6, QuietStep DEF QueueInv, QueueTypeOK
<1>7. CASE ~Raw(q.type) /\ Output(p, opened, "ff", "opened")
  <2>1. p \in Callers /\ "ff" \in Char /\ opened.col <= Widest /\ ~Raw(opened.type)
    BY <1>1, <1>5, <1>7, Short DEF Callers
  <2>2. /\ port' \in PortType /\ port'.col <= Widest
        /\ cpu' \in CpuType /\ cpu'.pc = "put"
    BY <1>4, <1>7, <2>1, OutputStep
  <2>3. Len(outq) \in Nat /\ Len(outq) <= Hiwat + Widest + 1 + Slack(opened)
    BY <1>1, <1>5, Short, LenProperties DEF QueueInv, QueueTypeOK, Slack
  <2>4. Len(outq) + Len(cpu'.todo) <= Hiwat + Widest + 1 + Slack(port')
    BY <1>4, <1>7, <2>1, <2>3, EjectStep
  <2>. QED
    BY <1>1, <2>2, <2>4 DEF QueueInv, QueueTypeOK
<1>. QED
  BY <1>3, <1>6, <1>7

LEMMA CloseStep ==
    ASSUME QueueInv, NEW p \in Programs, lp_close(p)
    PROVE  QueueInv'
<1>1. /\ port \in PortType /\ port.col <= Widest
      /\ cpu.todo = <<>> /\ cpu.pc = "idle" /\ UNCHANGED <<outq, proc>>
  BY DEF lp_close, Running, QueueInv, QueueTypeOK
<1>2. CASE Raw(port.type) /\ Return("closed")
  BY <1>1, <1>2, ReturnStep, QuietStep DEF QueueInv, QueueTypeOK
<1>3. CASE ~Raw(port.type) /\ Output(p, port, "ff", "closed")
  <2>1. p \in Callers /\ "ff" \in Char
    BY Short DEF Callers
  <2>2. /\ port' \in PortType /\ port'.col <= Widest
        /\ cpu' \in CpuType /\ cpu'.pc = "put"
    BY <1>1, <1>3, <2>1, OutputStep
  <2>3. Len(outq) \in Nat /\ Len(outq) <= Hiwat + Widest + 1 + Slack(port)
    BY <1>1, Short, LenProperties DEF QueueInv, QueueTypeOK, Slack
  <2>4. Len(outq) + Len(cpu'.todo) <= Hiwat + Widest + 1 + Slack(port')
    BY <1>1, <1>3, <2>1, <2>3, EjectStep
  <2>. QED
    BY <1>1, <2>2, <2>4 DEF QueueInv, QueueTypeOK
<1>. QED
  BY <1>2, <1>3 DEF lp_close

LEMMA WriteTestStep ==
    ASSUME QueueInv, WriteTest
    PROVE  QueueInv'
<1>1. /\ port \in PortType /\ port.col <= Widest /\ cpu \in CpuType
      /\ outq \in Seq(Char) /\ Len(outq) \in Nat
      /\ cpu.todo = <<>> /\ cpu.pc = "test" /\ UNCHANGED <<outq, proc>>
  BY LenProperties DEF WriteTest, Running, QueueInv, QueueTypeOK
<1>2. CASE port' = port /\ cpu' \in {Go("crowded"), Go("quit")}
  <2>1. cpu' \in CpuType /\ cpu'.todo = cpu.todo
    BY <1>1, <1>2 DEF CpuType, Go
  <2>. QED
    BY <1>1, <1>2, <2>1, QuietStep DEF QueueInv, QueueTypeOK
<1>3. CASE Len(outq) <= Hiwat /\ Output(cpu.who, port, cpu.c, "next")
  <2>1. cpu.who \in Callers /\ cpu.c \in Char
    BY <1>1 DEF CpuType, Callers
  <2>2. /\ port' \in PortType /\ port'.col <= Widest
        /\ cpu' \in CpuType /\ cpu'.pc = "put"
        /\ cpu'.todo \in Seq(Char) /\ Len(cpu'.todo) <= Widest + 1
    BY <1>1, <1>3, <2>1, OutputStep
  <2>3. Len(outq) + Len(cpu'.todo) <= Hiwat + Widest + 1 + Slack(port')
    BY <1>1, <1>3, <2>2, LenProperties, PrinterAssumption DEF Slack
  <2>. QED
    BY <1>1, <2>2, <2>3 DEF QueueInv, QueueTypeOK
<1>. QED
  BY <1>2, <1>3 DEF WriteTest

LEMMA PutStep ==
    ASSUME QueueInv, Put
    PROVE  QueueInv'
<1>1. /\ cpu \in CpuType /\ cpu.todo \in Seq(Char) /\ cpu.todo # <<>>
      /\ cpu' = [cpu EXCEPT !.todo = Tail(cpu.todo)]
      /\ outq \in Seq(Char) /\ outq' = Append(outq, Head(cpu.todo))
      /\ cpu.pc = "put" /\ UNCHANGED <<port, proc>>
  BY DEF Put, Running, QueueInv, QueueTypeOK, CpuType
<1>2. /\ Tail(cpu.todo) \in Seq(Char) /\ Len(Tail(cpu.todo)) = Len(cpu.todo) - 1
      /\ Head(cpu.todo) \in Char
  <2>. DEFINE todo == cpu.todo
  <2>1. todo \in Seq(Char) /\ todo # <<>>
    BY <1>1
  <2>. HIDE DEF todo
  <2>2. /\ Tail(todo) \in Seq(Char) /\ Len(Tail(todo)) = Len(todo) - 1
        /\ Head(todo) \in Char
    BY <2>1, HeadTailProperties
  <2>. QED
    BY <2>2 DEF todo
<1>3. outq' \in Seq(Char) /\ Len(outq') = Len(outq) + 1
  BY <1>1, <1>2, AppendProperties, ZenonT(60)
<1>4. cpu' \in CpuType /\ cpu'.todo = Tail(cpu.todo) /\ cpu'.pc = "put"
  BY <1>1, <1>2 DEF CpuType
<1>5. Len(outq) \in Nat /\ Len(cpu.todo) \in Nat
  BY <1>1, LenProperties
<1>6. Len(outq') + Len(cpu'.todo) = Len(outq) + Len(cpu.todo)
  <2>. DEFINE m == Len(outq)
              n == Len(cpu.todo)
              mm == Len(outq')
              nn == Len(cpu'.todo)
  <2>1. mm = m + 1 /\ nn = n - 1
    BY <1>2, <1>3, <1>4, Zenon
  <2>2. m \in Nat /\ n \in Nat
    BY <1>5
  <2>. HIDE DEF m, n, mm, nn
  <2>3. mm + nn = m + n
    BY <2>1, <2>2
  <2>. QED
    BY <2>3 DEF m, n, mm, nn
<1>. QED
  BY <1>1, <1>3, <1>4, <1>6 DEF QueueInv, QueueTypeOK, Slack

\* Every step keeps the invariant.
LEMMA QueueStep == QueueInv /\ [Next]_vars => QueueInv'
<1>. SUFFICES ASSUME QueueInv, [Next]_vars PROVE QueueInv'
  OBVIOUS
<1>. DEFINE ProcType == [Programs -> [at : {"user", "asleep", "awake"}, c : Char]]
<1>0. /\ port \in PortType /\ port.col <= Widest /\ cpu \in CpuType
      /\ proc \in ProcType
  BY DEF QueueInv, QueueTypeOK
<1>1. ASSUME NEW p \in Programs, NEW t \in Types, NEW nocr \in BOOLEAN,
             lp_open(p, t, nocr)
      PROVE  QueueInv'
  BY <1>1, OpenStep
<1>2. ASSUME NEW p \in Programs, lp_close(p) PROVE QueueInv'
  BY <1>2, CloseStep
<1>3. ASSUME NEW p \in Programs, lp_write(p) PROVE QueueInv'
  <2>1. cpu' \in CpuType /\ cpu'.todo = <<>>
    BY <1>3, Short DEF lp_write, Idle, CpuType
  <2>2. cpu.todo = <<>> /\ UNCHANGED <<port, outq, proc>>
    BY <1>3 DEF lp_write, Running, QueueInv
  <2>. QED
    BY <1>0, <2>1, <2>2, QuietStep
<1>4. ASSUME NEW p \in Programs, Resume(p) PROVE QueueInv'
  <2>1. proc[p].c \in Char
    BY <1>0
  <2>2. cpu' \in CpuType /\ cpu'.todo = <<>>
    BY <1>4, <2>1, Short DEF Resume, Idle, CpuType
  <2>3. cpu.todo = <<>> /\ UNCHANGED <<port, outq>>
    BY <1>4, IdleCpu DEF Resume
  <2>4. proc' \in ProcType
    BY <1>0, <1>4, Short DEF Resume, AtUser
  <2>. QED
    BY <1>0, <2>2, <2>3, <2>4, QuietStep
<1>5. ASSUME NEW p \in Programs, Signal(p) PROVE QueueInv'
  <2>1. cpu.todo = <<>> /\ UNCHANGED <<port, outq, cpu>>
    BY <1>5, IdleCpu DEF Signal
  <2>2. proc' \in ProcType
    BY <1>0, <1>5, Short DEF Signal, AtUser
  <2>. QED
    BY <1>0, <2>1, <2>2, QuietStep
<1>6. ASSUME NEW a \in Params, lp_sgtty(a) PROVE QueueInv'
  <2>1. port' \in PortType /\ port'.col <= Widest /\ port'.mlc = port.mlc
    BY <1>0, <1>6, PrinterAssumption DEF lp_sgtty, PortType
  <2>2. cpu.todo = <<>> /\ UNCHANGED <<outq, cpu, proc>>
    BY <1>6 DEF lp_sgtty, Running, QueueInv
  <2>. QED
    BY <1>0, <2>1, <2>2, QuietStep
<1>7. CASE WriteNext
  <2>1. cpu' \in CpuType /\ cpu'.todo = cpu.todo
    BY <1>0, <1>7 DEF WriteNext, Go, CpuType, Char
  <2>2. cpu.todo = <<>> /\ UNCHANGED <<port, outq, proc>>
    BY <1>7 DEF WriteNext, Running, QueueInv
  <2>. QED
    BY <1>0, <2>1, <2>2, QuietStep
<1>8. CASE WriteEnd
  <2>1. cpu' \in CpuType /\ cpu'.todo = cpu.todo
    BY <1>0, <1>8 DEF WriteEnd, Go, CpuType
  <2>2. cpu.todo = <<>> /\ UNCHANGED <<port, outq, proc>>
    BY <1>8 DEF WriteEnd, Running, QueueInv
  <2>. QED
    BY <1>0, <2>1, <2>2, QuietStep
<1>9. CASE WriteTest
  BY <1>9, WriteTestStep
<1>10. CASE WriteSleep
  <2>1. cpu' = Idle /\ cpu.todo = <<>> /\ UNCHANGED outq
    BY <1>10 DEF WriteSleep, Running, QueueInv
  <2>2. port' \in PortType
    BY <1>0, <1>10, Zenon DEF WriteSleep, PortType
  <2>3. port'.col = port.col /\ port'.mlc = port.mlc
    BY <1>0, <1>10 DEF WriteSleep, PortType
  <2>4. cpu.c \in Char
    BY <1>0 DEF CpuType
  <2>5. proc' \in ProcType
    BY <1>0, <1>10, <2>4 DEF WriteSleep
  <2>. QED
    BY <1>0, <2>1, <2>2, <2>3, <2>5, IdleCpu, QuietStep
<1>11. CASE Put
  BY <1>11, PutStep
<1>12. CASE PutEnd
  <2>1. cpu.todo = <<>> /\ UNCHANGED <<outq, proc>>
    BY <1>12 DEF PutEnd
  <2>2. CASE cpu' = Go("printc") /\ port' = port
    <3>1. cpu' \in CpuType /\ cpu'.todo = cpu.todo
      BY <1>0, <2>2 DEF Go, CpuType
    <3>. QED
      BY <1>0, <2>1, <2>2, <3>1, QuietStep
  <2>3. CASE Return(cpu.ret)
    BY <1>0, <2>1, <2>3, ReturnStep, QuietStep
  <2>. QED
    BY <1>12, <2>2, <2>3 DEF PutEnd
<1>13. CASE Printc
  BY <1>13, SendStep DEF Printc
<1>14. CASE PrintcEnd
  <2>1. cpu' \in CpuType /\ cpu'.todo = cpu.todo
    BY <1>0, <1>14 DEF PrintcEnd, Go, CpuType
  <2>2. cpu.todo = <<>> /\ UNCHANGED <<port, outq, proc>>
    BY <1>14 DEF PrintcEnd, Running, QueueInv
  <2>. QED
    BY <1>0, <2>1, <2>2, QuietStep
<1>15. CASE Enable
  <2>1. cpu' \in CpuType /\ cpu'.todo = cpu.todo
    BY <1>0, <1>15 DEF Enable, Go, CpuType
  <2>2. cpu.todo = <<>> /\ UNCHANGED <<port, outq, proc>>
    BY <1>15 DEF Enable, Running, QueueInv
  <2>. QED
    BY <1>0, <2>1, <2>2, QuietStep
<1>16. CASE Pulse
  <2>1. cpu.todo = <<>> /\ Return(cpu.ret) /\ UNCHANGED <<outq, proc>>
    BY <1>16 DEF Pulse, Running, QueueInv
  <2>. QED
    BY <1>0, <2>1, ReturnStep, QuietStep
<1>17. CASE Interrupt
  <2>1. UNCHANGED <<outq, cpu, proc>>
    BY <1>17 DEF Interrupt
  <2>2. port' \in PortType
    BY <1>0, <1>17, Zenon DEF Interrupt, PortType
  <2>3. port'.col = port.col /\ port'.mlc = port.mlc
    BY <1>0, <1>17 DEF Interrupt, PortType
  <2>. QED
    BY <1>0, <2>1, <2>2, <2>3, QuietStep
<1>18. CASE IntPrintc
  <2>1. CASE SendOne
    BY <1>18, <2>1, SendStep DEF IntPrintc
  <2>2. CASE UNCHANGED <<port, outq>>
    BY <1>0, <1>18, <2>2, QuietStep DEF IntPrintc
  <2>. QED
    BY <1>18, <2>1, <2>2 DEF IntPrintc
<1>19. CASE IntEnd
  <2>. DEFINE wake == Len(outq) <= Lowat /\ port.aslp
              b == port.aslp /\ ~wake
  <2>1. /\ UNCHANGED <<outq, cpu>>
        /\ port' = [port EXCEPT !.aslp = b]
    BY <1>19 DEF IntEnd
  <2>2. b \in BOOLEAN
    OBVIOUS
  <2>3. proc' \in ProcType
    BY <1>0, <1>19 DEF IntEnd
  <2>. HIDE DEF b
  <2>4. port' \in PortType /\ port'.col = port.col /\ port'.mlc = port.mlc
    BY <1>0, <2>1, <2>2 DEF PortType
  <2>. QED
    BY <1>0, <2>1, <2>3, <2>4, QuietStep
<1>20. CASE Ready
  BY <1>0, <1>20, QuietStep DEF Ready
<1>21. CASE UNCHANGED vars
  BY <1>0, <1>21, QuietStep DEF vars
<1>. QED
  BY <1>1, <1>2, <1>3, <1>4, <1>5, <1>6, <1>7, <1>8, <1>9, <1>10, <1>11, <1>12,
     <1>13, <1>14, <1>15, <1>16, <1>17, <1>18, <1>19, <1>20, <1>21
  DEF Next, Kernel, Handler

\* For every number of programs, page and high-water mark: the queue holds no
\* more than the mark, one padded line and three characters that move the
\* head, although open and close (lpr.c) queue without looking at the mark.
THEOREM QueueBoundHolds == Spec => []QueueBound
<1>1. QueueInv => QueueBound
  <2>. SUFFICES ASSUME QueueInv PROVE QueueBound
    OBVIOUS
  <2>1. Len(outq) \in Nat /\ Len(cpu.todo) \in Nat
    BY LenProperties DEF QueueInv, QueueTypeOK, CpuType
  <2>. QED
    BY <2>1, PrinterAssumption DEF QueueInv, QueueBound, Slack
<1>. QED
  BY <1>1, QueueInit, QueueStep, PTL DEF Spec

-----------------------------------------------------------------------------
(* Where the print head is.  While lp_output has characters left to queue, *)
(* they bring the head to mcc: they end a line and print mcc characters    *)
(* after it, or they print what mcc is ahead of the head.  The first needs *)
(* nothing of the head, and so mends what a form feed that was left out    *)
(* spoilt.                                                                 *)

Plain(s) == \A k \in 1 .. Len(s) : s[k] \notin Terminators

Lands(h, s, m, sm) ==
    \/ \E k \in 1 .. Len(s) :
          /\ s[k] \in Terminators
          /\ \A j \in k + 1 .. Len(s) : s[j] \notin Terminators
          /\ m = Len(s) - k
    \/ Plain(s) /\ (~sm => h + Len(s) = m)

HeadInv ==
    /\ head \in Nat
    /\ ~Raw(port.type) => Lands(head, cpu.todo, port.mcc, smeared)

\* Queueing the first character keeps where the rest lands.
LEMMA LandsPut ==
    ASSUME NEW h \in Nat, NEW s \in Seq(Char), s # <<>>, NEW m \in Nat, NEW sm,
           Lands(h, s, m, sm), NEW hh, NEW sn,
           hh = (IF Head(s) \in Terminators THEN 0 ELSE h + 1),
           sn = (sm /\ Head(s) \notin Terminators)
    PROVE  Lands(hh, Tail(s), m, sn)
<1>. DEFINE c == Head(s)
            r == Tail(s)
            n == Len(s)
<1>1. /\ n \in Nat \ {0} /\ Len(r) = n - 1 /\ s[1] = c
      /\ \A i \in 1 .. n - 1 : r[i] = s[i + 1]
  BY HeadTailProperties, LenProperties
<1>. HIDE DEF c, r
<1>2. CASE Plain(s) /\ (~sm => h + Len(s) = m)
  <2>1. c \notin Terminators /\ Plain(r)
    BY <1>1, <1>2 DEF Plain
  <2>2. ~sm => h + 1 + Len(r) = m
    <3>. SUFFICES ASSUME ~sm PROVE h + 1 + Len(r) = m
      BY Zenon
    <3>1. h + n = m
      BY <1>2, Zenon
    <3>. HIDE DEF n
    <3>. QED
      BY <1>1, <3>1
  <2>3. hh = h + 1 /\ (~sn => ~sm)
    BY <2>1, Zenon DEF c
  <2>. QED
    BY <2>1, <2>2, <2>3, Zenon DEF Lands, r
<1>3. ASSUME NEW k \in 1 .. n, s[k] \in Terminators,
             \A j \in k + 1 .. n : s[j] \notin Terminators, m = n - k
      PROVE  Lands(hh, r, m, sn)
  <2>1. CASE k = 1
    <3>1. Plain(r) /\ c \in Terminators /\ 0 + Len(r) = m
      BY <1>1, <1>3, <2>1 DEF Plain
    <3>2. hh = 0
      BY <3>1 DEF c
    <3>. QED
      BY <3>1, <3>2, Zenon DEF Lands
  <2>2. CASE k # 1
    <3>. DEFINE i == k - 1
    <3>1. i \in 1 .. Len(r) /\ r[i] \in Terminators /\ m = Len(r) - i
      BY <1>1, <1>3, <2>2
    <3>2. \A j \in i + 1 .. Len(r) : r[j] \notin Terminators
      BY <1>1, <1>3, <2>2
    <3>. HIDE DEF i
    <3>. QED
      BY <3>1, <3>2 DEF Lands
  <2>. QED
    BY <2>1, <2>2
<1>4. \/ Plain(s) /\ (~sm => h + Len(s) = m)
      \/ \E k \in 1 .. n : /\ s[k] \in Terminators
                           /\ \A j \in k + 1 .. n : s[j] \notin Terminators
                           /\ m = n - k
  BY DEF Lands
<1>. QED
  BY <1>2, <1>3, <1>4, Zenon DEF r

\* What ends with the end of a line leaves the head at the margin.
LEMMA LandsEnd ==
    ASSUME NEW h, NEW s \in Seq(Char), NEW c \in Terminators, c \in Char, NEW sm
    PROVE  Lands(h, s \o <<c>>, 0, sm)
<1>. DEFINE t == s \o <<c>>
<1>1. <<c>> \in Seq(Char) /\ Len(<<c>>) = 1 /\ <<c>>[1] = c
  BY Short
<1>2. Len(s) \in Nat /\ Len(t) = Len(s) + 1 /\ t[Len(s) + 1] = c
  BY <1>1, ConcatProperties, LenProperties
<1>. HIDE DEF t
<1>3. Len(t) \in 1 .. Len(t) /\ 0 = Len(t) - Len(t) /\ t[Len(t)] \in Terminators
      /\ \A j \in Len(t) + 1 .. Len(t) : t[j] \notin Terminators
  BY <1>2
<1>. QED
  BY <1>3 DEF Lands, t

\* Nothing is queued.
LEMMA LandsNone ==
    ASSUME NEW h \in Nat, NEW m, NEW sm, ~sm => h = m
    PROVE  Lands(h, <<>>, m, sm)
  BY Short DEF Lands, Plain

\* A form feed or the end of a line
LEMMA FormFeedLands ==
    ASSUME NEW p \in PortType, NEW c \in {"nl", "ff"}, NEW before \in Seq(Char),
           NEW h \in Nat, NEW sm
    PROVE  /\ p.mlc # 0 => Lands(h, FormFeed(p, c, before).out, 0, sm)
           /\ p.mlc = 0 => FormFeed(p, c, before).out = before
           /\ FormFeed(p, c, before).p.mcc = 0
           /\ FormFeed(p, c, before).p.type = p.type
<1>. DEFINE eject == IF c = "ff" /\ p.type = Centron THEN <<"cr">> ELSE <<>>
            end == [p EXCEPT !.mcc = 0, !.ccc = p.ind]
            last == [end EXCEPT !.mlc = IF c = "ff" THEN 0 ELSE @]
            pre == before \o eject
            out == pre \o <<c>>
<1>1. end.mcc = 0 /\ last.mcc = 0 /\ end.type = p.type /\ last.type = p.type
  BY DEF PortType
<1>2. eject \in Seq(Char)
  BY Short
<1>. HIDE DEF eject
<1>3. pre \in Seq(Char)
  BY <1>2, ConcatProperties
<1>. HIDE DEF pre
<1>4. c \in Terminators /\ c \in Char
  BY Short DEF Terminators
<1>5. Lands(h, out, 0, sm)
  BY <1>3, <1>4, LandsEnd
<1>. HIDE DEF end, last, out
<1>6. CASE p.mlc # 0
  <2>1. FormFeed(p, c, before) = Queue(last, out, TRUE)
    BY <1>6 DEF FormFeed, end, last, eject, out, pre
  <2>. QED
    BY <1>1, <1>5, <1>6, <2>1 DEF Queue
<1>7. CASE p.mlc = 0
  <2>1. FormFeed(p, c, before) = Queue(end, before, TRUE)
    BY <1>7 DEF FormFeed, end
  <2>. QED
    BY <1>1, <1>7, <2>1 DEF Queue
<1>. QED
  BY <1>6, <1>7

LEMMA NewLineLands ==
    ASSUME NEW p \in PortType, NEW h \in Nat, NEW sm
    PROVE  /\ Lands(h, NewLine(p).out, NewLine(p).p.mcc, sm)
           /\ NewLine(p).p.type = p.type
<1>. DEFINE q == [p EXCEPT !.mlc = @ + 1]
            cr == IF q.type = Centron THEN <<"cr">> ELSE <<>>
            none == <<>>
<1>1. q \in PortType /\ q.type = p.type /\ q.mlc # 0
  BY DEF PortType
<1>2. cr \in Seq(Char) /\ none \in Seq(Char)
  BY Short
<1>3. NewLine(p) \in {FormFeed(q, "ff", none), FormFeed(q, "nl", cr)}
  BY DEF NewLine
<1>. HIDE DEF q, cr, none
<1>4. ASSUME NEW c \in {"nl", "ff"}, NEW before \in Seq(Char)
      PROVE  /\ Lands(h, FormFeed(q, c, before).out, FormFeed(q, c, before).p.mcc, sm)
             /\ FormFeed(q, c, before).p.type = p.type
  BY <1>1, FormFeedLands
<1>. QED
  BY <1>2, <1>3, <1>4

\* Two sequences of characters put together
LEMMA Joined ==
    ASSUME NEW s \in Seq(Char), NEW t \in Seq(Char)
    PROVE  /\ s \o t \in Seq(Char) /\ Len(s \o t) = Len(s) + Len(t)
           /\ \A i \in 1 .. Len(s) + Len(t) :
                 (s \o t)[i] = IF i <= Len(s) THEN s[i] ELSE t[i - Len(s)]
<1>. HIDE DEF Char
<1>. QED
  BY ConcatProperties

\* Padding and a character that is printed, after a carriage return or not
LEMMA PrintLands ==
    ASSUME NEW h \in Nat, NEW m \in Nat, NEW n \in Nat, NEW sm,
           NEW c \in Char \ Terminators, ~sm => h = m
    PROVE  /\ Lands(h, <<>> \o Spaces(n) \o <<c>>, m + n + 1, sm)
           /\ Lands(h, <<"cr">> \o Spaces(n) \o <<c>>, 0 + n + 1, sm)
<1>. DEFINE pad == Spaces(n)
            cr == <<"cr">>
            none == <<>>
            one == <<c>>
<1>1. pad \in Seq(Char) /\ Len(pad) = n /\ \A i \in 1 .. n : pad[i] = "sp"
  BY SpacesLen DEF Spaces
<1>2. /\ cr \in Seq(Char) /\ Len(cr) = 1 /\ cr[1] = "cr"
      /\ none \in Seq(Char) /\ Len(none) = 0
      /\ one \in Seq(Char) /\ Len(one) = 1 /\ one[1] = c
  BY Short
<1>3. "sp" \notin Terminators /\ "cr" \in Terminators
  BY DEF Terminators
<1>. HIDE DEF pad, cr, none, one
<1>4. Lands(h, none \o pad \o one, m + n + 1, sm)
  <2>. DEFINE r == none \o pad
              t == r \o one
  <2>1. r \in Seq(Char) /\ Len(r) = n /\ \A i \in 1 .. n : r[i] = "sp"
    BY <1>1, <1>2, ConcatProperties
  <2>. HIDE DEF r
  <2>2. Len(t) = n + 1 /\ t[n + 1] = c /\ \A i \in 1 .. n : t[i] = "sp"
    <3>1. /\ Len(t) = Len(r) + Len(one)
          /\ \A i \in 1 .. Len(r) + Len(one) :
                t[i] = IF i <= Len(r) THEN r[i] ELSE one[i - Len(r)]
      BY <1>2, <2>1, Joined
    <3>. HIDE DEF t
    <3>. QED
      BY <1>2, <2>1, <3>1
  <2>. HIDE DEF t
  <2>3. Plain(t)
    BY <1>3, <2>2 DEF Plain
  <2>4. ~sm => h + Len(t) = m + n + 1
    <3>. SUFFICES ASSUME ~sm PROVE h + Len(t) = m + n + 1
      BY Zenon
    <3>1. h = m
      BY Zenon
    <3>. QED
      BY <2>2, <3>1
  <2>. QED
    BY <2>3, <2>4, Zenon DEF Lands, t, r
<1>5. Lands(h, cr \o pad \o one, 0 + n + 1, sm)
  <2>. DEFINE r == cr \o pad
              t == r \o one
  <2>1. r \in Seq(Char) /\ Len(r) = n + 1 /\ r[1] = "cr" /\ \A i \in 2 .. n + 1 : r[i] = "sp"
    <3>1. /\ r \in Seq(Char) /\ Len(r) = Len(cr) + Len(pad)
          /\ \A i \in 1 .. Len(cr) + Len(pad) :
                r[i] = IF i <= Len(cr) THEN cr[i] ELSE pad[i - Len(cr)]
      BY <1>1, <1>2, Joined
    <3>. HIDE DEF r
    <3>. QED
      BY <1>1, <1>2, <3>1
  <2>. HIDE DEF r
  <2>2. Len(t) = n + 2 /\ t[n + 2] = c /\ t[1] = "cr" /\ \A i \in 2 .. n + 1 : t[i] = "sp"
    <3>1. /\ Len(t) = Len(r) + Len(one)
          /\ \A i \in 1 .. Len(r) + Len(one) :
                t[i] = IF i <= Len(r) THEN r[i] ELSE one[i - Len(r)]
      BY <1>2, <2>1, Joined
    <3>. HIDE DEF t
    <3>. QED
      BY <1>2, <2>1, <3>1
  <2>. HIDE DEF t
  <2>3. 1 \in 1 .. Len(t) /\ t[1] \in Terminators /\ 0 + n + 1 = Len(t) - 1
    BY <1>3, <2>2
  <2>4. \A j \in 1 + 1 .. Len(t) : t[j] \notin Terminators
    BY <1>3, <2>2
  <2>5. Lands(h, t, 0 + n + 1, sm)
    BY <2>3, <2>4 DEF Lands
  <2>. QED
    BY <2>5 DEF t, r
<1>. QED
  BY <1>4, <1>5 DEF pad, cr, none, one

LEMMA CharacterLands ==
    ASSUME NEW p \in PortType, NEW c \in Char \ Terminators, NEW h \in Nat, NEW sm,
           ~sm => h = p.mcc
    PROVE  /\ Lands(h, Character(p, c).out, Character(p, c).p.mcc, sm)
           /\ Character(p, c).p.type = p.type
<1>. DEFINE back == p.ccc < p.mcc
            q == IF back THEN [p EXCEPT !.mcc = 0] ELSE p
            n == IF q.ccc > q.mcc THEN q.ccc - q.mcc ELSE 0
            pad == Spaces(n)
            cr == IF back THEN <<"cr">> ELSE <<>>
            all == cr \o pad \o <<c>>
<1>1. q \in PortType /\ q.type = p.type /\ q.mcc = (IF back THEN 0 ELSE p.mcc)
  BY DEF PortType
<1>2. n \in Nat /\ p.mcc \in Nat /\ q.mcc \in Nat
  BY <1>1 DEF PortType
<1>3. Len(pad) = n
  BY <1>2, SpacesLen
<1>4. Lands(h, all, q.mcc + n + 1, sm)
  <2>. HIDE DEF n, back, q
  <2>. QED
    BY <1>1, <1>2, PrintLands
<1>5. Lands(h, cr, q.mcc, sm)
  <2>1. CASE back
    <3>1. cr = <<"cr">> /\ q.mcc = 0
      BY <1>1, <2>1
    <3>2. Lands(h, <<"cr">>, 0, sm)
      <4>1. 1 \in 1 .. Len(<<"cr">>) /\ <<"cr">>[1] \in Terminators /\ 0 = Len(<<"cr">>) - 1
        BY DEF Terminators
      <4>2. \A j \in 1 + 1 .. Len(<<"cr">>) : <<"cr">>[j] \notin Terminators
        OBVIOUS
      <4>. QED
        BY <4>1, <4>2 DEF Lands
    <3>. QED
      BY <3>1, <3>2
  <2>2. CASE ~back
    <3>1. cr = <<>> /\ q.mcc = p.mcc
      BY <1>1, <2>2
    <3>2. Lands(h, <<>>, p.mcc, sm)
      BY LandsNone, Zenon
    <3>. QED
      BY <3>1, <3>2
  <2>. QED
    BY <2>1, <2>2
<1>. HIDE DEF q, n, pad, cr
<1>7. CASE back /\ p.nocr
  <2>. DEFINE r == [p EXCEPT !.ccc = @ + 1]
  <2>1. Character(p, c) = Queue(r, <<>>, FALSE)
    BY <1>7 DEF Character
  <2>2. r.mcc = p.mcc /\ r.type = p.type
    BY DEF PortType
  <2>3. Lands(h, <<>>, p.mcc, sm)
    BY LandsNone, Zenon
  <2>. HIDE DEF r
  <2>. QED
    BY <2>1, <2>2, <2>3 DEF Queue
<1>8. CASE ~(back /\ p.nocr) /\ q.ccc < q.col
  <2>. DEFINE r == [q EXCEPT !.mcc = @ + Len(pad) + 1, !.ccc = @ + 1]
  <2>1. Character(p, c) = Queue(r, all, FALSE)
    BY <1>8 DEF Character, q, n, pad, cr
  <2>2. r.mcc = q.mcc + n + 1 /\ r.type = p.type
    BY <1>1, <1>3 DEF PortType
  <2>. HIDE DEF r, all
  <2>. QED
    BY <1>4, <2>1, <2>2 DEF Queue
<1>9. CASE ~(back /\ p.nocr) /\ ~(q.ccc < q.col)
  <2>. DEFINE r == [q EXCEPT !.ccc = @ + 1]
  <2>1. Character(p, c) = Queue(r, cr, FALSE)
    BY <1>9 DEF Character, q, cr
  <2>2. r.mcc = q.mcc /\ r.type = p.type
    BY <1>1 DEF PortType
  <2>. HIDE DEF r
  <2>. QED
    BY <1>5, <2>1, <2>2 DEF Queue
<1>. QED
  BY <1>7, <1>8, <1>9

\* What lp_output queues brings the head to mcc, unless the head was lost
\* before or a form feed is left out in the middle of a line.
LEMMA OutputLands ==
    ASSUME NEW p \in PortType, NEW c \in Char, ~Raw(p.type), NEW h \in Nat, NEW sm,
           ~sm => h = p.mcc, NEW sn, sn = (sm \/ (c = "ff" /\ p.mlc = 0 /\ p.mcc > 0))
    PROVE  Lands(h, lp_output(p, c).out, lp_output(p, c).p.mcc, sn)
<1>0. p.mcc \in Nat /\ (~sn => h = p.mcc)
  BY Zenon DEF PortType
<1>1. CASE c \in {"tab", "bs", "sp"}
  <2>1. PICK n : lp_output(p, c) = Queue([p EXCEPT !.ccc = n], <<>>, FALSE)
    BY <1>1 DEF lp_output
  <2>2. lp_output(p, c).out = <<>> /\ lp_output(p, c).p.mcc = p.mcc
    BY <2>1 DEF Queue, PortType
  <2>. QED
    BY <1>0, <2>2, LandsNone, Zenon
<1>2. CASE c = "nl"
  <2>1. lp_output(p, c) = NewLine(p)
    BY <1>2 DEF lp_output
  <2>. QED
    BY <2>1, NewLineLands, Zenon
<1>3. CASE c = "ff"
  <2>. DEFINE none == <<>>
  <2>1. lp_output(p, c) = FormFeed(p, "ff", none)
    BY <1>3 DEF lp_output
  <2>2. none \in Seq(Char)
    BY Short
  <2>. HIDE DEF none
  <2>3. FormFeed(p, "ff", none).p.mcc = 0
    BY <2>2, FormFeedLands, Zenon
  <2>4. CASE p.mlc # 0
    <3>1. Lands(h, FormFeed(p, "ff", none).out, 0, sn)
      BY <2>2, <2>4, FormFeedLands, Zenon
    <3>. QED
      BY <2>1, <2>3, <3>1, Zenon
  <2>5. CASE p.mlc = 0
    <3>1. FormFeed(p, "ff", none).out = none
      BY <2>2, <2>5, FormFeedLands, Zenon
    <3>2. ~sn => h = 0
      <4>. SUFFICES ASSUME ~sn PROVE h = 0
        BY Zenon
      <4>1. h = p.mcc /\ ~(p.mcc > 0)
        BY <1>0, <1>3, <2>5, Zenon
      <4>. QED
        BY <1>0, <4>1
    <3>3. Lands(h, <<>>, 0, sn)
      BY <3>2, LandsNone, Zenon
    <3>. QED
      BY <2>1, <2>3, <3>1, <3>3, Zenon DEF none
  <2>. QED
    BY <2>4, <2>5
<1>4. CASE c = "cr"
  <2>. DEFINE none == <<>>
  <2>1. lp_output(p, c).out = <<"cr">> /\ lp_output(p, c).p.mcc = 0
    BY <1>4 DEF lp_output, Queue, PortType
  <2>2. 1 \in 1 .. Len(<<"cr">>) /\ <<"cr">>[1] \in Terminators /\ 0 = Len(<<"cr">>) - 1
    BY DEF Terminators
  <2>3. \A j \in 1 + 1 .. Len(<<"cr">>) : <<"cr">>[j] \notin Terminators
    OBVIOUS
  <2>4. Lands(h, <<"cr">>, 0, sn)
    BY <2>2, <2>3 DEF Lands
  <2>. QED
    BY <2>1, <2>4, Zenon
<1>5. CASE c \notin {"tab", "nl", "ff", "cr", "bs", "sp"}
  <2>1. lp_output(p, c) = Character(p, c)
    BY <1>5 DEF lp_output
  <2>2. c \in Char \ Terminators
    BY <1>5 DEF Terminators
  <2>. QED
    BY <1>0, <2>1, <2>2, CharacterLands, Zenon
<1>. QED
  BY <1>1, <1>2, <1>3, <1>4, <1>5

\* lp_output does not change the type of the printer.
LEMMA OutputType ==
    ASSUME NEW p \in PortType, NEW c \in Char
    PROVE  lp_output(p, c).p.type = p.type
<1>1. CASE Raw(p.type)
  BY <1>1 DEF lp_output, Queue, PortType
<1>2. CASE ~Raw(p.type) /\ c \in {"tab", "bs", "sp"}
  <2>1. PICK n : lp_output(p, c) = Queue([p EXCEPT !.ccc = n], <<>>, FALSE)
    BY <1>2 DEF lp_output
  <2>. QED
    BY <2>1 DEF Queue, PortType
<1>3. CASE ~Raw(p.type) /\ c = "nl"
  <2>1. lp_output(p, c) = NewLine(p)
    BY <1>3 DEF lp_output
  <2>. QED
    BY <2>1, NewLineLands, Zenon
<1>4. CASE ~Raw(p.type) /\ c = "ff"
  <2>. DEFINE none == <<>>
  <2>1. lp_output(p, c) = FormFeed(p, "ff", none)
    BY <1>4 DEF lp_output
  <2>2. none \in Seq(Char)
    BY Short
  <2>. HIDE DEF none
  <2>. QED
    BY <2>1, <2>2, FormFeedLands, Zenon
<1>5. CASE ~Raw(p.type) /\ c = "cr"
  BY <1>5 DEF lp_output, Queue, PortType
<1>6. CASE ~Raw(p.type) /\ c \notin {"tab", "nl", "ff", "cr", "bs", "sp"}
  <2>1. lp_output(p, c) = Character(p, c)
    BY <1>6 DEF lp_output
  <2>2. c \in Char \ Terminators
    BY <1>6 DEF Terminators
  <2>. QED
    BY <2>1, <2>2, CharacterLands, Zenon
<1>. QED
  BY <1>1, <1>2, <1>3, <1>4, <1>5, <1>6

\* Nothing is left to queue, and the head is where the driver thinks it is.
LEMMA LandsIdle ==
    ASSUME NEW h \in Nat, NEW m \in Nat, NEW sm, Lands(h, <<>>, m, sm), ~sm
    PROVE  h = m
<1>1. Len(<<>>) = 0 /\ Plain(<<>>)
  BY Short DEF Plain
<1>2. h + 0 = h /\ 1 .. 0 = {}
  OBVIOUS
<1>. QED
  BY <1>1, <1>2, Zenon DEF Lands

\* A call of lp_output begins.
LEMMA HeadOutput ==
    ASSUME QueueInv, HeadInv, cpu.todo = <<>>, NEW who, NEW p \in PortType, NEW c \in Char,
           NEW ret, p.mcc = port.mcc, Raw(port.type) => Raw(p.type),
           Output(who, p, c, ret), UNCHANGED head
    PROVE  HeadInv'
<1>1. /\ port' = lp_output(p, c).p /\ cpu'.todo = lp_output(p, c).out
      /\ smeared' = (smeared \/ (~Raw(p.type) /\ c = "ff" /\ p.mlc = 0 /\ p.mcc > 0))
  BY DEF Output
<1>2. port'.type = p.type
  BY <1>1, OutputType
<1>3. CASE Raw(p.type)
  BY <1>2, <1>3 DEF HeadInv
<1>4. CASE ~Raw(p.type)
  <2>1. port.mcc \in Nat /\ head \in Nat
    BY DEF QueueInv, QueueTypeOK, PortType, HeadInv
  <2>2. ~smeared => head = p.mcc
    <3>1. Lands(head, cpu.todo, port.mcc, smeared)
      BY <1>4, Zenon DEF HeadInv
    <3>2. Lands(head, <<>>, p.mcc, smeared) /\ p.mcc \in Nat
      BY <2>1, <3>1, Zenon
    <3>. QED
      BY <2>1, <3>2, LandsIdle
  <2>3. smeared' = (smeared \/ (c = "ff" /\ p.mlc = 0 /\ p.mcc > 0))
    BY <1>1, <1>4, Zenon
  <2>4. Lands(head, lp_output(p, c).out, lp_output(p, c).p.mcc, smeared')
    BY <1>4, <2>1, <2>2, <2>3, OutputLands, Zenon
  <2>5. Lands(head', cpu'.todo, port'.mcc, smeared') /\ head' \in Nat
    BY <1>1, <2>1, <2>4, Zenon
  <2>. QED
    BY <2>5, Zenon DEF HeadInv
<1>. QED
  BY <1>3, <1>4

\* The head, the characters left to queue and the line state stay.
LEMMA HeadQuiet ==
    ASSUME HeadInv, cpu'.todo = cpu.todo, port'.mcc = port.mcc,
           Raw(port.type) => Raw(port'.type), UNCHANGED <<head, smeared>>
    PROVE  HeadInv'
  BY Zenon DEF HeadInv

LEMMA HeadPut ==
    ASSUME QueueInv, HeadInv, Put
    PROVE  HeadInv'
<1>. DEFINE s == cpu.todo
<1>1. /\ cpu \in CpuType /\ s \in Seq(Char) /\ s # <<>> /\ port.mcc \in Nat /\ head \in Nat
      /\ cpu' = [cpu EXCEPT !.todo = Tail(s)] /\ UNCHANGED port
      /\ head' = IF Head(s) \in Terminators THEN 0 ELSE head + 1
      /\ smeared' = (smeared /\ Head(s) \notin Terminators)
  BY DEF Put, HeadInv, QueueInv, QueueTypeOK, CpuType, PortType
<1>2. cpu'.todo = Tail(s) /\ head' \in Nat
  BY <1>1 DEF CpuType
<1>3. CASE Raw(port.type)
  BY <1>1, <1>2, <1>3 DEF HeadInv
<1>4. CASE ~Raw(port.type)
  <2>1. Lands(head, s, port.mcc, smeared)
    BY <1>4 DEF HeadInv
  <2>. HIDE DEF s
  <2>2. Lands(head', Tail(s), port.mcc, smeared')
    <3>1. /\ head \in Nat /\ s \in Seq(Char) /\ s # <<>> /\ port.mcc \in Nat
      BY <1>1
    <3>. QED
      BY <1>1, <2>1, <3>1, LandsPut
  <2>3. Lands(head', cpu'.todo, port'.mcc, smeared')
    BY <1>1, <1>2, <2>2, Zenon
  <2>. QED
    BY <1>2, <2>3, Zenon DEF HeadInv
<1>. QED
  BY <1>3, <1>4

LEMMA HeadInit == Init => HeadInv
<1>. SUFFICES ASSUME Init PROVE HeadInv
  OBVIOUS
<1>1. head = 0 /\ cpu.todo = <<>> /\ port.mcc = 0
  BY DEF Init, Idle, Port
<1>2. 0 \in Nat /\ (~smeared => 0 = 0)
  BY Zenon
<1>3. Lands(0, <<>>, 0, smeared)
  BY <1>2, LandsNone, Zenon
<1>. QED
  BY <1>1, <1>2, <1>3, Zenon DEF HeadInv

\* A character is sent, or a call ends: the line state stays.
LEMMA HeadSend ==
    ASSUME QueueInv, HeadInv, SendOne, UNCHANGED <<cpu, head, smeared>>
    PROVE  HeadInv'
<1>1. port'.mcc = port.mcc /\ port'.type = port.type
  BY DEF SendOne, QueueInv, QueueTypeOK, PortType
<1>. QED
  BY <1>1, HeadQuiet

LEMMA HeadReturn ==
    ASSUME QueueInv, HeadInv, cpu.todo = <<>>, NEW ret, Return(ret),
           UNCHANGED <<head, smeared>>
    PROVE  HeadInv'
<1>1. port'.mcc = port.mcc /\ port'.type = port.type
  BY DEF Return, QueueInv, QueueTypeOK, PortType
<1>2. cpu'.todo = cpu.todo
  BY ReturnStep
<1>. QED
  BY <1>1, <1>2, HeadQuiet

LEMMA HeadOpen ==
    ASSUME QueueInv, HeadInv, NEW p \in Programs, NEW t \in Types, NEW nocr \in BOOLEAN,
           lp_open(p, t, nocr)
    PROVE  HeadInv'
<1>. DEFINE new == port.type = Unconfig
            q == IF new THEN lpr_init(t) ELSE port
            opened == [q EXCEPT !.open = TRUE, !.nocr = nocr, !.aslp = FALSE]
<1>1. port \in PortType /\ cpu.todo = <<>> /\ UNCHANGED head
  BY DEF lp_open, Running, QueueInv, QueueTypeOK
<1>2. q \in PortType /\ q.mcc = port.mcc /\ (Raw(port.type) => Raw(q.type))
  <2>1. CASE new
    <3>1. q = [port EXCEPT !.type = t] /\ ~Raw(port.type)
      BY <2>1 DEF lpr_init, Raw, Unconfig, RawCent, RawDatap
    <3>. QED
      BY <1>1, <3>1 DEF PortType
  <2>2. CASE ~new
    BY <1>1, <2>2
  <2>. QED
    BY <2>1, <2>2
<1>3. \/ port' \in {port, q, opened} /\ UNCHANGED <<cpu, smeared>>
      \/ Output(p, opened, "ff", "opened")
  BY DEF lp_open
<1>. HIDE DEF q
<1>4. opened \in PortType
  BY <1>2, Zenon DEF PortType
<1>5. opened.mcc = port.mcc /\ opened.type = q.type
  BY <1>2 DEF PortType
<1>. HIDE DEF opened
<1>6. CASE port' \in {port, q, opened} /\ UNCHANGED <<cpu, smeared>>
  BY <1>1, <1>2, <1>5, <1>6, HeadQuiet
<1>7. CASE Output(p, opened, "ff", "opened")
  BY <1>1, <1>2, <1>4, <1>5, <1>7, HeadOutput, Short
<1>. QED
  BY <1>3, <1>6, <1>7

\* Every step keeps the head known.
LEMMA HeadStep == QueueInv /\ HeadInv /\ [Next]_vars => HeadInv'
<1>. SUFFICES ASSUME QueueInv, HeadInv, [Next]_vars PROVE HeadInv'
  OBVIOUS
<1>0. port \in PortType /\ cpu \in CpuType /\ (cpu.pc # "put" => cpu.todo = <<>>)
  BY DEF QueueInv, QueueTypeOK
<1>1. ASSUME NEW p \in Programs, NEW t \in Types, NEW nocr \in BOOLEAN,
             lp_open(p, t, nocr)
      PROVE  HeadInv'
  BY <1>1, HeadOpen
<1>2. ASSUME NEW p \in Programs, lp_close(p) PROVE HeadInv'
  <2>1. cpu.todo = <<>> /\ UNCHANGED head /\ "ff" \in Char
    BY <1>0, <1>2, Short DEF lp_close, Running
  <2>2. CASE Return("closed") /\ UNCHANGED smeared
    BY <2>1, <2>2, HeadReturn
  <2>3. CASE Output(p, port, "ff", "closed")
    BY <1>0, <2>1, <2>3, HeadOutput
  <2>. QED
    BY <1>2, <2>2, <2>3 DEF lp_close
<1>3. ASSUME NEW p \in Programs, lp_write(p) PROVE HeadInv'
  <2>1. cpu'.todo = cpu.todo /\ UNCHANGED <<port, head, smeared>>
    BY <1>0, <1>3 DEF lp_write, Running, Idle
  <2>. QED
    BY <2>1, HeadQuiet
<1>4. ASSUME NEW p \in Programs, Resume(p) PROVE HeadInv'
  <2>1. cpu'.todo = cpu.todo /\ UNCHANGED <<port, head, smeared>>
    BY <1>4 DEF Resume, Idle
  <2>. QED
    BY <2>1, HeadQuiet
<1>5. ASSUME NEW p \in Programs, Signal(p) PROVE HeadInv'
  BY <1>5, HeadQuiet DEF Signal
<1>6. ASSUME NEW a \in Params, lp_sgtty(a) PROVE HeadInv'
  <2>1. port'.mcc = port.mcc /\ port'.type = port.type
    BY <1>0, <1>6 DEF lp_sgtty, PortType
  <2>. QED
    BY <1>6, <2>1, HeadQuiet DEF lp_sgtty
<1>7. CASE WriteNext \/ WriteEnd \/ PrintcEnd \/ Enable
  <2>1. cpu'.todo = cpu.todo
    BY <1>0, <1>7 DEF WriteNext, WriteEnd, PrintcEnd, Enable, Go, CpuType
  <2>. QED
    BY <1>7, <2>1, HeadQuiet DEF WriteNext, WriteEnd, PrintcEnd, Enable
<1>8. CASE WriteTest
  <2>1. cpu.todo = <<>> /\ UNCHANGED head /\ cpu.c \in Char
    BY <1>0, <1>8 DEF WriteTest, Running, CpuType
  <2>2. CASE cpu' \in {Go("crowded"), Go("quit")} /\ UNCHANGED <<port, smeared>>
    <3>1. cpu'.todo = cpu.todo
      BY <1>0, <2>2 DEF Go, CpuType
    <3>. QED
      BY <2>1, <2>2, <3>1, HeadQuiet
  <2>3. CASE Output(cpu.who, port, cpu.c, "next")
    BY <1>0, <2>1, <2>3, HeadOutput
  <2>. QED
    BY <1>8, <2>2, <2>3 DEF WriteTest
<1>9. CASE WriteSleep
  <2>1. cpu'.todo = cpu.todo /\ port'.mcc = port.mcc /\ port'.type = port.type
    BY <1>0, <1>9 DEF WriteSleep, Running, Idle, PortType
  <2>. QED
    BY <1>9, <2>1, HeadQuiet DEF WriteSleep
<1>10. CASE Put
  BY <1>10, HeadPut
<1>11. CASE PutEnd
  <2>1. cpu.todo = <<>> /\ UNCHANGED <<head, smeared>>
    BY <1>11 DEF PutEnd
  <2>2. CASE cpu' = Go("printc") /\ port' = port
    <3>1. cpu'.todo = cpu.todo
      BY <1>0, <2>2 DEF Go, CpuType
    <3>. QED
      BY <2>1, <2>2, <3>1, HeadQuiet
  <2>3. CASE Return(cpu.ret)
    BY <2>1, <2>3, HeadReturn
  <2>. QED
    BY <1>11, <2>2, <2>3 DEF PutEnd
<1>12. CASE Pulse
  <2>1. cpu.todo = <<>> /\ Return(cpu.ret) /\ UNCHANGED <<head, smeared>>
    BY <1>0, <1>12 DEF Pulse, Running
  <2>. QED
    BY <2>1, HeadReturn
<1>13. CASE Printc
  BY <1>13, HeadSend DEF Printc
<1>14. CASE Interrupt \/ IntEnd
  <2>1. port'.mcc = port.mcc /\ port'.type = port.type
    BY <1>0, <1>14 DEF Interrupt, IntEnd, PortType
  <2>. QED
    BY <1>14, <2>1, HeadQuiet DEF Interrupt, IntEnd
<1>15. CASE IntPrintc
  <2>1. CASE SendOne
    BY <1>15, <2>1, HeadSend DEF IntPrintc
  <2>2. CASE UNCHANGED port
    BY <1>15, <2>2, HeadQuiet DEF IntPrintc
  <2>. QED
    BY <1>15, <2>1, <2>2 DEF IntPrintc
<1>16. CASE Ready \/ UNCHANGED vars
  BY <1>16, HeadQuiet DEF Ready, vars
<1>. QED
  BY <1>1, <1>2, <1>3, <1>4, <1>5, <1>6, <1>7, <1>8, <1>9, <1>10, <1>11, <1>12,
     <1>13, <1>14, <1>15, <1>16
  DEF Next, Kernel, Handler

\* For every page, text and number of programs: outside lp_output the column
\* mcc is where the characters queued so far leave the print head, through
\* tabs, backspaces, overstrikes, indentation and page ends, unless the driver
\* dropped a form feed in the middle of a line (lpr.c).
THEOREM HeadKnownHolds == Spec => []HeadKnown
<1>1. QueueInv /\ HeadInv => HeadKnown
  <2>. SUFFICES ASSUME QueueInv, HeadInv, cpu.pc # "put", ~Raw(port.type), ~smeared
                PROVE  head = port.mcc
    BY Zenon DEF HeadKnown
  <2>1. head \in Nat /\ port.mcc \in Nat
    BY DEF HeadInv, QueueInv, QueueTypeOK, PortType
  <2>2. cpu.todo = <<>>
    BY DEF QueueInv
  <2>3. Lands(head, cpu.todo, port.mcc, smeared)
    BY DEF HeadInv
  <2>4. Lands(head, <<>>, port.mcc, smeared)
    BY <2>2, <2>3, Zenon
  <2>. QED
    BY <2>1, <2>4, LandsIdle
<1>. QED
  BY <1>1, QueueInit, QueueStep, HeadInit, HeadStep, PTL DEF Spec
=============================================================================
