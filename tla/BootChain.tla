----------------------------- MODULE BootChain ------------------------------
(***************************************************************************)
(* The first two stages of a serial installation, which speak version 1 of *)
(* the tape protocol to the server: bootstrap.s, loaded by the monitor,    *)
(* fetches tape file 0 and jumps to it; primary_serial.s, which is file 0, *)
(* relocates itself, fetches file 1 and jumps to it.  Neither stage has a  *)
(* time-out: GETBYTE polls for ever.                                       *)
(*                                                                         *)
(* There are two kits: ZEUS is served by TapeServer, SADIE by SadieServer  *)
(* with a primary that does the same (sadie_primary_serial.s).  File 1 of  *)
(* SADIE is the executive, which goes on to read diagnostics from the tape *)
(* through its patched driver.                                             *)
(***************************************************************************)
EXTENDS TapeServer, SadieServer, SadieDriver

Ext == INSTANCE SequencesExt

CONSTANTS
    ReadSize,       \* bytes asked for in one request (512)
    ReadCalls,      \* <<records, bytes>> the executive reads with
    MaxCalls        \* bound: calls of the executive in a behaviour

ASSUME BootAssumption ==
    /\ ReadSize \in Nat \ {0}
    /\ FileLen[0] = ReadSize      \* main() pads file 0 to 512 bytes
    /\ StreamLen[0] = ReadSize    \* as SadieServer() does
    /\ 1 \in Files /\ 1 \in DOMAIN StreamLen
    /\ ReadCalls \subseteq Nat \X Nat /\ MaxCalls \in Nat

VARIABLES
    kit,            \* "ZEUS" or "SADIE"
    calls,          \* calls the executive has made
    mark,           \* history: where the tape is when the call begins, if known
    complete,       \* history: records the call has received
    late,           \* history: the driver gave up an answer that came after all
    stage,          \* the program running: "bootstrap", "primary", "file1"
    at,             \* where it is: "start", "open", "read", "halt"
    packets,        \* packets the stage has received
    image           \* what the stage has stored from address 0 up

bootVars == <<stage, at, packets, image>>
execVars == <<ct, memory, calls, mark, complete, late>>
vars == <<lineVars, serverState, sadie, kit, bootVars, execVars>>

BadByte == <<-3, 0>>

Init ==
    /\ LineInit /\ ServerInit /\ SadieInit /\ SadieDriverInit
    /\ kit \in {"ZEUS", "SADIE"}
    /\ calls = 0 /\ mark = Unset /\ complete = 0 /\ late = FALSE
    /\ stage = "bootstrap"
    /\ at = "start"
    /\ packets = 0
    /\ image = <<>>

stageFile == IF stage = "bootstrap" THEN 0 ELSE 1

\* Both stages begin by opening their file.
OpenFile ==
    /\ at = "start" /\ stage # "file1"
    /\ at' = "open"
    /\ SendToHost(OpenFrame(1, stageFile))
    /\ UNCHANGED <<toTarget, stage, packets, image>>

request ==
    /\ at' = "read"
    /\ SendToHost(LegacyReadFrame(ReadSize))

OpenReply ==
    /\ at = "open"
    /\ TargetReads
    /\ \/ Head(toTarget) = Ack /\ request
       \/ Head(toTarget) # Ack /\ at' = "halt" /\ UNCHANGED toHost
    /\ packets' = 0
    /\ image' = <<>>
    /\ UNCHANGED stage

loaded == stage = "primary" \/ packets = 1

successorStage == IF stage = "bootstrap" THEN "primary" ELSE "file1"

\* EOT: the primary has all of file 1 and jumps to it.  The bootstrap must
\* have had its one full packet before it.
ReadEot ==
    /\ at = "read"
    /\ TargetReads
    /\ Head(toTarget) = Eot
    /\ IF loaded
       THEN stage' = successorStage /\ at' = "start"
       ELSE at' = "halt" /\ UNCHANGED stage
    /\ UNCHANGED <<toHost, packets, image>>

\* MUTANT: the XOR byte is not compared.
xorMatches_unchecked(frame) == TRUE

xorMatches(frame) == frame.ok

\* What a stage accepts: the bootstrap only one packet, a full one.
acceptable(frame) ==
    /\ xorMatches(frame)
    /\ stage = "bootstrap" => packets = 0 /\ frame.count = ReadSize

\* A packet is stored as it arrives; the count, the XOR byte and ETX decide
\* between the next request and halting.  Only the bootstrap's second packet,
\* and one that is not full, are acknowledged before they are found to be
\* unacceptable.
ReadPacket ==
    /\ at = "read"
    /\ TargetReads
    /\ Head(toTarget).type = "packet"
    /\ LET frame == Head(toTarget)
           bytes == [i \in 1..frame.count |->
                       IF frame.ok THEN <<frame.file, frame.from + i - 1>> ELSE BadByte]
       IN /\ frame.count <= ReadSize
          /\ image' = image \o bytes
          /\ packets' = packets + 1
          /\ \/ /\ acceptable(frame)
                /\ toHost' = toHost \o <<Ack, LegacyReadFrame(ReadSize)>>
                /\ UNCHANGED at
             \/ /\ ~acceptable(frame)
                /\ at' = "halt"
                /\ IF xorMatches(frame) THEN SendToHost(Ack) ELSE UNCHANGED toHost
    /\ UNCHANGED stage

\* Anything but STX and EOT.
ReadOther ==
    /\ at = "read"
    /\ TargetReads
    /\ Head(toTarget).type \notin {"packet", "EOT"}
    /\ at' = "halt"
    /\ UNCHANGED <<toHost, stage, packets, image>>

\* .Lhalt sends CAN for ever; the model sends the next one when the previous
\* one is off the line.
Halt ==
    /\ at = "halt"
    /\ toHost = <<>>
    /\ SendToHost(Can)
    /\ UNCHANGED <<toTarget, bootVars>>

Boot ==
    /\ OpenFile \/ OpenReply \/ ReadEot \/ ReadPacket \/ ReadOther \/ Halt
    /\ UNCHANGED <<faults, serverState, sadie, kit, execVars>>

Server ==
    /\ \/ kit = "ZEUS" /\ ServerStep /\ UNCHANGED sadie
       \/ kit = "SADIE" /\ SadieStep /\ UNCHANGED serverState
    /\ UNCHANGED <<faults, kit, bootVars, execVars>>

\* A stage waits for ever for a byte that is lost: only the executive's
\* exchanges suffer losses.
Line ==
    /\ Fault
    /\ stage # "file1" => Len(toHost') + Len(toTarget') = Len(toHost) + Len(toTarget)
    /\ UNCHANGED <<serverState, sadie, kit, bootVars, execVars>>

(***************************************************************************)
(* The executive.  It may call at any time, in any order.  mark is set by  *)
(* a position that succeeds and lost by one that fails; a read moves it by *)
(* the records it received.                                                *)
(***************************************************************************)
calling == kit = "SADIE" /\ stage = "file1" /\ calls < MaxCalls /\ calls' = calls + 1

\* The last record of every file and one more are not there: the first ends a
\* read at once, the other is refused.
Places == UNION {{[tape |-> t, record |-> r] : r \in 0..(Len(Records[t]) + 1)} : t \in DOMAIN Records}

ExecPosition ==
    /\ calling
    /\ \E p \in Places : CallPosition(p.tape, p.record) /\ mark' = p
    /\ complete' = 0
    /\ UNCHANGED <<faults, late>>

ExecRead ==
    /\ calling
    /\ \E c \in ReadCalls : CallRead(c[1], c[2])
    /\ mark' = IF mark = Unset THEN mark ELSE [mark EXCEPT !.record = @ + complete]
    /\ complete' = 0
    /\ UNCHANGED <<faults, late>>

\* Normally nothing comes because something was lost.
ExecTimeout ==
    /\ NoReply
    /\ \/ toHost = <<>> /\ UNCHANGED <<faults, late>>
       \/ /\ toHost # <<>> /\ "late" \in FaultKinds
          /\ faults < MaxFaults /\ faults' = faults + 1
          /\ late' = TRUE

ExecDriver ==
    /\ (SadieReceive /\ UNCHANGED <<faults, late>>) \/ ExecTimeout
    /\ mark' = IF ct.at = "position" /\ ct'.r2 = -1 THEN Unset ELSE mark
    /\ complete' = IF ct'.left # ct.left THEN complete + 1 ELSE complete
    /\ UNCHANGED calls

Executive ==
    /\ ExecPosition \/ ExecRead \/ ExecDriver
    /\ UNCHANGED <<serverState, sadie, kit, bootVars>>

Next == Boot \/ Server \/ Line \/ Executive

\* The executive need not call.
Spec ==
    /\ Init /\ [][Next]_vars
    /\ WF_vars(Boot) /\ WF_vars(Server) /\ WF_vars(ExecDriver /\ Executive)

(***************************************************************************)
(* Properties.                                                             *)
(***************************************************************************)

whole(f) ==
    [i \in 1..(IF kit = "ZEUS" THEN FileLen[f] ELSE StreamLen[f]) |-> <<f, i - 1>>]

\* A stage jumps to what it loaded only when that is the whole of its tape
\* file, byte for byte: no lost, damaged or repeated packet is ever executed.
OnlyExactImagesRun ==
    /\ at = "start" /\ stage = "primary" => image = whole(0)
    /\ stage = "file1" => image = whole(1)

ended == IF kit = "ZEUS" THEN srv = "dead" ELSE sadie.at = "dead"
closed == IF kit = "ZEUS" THEN file = None ELSE sadie.stream = Unset

\* No side waits for the other for ever, whatever the checks catch.  The chain
\* reaches file 1, a stage halts or the server ends; a stage that halts takes
\* the server out of its transfer, because the flood of CAN closes the file or
\* ends the process; and every call of the executive returns.
NobodyWaits ==
    /\ <>(stage = "file1" \/ at = "halt" \/ ended)
    /\ at = "halt" ~> (closed \/ ended)
    /\ ct.at # "idle" ~> ct.at = "idle"

\* the bytes of n records of a file, from record r on
recordsFrom(tape, r, n) ==
    Ext!FlattenSeq([k \in 1..least(n, Len(Records[tape]) - r) |->
                     [i \in 1..Records[tape][r + k] |-> <<<<tape, r + k - 1>>, i - 1>>]])

\* byte b is before byte c in the same file of the tape
precedes(b, c) ==
    /\ b[1][1] = c[1][1]
    /\ b[1][2] < c[1][2] \/ (b[1][2] = c[1][2] /\ b[2] < c[2])

\* A read of the executive stores bytes of one file in order and each once.
\* They are those of the records from the tape's position on, also after reads
\* that failed, although the server moves self.record on before it sends the
\* record (serve_sadie.py:250); and a read that succeeds has as many bytes as
\* were asked for or as the records have.  A late answer may be taken for the
\* answer to a later request, and then only the order is left.
RecordsInOrder ==
    ct.entry = "read" =>
      /\ \A j \in 2..Len(memory) : precedes(memory[j - 1], memory[j])
      /\ mark # Unset /\ ~late =>
           LET asked == recordsFrom(mark.tape, mark.record, complete + ct.left) IN
           /\ Ext!IsPrefix(memory, asked)
           /\ ct.at = "idle" /\ ct.r2 = 0 => Len(memory) = least(ct.count, Len(asked))
=============================================================================
