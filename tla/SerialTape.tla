----------------------------- MODULE SerialTape -----------------------------
(***************************************************************************)
(* The serial installer put together: a standalone program (sarestor or    *)
(* the secondary loader) calls the replacement ct driver, which talks to   *)
(* TapeServer over a faulty line.                                          *)
(*                                                                         *)
(* Normally the host answers within the driver's polling time-out, so that *)
(* a time-out means that something was lost.  The fault "late" is a        *)
(* time-out that strikes while the host has yet to answer.                 *)
(***************************************************************************)
EXTENDS TapeServer, CtDriver

CONSTANTS
    OpenFiles,      \* files the program opens with ct(0,N), N >= 2
    Counts,         \* byte counts it reads with
    SpaceCounts,    \* counts it passes to ioctl 6
    MaxCalls        \* bound: number of driver calls in a behaviour

ASSUME CallerAssumption ==
    /\ OpenFiles \subseteq Files \ {0, 1}
    /\ Counts \subseteq Nat \ {0}
    /\ SpaceCounts \subseteq Nat
    /\ MaxCalls \in Nat

VARIABLES
    fd,             \* the program holds an open tape descriptor
    iOffset,        \* i_offset of its last read
    calls,          \* driver calls made so far
    taken,          \* history: blocks accepted as new in the current call
    delivered,      \* history: bytes of the selected file given to the program
    chunk,          \* history: what the last read that returned data returned
    spoiled         \* history: the line has damaged the payload of a block

callerVars == <<fd, iOffset, calls>>
history == <<taken, delivered, chunk, spoiled>>
vars == <<lineVars, serverState, driverState, callerVars, history>>

Init ==
    /\ LineInit /\ ServerInit /\ DriverInit
    /\ fd = FALSE
    /\ iOffset = 0
    /\ calls = 0
    /\ taken = <<>>
    /\ delivered = 0
    /\ chunk = [file |-> None, from |-> 0, len |-> 0, offset |-> 0]
    /\ spoiled = FALSE

(***************************************************************************)
(* The program.  It opens before it reads and does not use the descriptor  *)
(* of a failed open.  _read advances i_offset by one after every driver    *)
(* call; a program that repeats a read repeats its i_offset.               *)
(***************************************************************************)
calling == calls < MaxCalls /\ calls' = calls + 1

CallOpen ==
    /\ ~fd /\ calling
    /\ \E f \in OpenFiles : CtOpen(f)
    /\ UNCHANGED <<fd, iOffset, history>>

CallClose ==
    /\ fd /\ calling
    /\ CtClose
    /\ fd' = FALSE
    /\ UNCHANGED <<iOffset, history>>

CallSpace ==
    /\ fd /\ calling
    /\ \E cmd \in {6, 7}, n \in SpaceCounts : CtIoctl(cmd, n)
    /\ UNCHANGED <<fd, iOffset, history>>

CallStrategy ==
    /\ fd /\ calling
    /\ \E mode \in {"READ", "WRITE"}, off \in {iOffset, successor(iOffset)}, n \in Counts :
         /\ CtStrategy(mode, off, n)
         /\ iOffset' = off
         /\ taken' = IF mode = "READ" THEN <<>> ELSE taken
    /\ UNCHANGED <<fd, delivered, chunk, spoiled>>

Caller ==
    /\ CallOpen \/ CallClose \/ CallSpace \/ CallStrategy
    /\ UNCHANGED <<faults, serverState>>

(***************************************************************************)
(* The driver's steps, with the record of what they accept and return.     *)
(***************************************************************************)
accept ==
    taken' = IF drv = "response" /\ r4' # r4
             THEN Append(taken, [file |-> Head(toTarget).file, from |-> Head(toTarget).from])
             ELSE taken

\* A strategy call that returns data hands its blocks to the program.
handOver ==
    IF drv = "response" /\ drv' = "idle" /\ result'.value > 0 /\ taken # <<>>
    THEN /\ delivered' = taken[1].from + result'.value
         /\ chunk' = [file |-> taken[1].file, from |-> taken[1].from,
                     len |-> result'.value, offset |-> iOffset]
    ELSE UNCHANGED <<delivered, chunk>>

TimedOut ==
    /\ Timeout
    /\ \/ ServerWaits /\ UNCHANGED faults
       \/ /\ ~ServerWaits /\ "late" \in FaultKinds
          /\ faults < MaxFaults /\ faults' = faults + 1

Driver ==
    /\ (Receive /\ UNCHANGED faults) \/ TimedOut
    /\ accept
    /\ handOver
    /\ fd' = IF drv = "open" /\ drv' = "idle" THEN result'.value = 0 ELSE fd
    /\ UNCHANGED <<serverState, iOffset, calls, spoiled>>

(***************************************************************************)
(* The server's steps; a newly selected file starts from its first byte.   *)
(***************************************************************************)
Server ==
    /\ ServerStep
    /\ delivered' = IF sequence' = None THEN 0 ELSE delivered
    /\ UNCHANGED <<faults, driverState, callerVars, taken, chunk, spoiled>>

Line ==
    /\ Fault
    /\ spoiled' = (spoiled \/ \E i \in 1..Len(toTarget') :
                                 toTarget'[i].type = "block" /\ ~toTarget'[i].ok)
    /\ UNCHANGED <<serverState, driverState, callerVars, taken, delivered, chunk>>

Next == Caller \/ Driver \/ Server \/ Line

Spec == Init /\ [][Next]_vars

\* Both processors keep running; the line need not fail and the program need
\* not call.
FairSpec == Spec /\ WF_vars(Driver) /\ WF_vars(Server)

(***************************************************************************)
(* Properties.                                                             *)
(***************************************************************************)

\* The blocks a strategy call accepts are consecutive blocks of the selected
\* file, starting where the server's pending payload starts: a lost ACK, a
\* retransmission or an answer to an earlier request never makes the driver
\* take a block twice, skip one, or take one of another request.
InOrder ==
    drv \in {"response", "drain"} =>
        \A i \in 1..Len(taken) :
            taken[i] = [file |-> file, from |-> position + (i - 1) * BlockSize]

\* serve() moves position past a payload only when a strategy call returned
\* that payload to the program: the next i_offset never commits bytes that
\* nobody received.  This is so while the line has no more faults than one
\* strategy call tolerates (MaxErrors) and no answer is late: a call that gives
\* up leaves a payload behind that the NAK of a later one can bring to its end.
CommittedWasDelivered == position <= delivered

bufferIsRight ==
    \A a \in 0..(result.value - 1) :
        LET b == taken[a \div BlockSize + 1] IN
        mem[a] = <<b.file, b.from + (a % BlockSize)>>

readReturned == drv = "idle" /\ result.entry = "strategy" /\ result.value > 0

\* When a read returns n > 0 bytes, the first n bytes of the program's buffer
\* are the bytes of the accepted blocks, in order, although blocks, replies
\* and requests are lost or turned into noise; blocks whose payload is damaged
\* are left out here.
BufferExact == readReturned /\ ~spoiled => bufferIsRight

\* The same when payloads are damaged too: the retransmission of a block takes
\* the place of the block that failed its CRC.
RetransmissionReplaces == readReturned => bufferIsRight

\* After at most one fault, a successful read that returns less than was asked
\* for ran into the end of the file: ending a strategy call with EOT is never
\* mistaken for it.
ShortOnlyAtEof ==
    drv = "idle" /\ result.entry = "strategy" /\ result.value \in 0..(cc - 1) /\ faults <= 1 =>
        \/ file = None
        \/ position + result.value >= FileLen[file]

\* What a read returns is what the tape holds there, and it is short only at
\* the end of a file.
CallExact == BufferExact /\ ShortOnlyAtEof

\* Every call of the program returns, whatever the line loses or damages.
CallReturns == drv # "idle" ~> drv = "idle"

\* The whole is a tape: the program sees files read in order.
Tape == INSTANCE TapeDevice WITH cursor <- delivered
TapeSpec == Tape!Spec
=============================================================================
