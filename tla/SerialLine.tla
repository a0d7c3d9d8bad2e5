----------------------------- MODULE SerialLine -----------------------------
(***************************************************************************)
(* The TTY0 serial line between the System 8000 and the host computer that *)
(* serves the installation tape (src/serial_installer) or the tape of      *)
(* diagnostics (src/sadie_serial).  Each direction is                      *)
(* a FIFO of frames: what one side writes in one go, either a single       *)
(* control byte or a multi-byte request or packet.                         *)
(*                                                                         *)
(* The line may lose a frame, turn a control byte or the header of a       *)
(* packet into noise, cut a packet short or damage its payload, damage a   *)
(* request so that its XOR byte is wrong, or drop the last byte of a read  *)
(* request.  Damage is always detectable: CRC-16, XOR and block complement *)
(* are taken to catch it, and noise never reads as another control byte.   *)
(***************************************************************************)
EXTENDS Integers, Sequences

CONSTANTS
    BlockSize,      \* payload bytes of one XMODEM packet (128)
    BlockMod,       \* block numbers are one byte: they wrap at this (256)
    MaxFaults,      \* bound: number of faults in a behaviour
    FaultKinds      \* which of the faults below the line may commit

ASSUME LineAssumption ==
    /\ BlockSize \in Nat \ {0}
    /\ BlockMod \in Nat \ {0, 1}
    /\ MaxFaults \in Nat
    /\ FaultKinds \subseteq {"lose", "noise", "payload", "request", "short", "late"}

VARIABLES
    toHost,         \* frames on their way to serve_tape.py
    toTarget,       \* frames on their way to the System 8000
    faults          \* number of faults committed so far

lineVars == <<toHost, toTarget, faults>>

(***************************************************************************)
(* Frames.                                                                 *)
(***************************************************************************)
Byte(b) == [type |-> b]

Ack == Byte("ACK")
Nak == Byte("NAK")
Can == Byte("CAN")
Eot == Byte("EOT")
Noise == Byte("noise")
CrcRequest == Byte("C")
Trace == Byte("trace")      \* 0x10 before and 0x11 after a block is stored

\* SOH "S8" version file xor
OpenFrame(version, f) ==
    [type |-> "open", version |-> version, file |-> f, ok |-> TRUE]

\* "R" i_offset[4] count[2] xor; "short" counts bytes missing at its end
ReadFrame(offset, count) ==
    [type |-> "read", offset |-> offset, count |-> count, ok |-> TRUE, short |-> 0]

\* "R" count[2] xor
LegacyReadFrame(count) == [type |-> "read1", count |-> count, ok |-> TRUE]

\* "F" count xor
SpaceFrame(count) == [type |-> "space", count |-> count, ok |-> TRUE]

\* SOH num ~num payload crc[2]: the payload is bytes from, from+1, ... of
\* file f.  "arrived" payload bytes reach the receiver; "ok" is the CRC check.
BlockFrame(num, f, from) ==
    [type |-> "block", num |-> num, file |-> f, from |-> from,
     ok |-> TRUE, arrived |-> BlockSize]

\* STX count[2] payload xor ETX
PacketFrame(f, from, count) ==
    [type |-> "packet", file |-> f, from |-> from, count |-> count, ok |-> TRUE]

\* SOH "SD" 1 track file record[2] xor
PositionFrame(tape, record) ==
    [type |-> "position", tape |-> tape, record |-> record, ok |-> TRUE]

\* STX length[2]: there is no check on the length, and it is not damaged here.
HeaderFrame(len) == [type |-> "header", len |-> len]

IsRequest(frame) == frame.type \in {"open", "read", "read1", "space", "position"}

(***************************************************************************)
(* Faults of the line.                                                     *)
(***************************************************************************)
Without(s, i) == SubSeq(s, 1, i - 1) \o SubSeq(s, i + 1, Len(s))

LoseToHost == \E i \in 1..Len(toHost) :
    toHost' = Without(toHost, i) /\ UNCHANGED toTarget

LoseToTarget == \E i \in 1..Len(toTarget) :
    toTarget' = Without(toTarget, i) /\ UNCHANGED toHost

NoiseToHost == \E i \in 1..Len(toHost) :
    /\ ~IsRequest(toHost[i])
    /\ toHost' = [toHost EXCEPT ![i] = Noise]
    /\ UNCHANGED toTarget

NoiseToTarget == \E i \in 1..Len(toTarget) :
    /\ toTarget' = [toTarget EXCEPT ![i] = Noise]
    /\ UNCHANGED toHost

DamagePayload == \E i \in 1..Len(toTarget) :
    /\ \/ /\ toTarget[i].type = "block"
          /\ \E k \in 0..BlockSize :
               toTarget' = [toTarget EXCEPT ![i].ok = FALSE, ![i].arrived = k]
       \/ /\ toTarget[i].type = "packet"
          /\ toTarget' = [toTarget EXCEPT ![i].ok = FALSE]
    /\ UNCHANGED toHost

DamageRequest == \E i \in 1..Len(toHost) :
    /\ IsRequest(toHost[i])
    /\ toHost' = [toHost EXCEPT ![i].ok = FALSE]
    /\ UNCHANGED toTarget

ShortenRequest == \E i \in 1..Len(toHost) :
    /\ toHost[i].type = "read" /\ toHost[i].short = 0
    /\ toHost' = [toHost EXCEPT ![i].ok = FALSE, ![i].short = 1]
    /\ UNCHANGED toTarget

Fault ==
    /\ faults < MaxFaults
    /\ faults' = faults + 1
    /\ \/ "lose" \in FaultKinds /\ (LoseToHost \/ LoseToTarget)
       \/ "noise" \in FaultKinds /\ (NoiseToHost \/ NoiseToTarget)
       \/ "payload" \in FaultKinds /\ DamagePayload
       \/ "request" \in FaultKinds /\ DamageRequest
       \/ "short" \in FaultKinds /\ ShortenRequest

LineInit == toHost = <<>> /\ toTarget = <<>> /\ faults = 0

(***************************************************************************)
(* Writing to and reading from the line.                                   *)
(***************************************************************************)
SendToTarget(frame) == toTarget' = Append(toTarget, frame)
SendToHost(frame) == toHost' = Append(toHost, frame)
HostReads == toHost # <<>> /\ toHost' = Tail(toHost)
TargetReads == toTarget # <<>> /\ toTarget' = Tail(toTarget)
=============================================================================
