----------------------------- MODULE TapeServer -----------------------------
(***************************************************************************)
(* The host side of the serial installer: class TapeServer of              *)
(* src/serial_installer/serve_tape.py.  serve() is one loop that reads a   *)
(* command and handles it; the places where the handler blocks for a reply *)
(* in the middle of a transfer are the values of the variable srv.         *)
(***************************************************************************)
EXTENDS SerialLine

CONSTANTS
    NumFiles,       \* logical files on the tape, special files included
    FileLen,        \* FileLen[f]: length of logical file f in bytes
    SeqMod          \* i_offset counts modulo this (2^32)

Files == 0..(NumFiles - 1)

ASSUME ServerAssumption ==
    /\ NumFiles \in Nat \ {0}
    /\ FileLen \in [Files -> Nat]
    /\ SeqMod \in Nat \ {0, 1}

VARIABLES
    srv,            \* where serve() is waiting for the next byte
    file,           \* self.file_number
    version,        \* self.protocol_version
    position,       \* self.position
    sequence,       \* self.sequence
    pendCount,      \* self.pending_count
    pendLen,        \* len(self.pending_payload); the payload starts at position
    index           \* packet_index of the block being sent

serverState == <<srv, file, version, position, sequence, pendCount, pendLen, index>>
serverVars == <<toHost, toTarget, srv, file, version, position, sequence,
                pendCount, pendLen, index>>

None == -1          \* Python's None

XMODEM_VERSION == 3

ServerInit ==
    /\ srv = "command"
    /\ file = None
    /\ version = XMODEM_VERSION
    /\ position = 0
    /\ sequence = None
    /\ pendCount = None
    /\ pendLen = 0
    /\ index = 0

Smaller(a, b) == IF a < b THEN a ELSE b

\* len(source[pos : pos + count]) of the selected file
SliceLen(pos, count) ==
    IF pos < FileLen[file] THEN Smaller(count, FileLen[file] - pos) ELSE 0

legacy == file < 2 \/ version = 1

\* MUTANT: the sequence number survives the selection of another file.
forgetPending_keepsSequence ==
    /\ position' = 0
    /\ UNCHANGED sequence
    /\ pendCount' = None
    /\ pendLen' = 0

forgetPending ==
    /\ position' = 0
    /\ sequence' = None
    /\ pendCount' = None
    /\ pendLen' = 0

command(type) == srv = "command" /\ HostReads /\ Head(toHost).type = type

\* MUTANT: a bad request is dropped without an answer.
Refuse_silent == UNCHANGED <<toTarget, serverState>>

Refuse == SendToTarget(Can) /\ UNCHANGED serverState

(***************************************************************************)
(* SOH: open a logical file.                                               *)
(***************************************************************************)
validOpen(req) == req.ok /\ req.version \in {1, XMODEM_VERSION} /\ req.file \in Files

Open ==
    /\ command("open")
    /\ LET req == Head(toHost) IN
         \/ ~validOpen(req) /\ Refuse
         \/ /\ validOpen(req)
            /\ file' = req.file
            /\ version' = req.version
            /\ forgetPending
            /\ SendToTarget(Ack)
            /\ UNCHANGED <<srv, index>>

(***************************************************************************)
(* "R" in protocol version 3: the sequence number decides whether the      *)
(* request repeats the pending payload or commits it and takes the next.   *)
(***************************************************************************)
blockAt(pos, i) == BlockFrame((i \div BlockSize + 1) % BlockMod, file, pos + i)

\* The packet loop starts with block 1, or with EOT for an empty payload; a
\* payload that is not a whole number of blocks raises ValueError.
startTransfer(pos, len) ==
    /\ index' = 0
    /\ \/ len % BlockSize # 0 /\ srv' = "dead" /\ UNCHANGED toTarget
       \/ len = 0 /\ srv' = "eot" /\ SendToTarget(Eot)
       \/ /\ len > 0 /\ len % BlockSize = 0
          /\ srv' = "block"
          /\ SendToTarget(blockAt(pos, 0))

\* MUTANT: the next i_offset does not commit the payload before it.
takePending_uncommitted(req, pos) ==
    /\ sequence' = req.offset
    /\ pendCount' = req.count
    /\ UNCHANGED position
    /\ pendLen' = SliceLen(position, req.count)
    /\ startTransfer(position, SliceLen(position, req.count))

takePending(req, pos) ==
    /\ sequence' = req.offset
    /\ pendCount' = req.count
    /\ position' = pos
    /\ pendLen' = SliceLen(pos, req.count)
    /\ startTransfer(pos, SliceLen(pos, req.count))

successor(s) == (s + 1) % SeqMod

Read ==
    /\ command("read")
    /\ LET req == Head(toHost) IN
         \/ file = None /\ Refuse
         \/ /\ file # None /\ ~legacy /\ req.short > 0
            /\ srv' = "partial"
            /\ UNCHANGED <<toTarget, file, version, position, sequence,
                           pendCount, pendLen, index>>
         \/ file # None /\ ~legacy /\ ~req.ok /\ req.short = 0 /\ Refuse
         \/ /\ file # None /\ ~legacy /\ req.ok
            /\ \/ sequence = None /\ takePending(req, position)
               \/ /\ sequence # None /\ req.offset = sequence
                  /\ req.count = pendCount
                  /\ startTransfer(position, pendLen)
                  /\ UNCHANGED <<position, sequence, pendCount, pendLen>>
               \/ /\ sequence # None /\ req.offset = sequence
                  /\ req.count # pendCount
                  /\ Refuse
               \/ /\ sequence # None /\ req.offset # sequence
                  /\ req.offset = successor(sequence)
                  /\ takePending(req, position + pendLen)
               \/ /\ sequence # None
                  /\ req.offset \notin {sequence, successor(sequence)}
                  /\ Refuse
            /\ UNCHANGED <<file, version>>

\* read_exact() took the next byte from the line in place of the missing one.
Partial ==
    /\ srv = "partial"
    /\ HostReads
    /\ srv' = "command"
    /\ SendToTarget(Can)
    /\ UNCHANGED <<file, version, position, sequence, pendCount, pendLen, index>>

(***************************************************************************)
(* Replies to a packet and to EOT.  Anything but ACK and NAK raises        *)
(* ValueError, which ends the server process.                              *)
(***************************************************************************)
die == srv' = "dead" /\ UNCHANGED <<toTarget, index>>

\* MUTANT: EOT is sent in place of the last block.
lastBlock_early == index + 2 * BlockSize >= pendLen

lastBlock == index + BlockSize >= pendLen

BlockReply ==
    /\ srv = "block"
    /\ HostReads
    /\ LET reply == Head(toHost).type IN
         \/ /\ reply = "ACK" /\ ~lastBlock
            /\ index' = index + BlockSize
            /\ SendToTarget(blockAt(position, index + BlockSize))
            /\ UNCHANGED srv
         \/ /\ reply = "ACK" /\ lastBlock
            /\ srv' = "eot"
            /\ SendToTarget(Eot)
            /\ UNCHANGED index
         \/ /\ reply = "NAK"
            /\ SendToTarget(blockAt(position, index))
            /\ UNCHANGED <<srv, index>>
         \/ reply \notin {"ACK", "NAK"} /\ die
    /\ UNCHANGED <<file, version, position, sequence, pendCount, pendLen>>

\* MUTANT: a NAK ends the transfer like an ACK.
EotReply_nakEnds ==
    /\ srv = "eot"
    /\ HostReads
    /\ LET reply == Head(toHost).type IN
         \/ reply \in {"ACK", "NAK"} /\ srv' = "command" /\ UNCHANGED <<toTarget, index>>
         \/ reply \notin {"ACK", "NAK"} /\ die
    /\ UNCHANGED <<file, version, position, sequence, pendCount, pendLen>>

EotReply ==
    /\ srv = "eot"
    /\ HostReads
    /\ LET reply == Head(toHost).type IN
         \/ reply = "ACK" /\ srv' = "command" /\ UNCHANGED <<toTarget, index>>
         \/ reply = "NAK" /\ SendToTarget(Eot) /\ UNCHANGED <<srv, index>>
         \/ reply \notin {"ACK", "NAK"} /\ die
    /\ UNCHANGED <<file, version, position, sequence, pendCount, pendLen>>

(***************************************************************************)
(* "R" in protocol version 1, used by the boot stages: one STX packet per  *)
(* request, EOT at the end of files 0 to 4.                                *)
(***************************************************************************)
ReadLegacy ==
    /\ command("read1")
    /\ LET req == Head(toHost)
           len == SliceLen(position, req.count)
       IN \/ file = None /\ Refuse
          \/ file # None /\ legacy /\ ~req.ok /\ Refuse
          \/ /\ file # None /\ legacy /\ req.ok
             /\ \/ /\ len = 0 /\ file < 5
                   /\ SendToTarget(Eot)
                   /\ UNCHANGED <<srv, index>>
                \/ /\ len > 0 \/ file >= 5
                   /\ srv' = "packet"
                   /\ index' = len
                   /\ SendToTarget(PacketFrame(file, position, len))
             /\ UNCHANGED <<file, version, position, sequence, pendCount, pendLen>>

\* Here index is len(payload) of the packet in flight.
PacketReply ==
    /\ srv = "packet"
    /\ HostReads
    /\ LET reply == Head(toHost).type IN
         \/ /\ reply = "ACK"
            /\ srv' = "command"
            /\ position' = position + index
            /\ index' = 0
            /\ UNCHANGED toTarget
         \/ /\ reply = "NAK"
            /\ SendToTarget(PacketFrame(file, position, index))
            /\ UNCHANGED <<srv, position, index>>
         \/ reply \notin {"ACK", "NAK"} /\ die /\ UNCHANGED position
    /\ UNCHANGED <<file, version, sequence, pendCount, pendLen>>

(***************************************************************************)
(* "F": space forward over tape files; CAN: close; other bytes: ignored.   *)
(***************************************************************************)
validSpace(req) == file # None /\ req.ok /\ req.count # 0

Space ==
    /\ command("space")
    /\ LET req == Head(toHost) IN
         \/ ~validSpace(req) /\ Refuse
         \/ validSpace(req) /\ file + req.count \notin Files /\ Refuse
         \/ /\ validSpace(req) /\ file + req.count \in Files
            /\ file' = file + req.count
            /\ forgetPending
            /\ SendToTarget(Ack)
            /\ UNCHANGED <<srv, version, index>>

Close ==
    /\ command("CAN")
    /\ file' = None
    /\ forgetPending
    /\ UNCHANGED <<toTarget, srv, version, index>>

Ignore ==
    /\ srv = "command"
    /\ HostReads
    /\ Head(toHost).type \in {"ACK", "NAK", "EOT", "noise"}
    /\ UNCHANGED <<toTarget, serverState>>

\* The process has ended: what the target sends goes nowhere.
Gone == srv = "dead" /\ HostReads /\ UNCHANGED <<toTarget, serverState>>

ServerStep ==
    \/ Open \/ Read \/ Partial \/ BlockReply \/ EotReply
    \/ ReadLegacy \/ PacketReply \/ Space \/ Close \/ Ignore \/ Gone

\* serve() is blocked in read_exact() with nothing to read.
ServerWaits == toHost = <<>>
=============================================================================
