---------------------------- MODULE SadieServer -----------------------------
(***************************************************************************)
(* The host side of the SADIE diagnostic loader: class SadieServer of      *)
(* src/sadie_serial/serve_sadie.py.  The boot stages open and read the     *)
(* first two files of track 0 as streams; the executive selects a track, a *)
(* file and a record, and reads records.  sadie.at is where serve() waits  *)
(* for the next byte.                                                      *)
(***************************************************************************)
EXTENDS SerialLine

CONSTANTS
    StreamLen,      \* StreamLen[f]: bytes of file f of track 0, as a stream
    Records         \* Records[<<track, file>>]: the lengths of its records

ASSUME SadieAssumption ==
    /\ \A f \in DOMAIN StreamLen : StreamLen[f] \in Nat
    /\ \A t \in DOMAIN Records : Records[t] \in Seq(Nat \ {0})

VARIABLES
    sadie           \* the server: at, stream, pos, tape, record, len, index

Unset == <<>>       \* no stream, no track, file and record

\* len and index: the payload being sent, and the offset of its packet.
SadieInit ==
    sadie = [at |-> "command", stream |-> Unset, pos |-> 0, tape |-> Unset,
             record |-> 0, len |-> 0, index |-> 0]

least(a, b) == IF a < b THEN a ELSE b

\* A read of one byte: what serve() and its handlers wait for.
takes(at) == sadie.at = at /\ HostReads

refuses == SendToTarget(Can) /\ UNCHANGED sadie

\* MUTANT: a failed transfer returns to the loop of serve().
raises_resumes == sadie' = [sadie EXCEPT !.at = "command"] /\ UNCHANGED toTarget

\* ValueError ends the process.
raises == sadie' = [sadie EXCEPT !.at = "dead"] /\ UNCHANGED toTarget

(***************************************************************************)
(* Streams.                                                                *)
(***************************************************************************)
legacyOpens(req) == req.ok /\ req.version = 1 /\ req.file \in DOMAIN StreamLen

LegacyOpen ==
    /\ takes("command")
    /\ Head(toHost).type = "open"
    /\ LET req == Head(toHost) IN
         \/ ~legacyOpens(req) /\ refuses
         \/ /\ legacyOpens(req)
            /\ sadie' = [sadie EXCEPT !.stream = <<req.file>>, !.pos = 0]
            /\ SendToTarget(Ack)

streamFrame == PacketFrame(sadie.stream[1], sadie.pos, sadie'.len)

\* serve_legacy_read(): the next piece of the stream, or EOT at its end.
LegacyRead ==
    /\ takes("command")
    /\ Head(toHost).type = "read1" /\ sadie.stream # Unset
    /\ LET req == Head(toHost)
           left == StreamLen[sadie.stream[1]] - sadie.pos
       IN \/ ~req.ok /\ refuses
          \/ req.ok /\ left = 0 /\ SendToTarget(Eot) /\ UNCHANGED sadie
          \/ /\ req.ok /\ left > 0
             /\ sadie' = [sadie EXCEPT !.at = "legacy", !.len = least(req.count, left)]
             /\ SendToTarget(streamFrame)

LegacyReply ==
    /\ takes("legacy")
    /\ LET reply == Head(toHost) IN
         \/ /\ reply = Ack
            /\ sadie' = [sadie EXCEPT !.at = "command", !.pos = @ + sadie.len, !.len = 0]
            /\ UNCHANGED toTarget
         \/ reply = Nak /\ UNCHANGED sadie /\ SendToTarget(streamFrame)
         \/ reply \notin {Ack, Nak} /\ raises

(***************************************************************************)
(* Records.                                                                *)
(***************************************************************************)
addressable(req) == req.tape \in DOMAIN Records /\ req.record <= Len(Records[req.tape])

Position ==
    /\ takes("command")
    /\ Head(toHost).type = "position"
    /\ LET req == Head(toHost) IN
         \/ ~(req.ok /\ addressable(req)) /\ refuses
         \/ /\ req.ok /\ addressable(req)
            /\ sadie' = [sadie EXCEPT !.tape = req.tape, !.record = req.record, !.stream = Unset]
            /\ SendToTarget(Ack)

\* serve_record_read(): the record counts as read before it is sent.
RecordRead ==
    /\ takes("command")
    /\ Head(toHost).type = "read1" /\ sadie.stream = Unset
    /\ LET req == Head(toHost)
           valid == sadie.tape # Unset /\ req.count > 0 /\ req.ok
           records == Records[sadie.tape]
           len == least(req.count, records[sadie.record + 1])
       IN \/ ~valid /\ refuses
          \/ /\ valid /\ sadie.record = Len(records)
             /\ sadie' = [sadie EXCEPT !.at = "eof"]
             /\ SendToTarget(Eot)
          \/ /\ valid /\ sadie.record # Len(records)
             /\ sadie' = [sadie EXCEPT !.at = "crc", !.record = @ + 1, !.len = len, !.index = 0]
             /\ SendToTarget(HeaderFrame(len))

\* xmodem_packet() of the record before self.record
recordPacket(index) ==
    BlockFrame((index \div BlockSize + 1) % BlockMod, <<sadie.tape, sadie.record - 1>>, index)

CrcRequested ==
    /\ takes("crc")
    /\ \/ /\ Head(toHost) = CrcRequest
          /\ sadie' = [sadie EXCEPT !.at = "packet"]
          /\ SendToTarget(recordPacket(0))
       \/ Head(toHost) # CrcRequest /\ raises

PacketReplied ==
    /\ takes("packet")
    /\ LET reply == Head(toHost)
           next == sadie.index + BlockSize
       IN \/ reply = Trace /\ UNCHANGED <<toTarget, sadie>>
          \/ /\ reply = Ack /\ next < sadie.len
             /\ sadie' = [sadie EXCEPT !.index = next]
             /\ SendToTarget(recordPacket(next))
          \/ /\ reply = Ack /\ next >= sadie.len
             /\ sadie' = [sadie EXCEPT !.at = "eot"]
             /\ SendToTarget(Eot)
          \/ reply = Nak /\ SendToTarget(recordPacket(sadie.index)) /\ UNCHANGED sadie
          \/ reply \notin {Trace, Ack, Nak} /\ raises

\* EOT at the end of a record or of a file is sent once.
EndReplied ==
    /\ takes("eot") \/ takes("eof")
    /\ \/ /\ Head(toHost) = Ack
          /\ sadie' = [sadie EXCEPT !.at = "command", !.len = 0, !.index = 0]
          /\ UNCHANGED toTarget
       \/ Head(toHost) # Ack /\ raises

(***************************************************************************)
(* CAN and other bytes, and the end of the process.                        *)
(***************************************************************************)
Forget ==
    /\ takes("command")
    /\ Head(toHost) = Can
    /\ sadie' = [sadie EXCEPT !.stream = Unset, !.tape = Unset, !.record = 0]
    /\ UNCHANGED toTarget

OtherByte ==
    /\ takes("command")
    /\ ~IsRequest(Head(toHost)) /\ Head(toHost) # Can
    /\ UNCHANGED <<toTarget, sadie>>

Ended == takes("dead") /\ UNCHANGED <<toTarget, sadie>>

SadieStep ==
    \/ LegacyOpen \/ LegacyRead \/ LegacyReply \/ Position \/ RecordRead
    \/ CrcRequested \/ PacketReplied \/ EndReplied \/ Forget \/ OtherByte \/ Ended
=============================================================================
