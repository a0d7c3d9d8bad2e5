---------------------------- MODULE SadieDriver -----------------------------
(***************************************************************************)
(* The tape routines that the SADIE executive is patched with:             *)
(* _sadie_position and _sadie_read of src/sadie_serial/sadie_tape_serial.s *)
(* with xmodem_receive.inc.  A block is received into a buffer on the      *)
(* stack and copied to its destination when it has been found good.  The   *)
(* other entries only return a constant.                                   *)
(***************************************************************************)
EXTENDS SerialLine

CONSTANTS
    MaxErrors       \* the limit rh3 is compared with (10)

ASSUME SadieDriverAssumption == MaxErrors \in Nat \ {0}

VARIABLES
    ct,             \* the call: at, count, remaining, left, recordLeft, block, errors, entry, r2
    memory          \* what the call has stored from its destination up

Idle == [at |-> "idle", count |-> 0, remaining |-> 0, left |-> 0, recordLeft |-> 0,
         block |-> 1, errors |-> 0, entry |-> "none", r2 |-> 0]

SadieDriverInit == ct = Idle /\ memory = <<>>

ends(r2) == [ct EXCEPT !.at = "idle", !.r2 = r2]

CallPosition(tape, record) ==
    /\ ct.at = "idle"
    /\ ct' = [Idle EXCEPT !.at = "position", !.entry = "position"]
    /\ SendToHost(PositionFrame(tape, record))
    /\ UNCHANGED <<toTarget, memory>>

PositionReply ==
    /\ ct.at = "position"
    /\ TargetReads
    /\ ct' = ends(IF Head(toTarget) = Ack THEN 0 ELSE -1)
    /\ UNCHANGED <<toHost, memory>>

\* .Lread_next, after the bytes in sent: another request, or success
readNext(c, sent) ==
    IF c.remaining = 0 \/ c.left = 0
    THEN ct' = [c EXCEPT !.at = "idle", !.r2 = 0] /\ toHost' = toHost \o sent
    ELSE ct' = [c EXCEPT !.at = "reply"] /\ toHost' = toHost \o sent \o <<LegacyReadFrame(c.remaining)>>

CallRead(records, count) ==
    /\ ct.at = "idle"
    /\ readNext([Idle EXCEPT !.entry = "read", !.count = count,
                             !.remaining = count, !.left = records], <<>>)
    /\ memory' = <<>>
    /\ UNCHANGED toTarget

\* The reply to 'R': EOT at the end of a file, or the header of a record.
ReadReply ==
    /\ ct.at = "reply"
    /\ TargetReads
    /\ LET frame == Head(toTarget) IN
         \/ frame = Eot /\ ct' = ends(0) /\ SendToHost(Ack)
         \/ /\ frame.type = "header" /\ frame.len <= ct.remaining
            /\ ct' = [ct EXCEPT !.at = "response", !.recordLeft = frame.len,
                                !.block = 1, !.errors = 0]
            /\ SendToHost(CrcRequest)
         \/ /\ frame.type = "header" => frame.len > ct.remaining
            /\ frame # Eot
            /\ ct' = ends(-1) /\ UNCHANGED toHost
    /\ UNCHANGED memory

(***************************************************************************)
(* .Lpacket_loop: what the first byte of a response leads to.              *)
(***************************************************************************)
\* .Lpacket_bad
badPacket ==
    ct' = IF ct.errors + 1 > MaxErrors THEN ends(-1)
          ELSE [ct EXCEPT !.at = "drain", !.errors = @ + 1]

before(n) == (n - 1) % BlockMod

\* .Lpacket_valid: the last block of a record is copied as far as the record
\* goes.
packetValid(frame) ==
    LET n == IF ct.recordLeft < BlockSize THEN ct.recordLeft ELSE BlockSize IN
    /\ memory' = memory \o [i \in 1..n |-> <<frame.file, frame.from + i - 1>>]
    /\ ct' = [ct EXCEPT !.recordLeft = @ - n, !.remaining = @ - n,
                        !.block = (@ + 1) % BlockMod, !.errors = 0]
    /\ toHost' = toHost \o <<Trace, Trace, Ack>>

PacketBlock ==
    /\ ct.at = "response"
    /\ TargetReads
    /\ Head(toTarget).type = "block"
    /\ LET frame == Head(toTarget) IN
         \/ frame.ok /\ frame.num = ct.block /\ packetValid(frame)
         \/ /\ frame.ok /\ frame.num = before(ct.block)
            /\ SendToHost(Ack)
            /\ ct' = [ct EXCEPT !.errors = 0]
            /\ UNCHANGED memory
         \/ /\ ~frame.ok \/ frame.num \notin {ct.block, before(ct.block)}
            /\ badPacket
            /\ UNCHANGED <<toHost, memory>>

\* .Lrecord_eot; a record that is not complete is not acknowledged.
PacketEot ==
    /\ ct.at = "response"
    /\ TargetReads
    /\ Head(toTarget) = Eot
    /\ \/ ct.recordLeft # 0 /\ ct' = ends(-1) /\ UNCHANGED toHost
       \/ ct.recordLeft = 0 /\ readNext([ct EXCEPT !.left = @ - 1], <<Ack>>)
    /\ UNCHANGED memory

PacketOther ==
    /\ ct.at = "response"
    /\ TargetReads
    /\ Head(toTarget).type # "block" /\ Head(toTarget) # Eot
    /\ IF Head(toTarget) = Can THEN ct' = ends(-1) ELSE badPacket
    /\ UNCHANGED <<toHost, memory>>

PacketDrain ==
    /\ ct.at = "drain"
    /\ TargetReads
    /\ UNCHANGED <<toHost, ct, memory>>

\* GETBYTE ran out of polls.
NoReply ==
    /\ toTarget = <<>>
    /\ \/ ct.at \in {"position", "reply"} /\ ct' = ends(-1) /\ UNCHANGED toHost
       \/ ct.at = "response" /\ badPacket /\ UNCHANGED toHost
       \/ ct.at = "drain" /\ ct' = [ct EXCEPT !.at = "response"] /\ SendToHost(Nak)
    /\ UNCHANGED <<toTarget, memory>>

SadieReceive ==
    PositionReply \/ ReadReply \/ PacketBlock \/ PacketEot \/ PacketOther \/ PacketDrain
=============================================================================
