--------------------------- MODULE TapeHostProofs ---------------------------
(***************************************************************************)
(* Proofs about TapeServer against an arbitrary client, for every tape,    *)
(* every block size and every range of requests.                           *)
(***************************************************************************)
EXTENDS TapeHost, TLAPS

(***************************************************************************)
(* Arithmetic of whole blocks.                                             *)
(***************************************************************************)

\* Division with remainder.
LEMMA DivMod ==
    \A b \in Nat \ {0}, n \in Nat :
        n = b * (n \div b) + (n % b) /\ n \div b \in Nat
  OBVIOUS

\* Multiples of b that differ, differ by at least b.
LEMMA NextMultiple ==
    \A b \in Nat \ {0}, j, k \in Nat : j * b < k * b => j * b + b <= k * b
  OBVIOUS

\* If a block starts inside a payload of whole blocks, all of it is inside.
LEMMA BlockFits ==
    \A b \in Nat \ {0}, i, n \in Nat :
        n % b = 0 /\ i % b = 0 /\ i < n => i + b <= n
<1> SUFFICES ASSUME NEW b \in Nat \ {0}, NEW i \in Nat, NEW n \in Nat,
                    n % b = 0, i % b = 0, i < n
             PROVE  i + b <= n
  OBVIOUS
<1> DEFINE p == i \div b
           q == n \div b
<1>1. p \in Nat /\ q \in Nat /\ i = p * b /\ n = q * b
  BY DivMod
<1> HIDE DEF p, q
<1> QED BY <1>1, NextMultiple

\* The block after a block boundary starts at a block boundary.
LEMMA NextBoundary ==
    \A b \in Nat \ {0}, i \in Nat : i % b = 0 => (i + b) % b = 0
<1> SUFFICES ASSUME NEW b \in Nat \ {0}, NEW i \in Nat, i % b = 0
             PROVE  (i + b) % b = 0
  OBVIOUS
<1> DEFINE p == i \div b
           q == (i + b) \div b
           r == (i + b) % b
<1>1. i = b * p /\ p \in Nat
  BY DivMod
<1>2. i + b = b * q + r /\ q \in Nat
  BY DivMod
<1>3. r \in 0..(b - 1)
  OBVIOUS
<1> HIDE DEF p, q, r
<1>4. r = b * (p + 1 - q)
  BY <1>1, <1>2, <1>3
<1>5. r = 0
  BY <1>1, <1>2, <1>3, <1>4
<1> QED BY <1>5 DEF r

(***************************************************************************)
(* What the server may rely on in a frame of the client.                   *)
(***************************************************************************)

\* The fields of each kind of request.
LEMMA FrameFields ==
    ASSUME NEW fr \in ClientFrames
    PROVE  /\ fr.type = "read" =>
                fr.offset \in 0..(SeqMod - 1) /\ fr.count \in Nat /\ fr.short \in {0, 1}
           /\ fr.type = "read1" => fr.count \in Nat
           /\ fr.type = "space" => fr.count \in Nat
<1>1. CASE fr \in {Ack, Nak, Can, Eot, Noise}
  BY <1>1 DEF Ack, Nak, Can, Eot, Noise, Byte
<1>2. CASE fr \in OpenRequests \cup SpaceRequests \cup LegacyReadRequests
  BY <1>2, ClientAssumption DEF OpenRequests, SpaceRequests, LegacyReadRequests
<1>3. CASE fr \in ReadRequests \cup ShortReadRequests
  BY <1>3, ClientAssumption DEF ReadRequests, ShortReadRequests
<1> QED
  BY <1>1, <1>2, <1>3 DEF ClientFrames

(***************************************************************************)
(* The inductive invariant.  PendingInFile is not inductive by itself: a   *)
(* version-1 packet moves position without looking at the pending payload, *)
(* which must therefore be empty; the next block fits only because payload *)
(* and packet_index are whole numbers of blocks.                           *)
(***************************************************************************)
HostInv ==
    /\ HostTypeOK
    /\ PendingInFile
    /\ toHost \in Seq(ClientFrames)
    /\ file # None /\ legacy => pendLen = 0 /\ sequence = None
    /\ srv = "packet" => file # None /\ legacy
    /\ srv = "block" => index % BlockSize = 0 /\ pendLen % BlockSize = 0

\* The server starts in the invariant.
LEMMA InitInv == Init => HostInv
<1> SUFFICES ASSUME Init PROVE HostInv
  OBVIOUS
<1>1. toHost \in Seq(ClientFrames)
  BY DEF Init, LineInit
<1> QED
  BY <1>1, ServerAssumption
  DEF Init, ServerInit, HostInv, HostTypeOK, PendingInFile, legacy, None, XMODEM_VERSION

(***************************************************************************)
(* Parts shared by the steps.                                              *)
(***************************************************************************)

\* Reading a frame leaves a sequence of client frames, and what was read is
\* one of them.
LEMMA ReadsFrame ==
    ASSUME HostInv, HostReads
    PROVE  Head(toHost) \in ClientFrames /\ toHost' \in Seq(ClientFrames)
  BY DEF HostInv, HostReads

\* A slice of the selected file lies inside the file.
LEMMA SliceInFile ==
    ASSUME HostTypeOK, file # None,
           NEW pos \in Nat, pos <= FileLen[file], NEW n \in Nat
    PROVE  SliceLen(pos, n) \in Nat /\ pos + SliceLen(pos, n) <= FileLen[file]
<1>1. FileLen[file] \in Nat
  BY ServerAssumption DEF HostTypeOK
<1> QED
  BY <1>1 DEF SliceLen, Smaller

\* The first block of a payload that is sent at all fits into it.
LEMMA StartInside ==
    ASSUME NEW len \in Nat, NEW pos \in Nat, startTransfer(pos, len)
    PROVE  /\ srv' \in {"dead", "eot", "block"}
           /\ index' = 0
           /\ srv' = "block" => /\ index' + BlockSize <= len
                               /\ index' % BlockSize = 0
                               /\ len % BlockSize = 0
<1>1. 0 % BlockSize = 0
  BY LineAssumption
<1> QED
  BY <1>1, LineAssumption, BlockFits DEF startTransfer

\* A step that changes nothing of the server but reads a frame.
LEMMA UnchangedInv ==
    ASSUME HostInv, UNCHANGED serverState, toHost' \in Seq(ClientFrames)
    PROVE  HostInv'
  BY DEF HostInv, HostTypeOK, PendingInFile, legacy, serverState

(***************************************************************************)
(* One lemma per action.                                                   *)
(***************************************************************************)

\* Selecting a file, or refusing to, keeps the invariant.
LEMMA OpenInv == HostInv /\ Open => HostInv'
<1> SUFFICES ASSUME HostInv, Open PROVE HostInv'
  OBVIOUS
<1>1. toHost' \in Seq(ClientFrames)
  BY ReadsFrame DEF Open, command
<1>2. CASE Refuse
  BY <1>1, <1>2, UnchangedInv DEF Refuse
<1>3. CASE /\ validOpen(Head(toHost))
           /\ file' = Head(toHost).file
           /\ version' = Head(toHost).version
           /\ forgetPending
           /\ UNCHANGED <<srv, index>>
  <2>1. file' \in Files /\ version' \in {1, XMODEM_VERSION} /\ srv = "command"
    BY <1>3 DEF validOpen, Open, command
  <2>2. FileLen[file'] \in Nat /\ file' # None
    BY <2>1, ServerAssumption DEF Files, None
  <2> QED
    BY <1>1, <1>3, <2>1, <2>2
    DEF HostInv, HostTypeOK, PendingInFile, forgetPending, legacy, None
<1> QED
  BY <1>2, <1>3 DEF Open

\* Spacing forward over files keeps it.
LEMMA SpaceInv == HostInv /\ Space => HostInv'
<1> SUFFICES ASSUME HostInv, Space PROVE HostInv'
  OBVIOUS
<1>1. toHost' \in Seq(ClientFrames)
  BY ReadsFrame DEF Space, command
<1>2. CASE Refuse
  BY <1>1, <1>2, UnchangedInv DEF Refuse
<1>3. CASE /\ file' = file + Head(toHost).count
           /\ file + Head(toHost).count \in Files
           /\ forgetPending
           /\ UNCHANGED <<srv, version, index>>
  <2>1. FileLen[file'] \in Nat /\ file' # None /\ srv = "command"
    BY <1>3, ServerAssumption DEF Files, None, Space, command
  <2> QED
    BY <1>1, <1>3, <2>1
    DEF HostInv, HostTypeOK, PendingInFile, forgetPending, legacy, None
<1> QED
  BY <1>2, <1>3 DEF Space

\* Closing the file keeps it.
LEMMA CloseInv == HostInv /\ Close => HostInv'
<1> SUFFICES ASSUME HostInv, Close PROVE HostInv'
  OBVIOUS
<1>1. toHost' \in Seq(ClientFrames)
  BY ReadsFrame DEF Close, command
<1> QED
  BY <1>1
  DEF Close, command, HostInv, HostTypeOK, PendingInFile, forgetPending, legacy, None

\* Taking a new payload at pos, a position inside the file.
LEMMA TakeInv ==
    ASSUME HostInv, file # None, ~legacy, NEW req \in ClientFrames, req.type = "read",
           NEW pos \in Nat, pos <= FileLen[file], takePending(req, pos),
           UNCHANGED <<file, version>>, toHost' \in Seq(ClientFrames)
    PROVE  HostInv'
<1> DEFINE len == SliceLen(pos, req.count)
<1>1. req.offset \in 0..(SeqMod - 1) /\ req.count \in Nat
  BY FrameFields
<1>2. len \in Nat /\ pos + len <= FileLen[file]
  BY <1>1, SliceInFile DEF HostInv
<1>3. /\ srv' \in {"dead", "eot", "block"}
      /\ index' = 0
      /\ srv' = "block" => /\ index' + BlockSize <= len
                          /\ index' % BlockSize = 0
                          /\ len % BlockSize = 0
  BY <1>2, StartInside DEF takePending
<1>4. /\ sequence' = req.offset /\ pendCount' = req.count
      /\ position' = pos /\ pendLen' = len
  BY DEF takePending
<1> HIDE DEF len
<1> QED
  BY <1>1, <1>2, <1>3, <1>4 DEF HostInv, HostTypeOK, PendingInFile, legacy, None

\* A version-3 read request keeps it, whichever sequence number it has.
LEMMA ReadInv == HostInv /\ Read => HostInv'
<1> SUFFICES ASSUME HostInv, Read PROVE HostInv'
  OBVIOUS
<1> DEFINE req == Head(toHost)
<1>1. req \in ClientFrames /\ toHost' \in Seq(ClientFrames)
  BY ReadsFrame DEF Read, command
<1>2. req.type = "read" /\ srv = "command"
  BY DEF Read, command
<1>3. CASE Refuse
  BY <1>1, <1>3, UnchangedInv DEF Refuse
<1>4. CASE /\ srv' = "partial"
           /\ UNCHANGED <<toTarget, file, version, position, sequence, pendCount, pendLen, index>>
  BY <1>1, <1>4 DEF HostInv, HostTypeOK, PendingInFile, legacy
<1>5. CASE file # None /\ ~legacy /\ takePending(req, position) /\ UNCHANGED <<file, version>>
  <2>1. position \in Nat /\ position <= FileLen[file]
    BY <1>5, ServerAssumption DEF HostInv, HostTypeOK, PendingInFile
  <2> QED
    BY <1>1, <1>2, <1>5, <2>1, TakeInv
<1>6. CASE /\ file # None /\ ~legacy /\ takePending(req, position + pendLen)
           /\ UNCHANGED <<file, version>>
  <2>1. position + pendLen \in Nat /\ position + pendLen <= FileLen[file]
    BY <1>6 DEF HostInv, HostTypeOK, PendingInFile
  <2> QED
    BY <1>1, <1>2, <1>6, <2>1, TakeInv
<1>7. CASE /\ startTransfer(position, pendLen)
           /\ UNCHANGED <<position, sequence, pendCount, pendLen>>
           /\ UNCHANGED <<file, version>>
  <2>1. /\ srv' \in {"dead", "eot", "block"}
        /\ index' = 0
        /\ srv' = "block" => /\ index' + BlockSize <= pendLen
                            /\ index' % BlockSize = 0
                            /\ pendLen % BlockSize = 0
    BY <1>7, StartInside DEF HostInv, HostTypeOK
  <2> QED
    BY <1>1, <1>7, <2>1 DEF HostInv, HostTypeOK, PendingInFile, legacy
<1> QED
  BY <1>3, <1>4, <1>5, <1>6, <1>7 DEF Read

\* A request completed by a foreign byte keeps it.
LEMMA PartialInv == HostInv /\ Partial => HostInv'
<1> SUFFICES ASSUME HostInv, Partial PROVE HostInv'
  OBVIOUS
<1>1. toHost' \in Seq(ClientFrames)
  BY ReadsFrame DEF Partial
<1> QED
  BY <1>1 DEF Partial, HostInv, HostTypeOK, PendingInFile, legacy

\* A reply to a block keeps it: the next block still lies in the payload.
LEMMA BlockReplyInv == HostInv /\ BlockReply => HostInv'
<1> SUFFICES ASSUME HostInv, BlockReply PROVE HostInv'
  OBVIOUS
<1>1. toHost' \in Seq(ClientFrames)
  BY ReadsFrame DEF BlockReply
<1>2. /\ srv = "block" /\ UNCHANGED <<file, version, position, sequence, pendCount, pendLen>>
      /\ index % BlockSize = 0 /\ pendLen % BlockSize = 0
      /\ index \in Nat /\ pendLen \in Nat
  BY DEF BlockReply, HostInv, HostTypeOK
<1>3. CASE index' = index + BlockSize /\ ~lastBlock /\ srv' = srv
  <2>1. index' < pendLen /\ index' \in Nat
    BY <1>2, <1>3, LineAssumption DEF lastBlock
  <2>2. index' % BlockSize = 0
    BY <1>2, <1>3, LineAssumption, NextBoundary
  <2>3. index' + BlockSize <= pendLen
    BY <1>2, <2>1, <2>2, LineAssumption, BlockFits
  <2> QED
    BY <1>1, <1>2, <1>3, <2>1, <2>2, <2>3 DEF HostInv, HostTypeOK, PendingInFile, legacy
<1>4. CASE srv' \in {"block", "eot", "dead"} /\ index' = index
  BY <1>1, <1>2, <1>4 DEF HostInv, HostTypeOK, PendingInFile, legacy
<1> QED
  BY <1>2, <1>3, <1>4 DEF BlockReply, die

\* A reply to EOT keeps it.
LEMMA EotReplyInv == HostInv /\ EotReply => HostInv'
<1> SUFFICES ASSUME HostInv, EotReply PROVE HostInv'
  OBVIOUS
<1>1. toHost' \in Seq(ClientFrames)
  BY ReadsFrame DEF EotReply
<1>2. srv = "eot" /\ srv' \in {"command", "eot", "dead"} /\ index' = index
  BY DEF EotReply, die
<1> QED
  BY <1>1, <1>2 DEF EotReply, HostInv, HostTypeOK, PendingInFile, legacy

\* A version-1 read request keeps it.
LEMMA ReadLegacyInv == HostInv /\ ReadLegacy => HostInv'
<1> SUFFICES ASSUME HostInv, ReadLegacy PROVE HostInv'
  OBVIOUS
<1> DEFINE req == Head(toHost)
           len == SliceLen(position, req.count)
<1>1. req \in ClientFrames /\ toHost' \in Seq(ClientFrames)
  BY ReadsFrame DEF ReadLegacy, command
<1>2. req.count \in Nat /\ srv = "command"
  BY <1>1, FrameFields DEF ReadLegacy, command
<1>3. CASE Refuse
  BY <1>1, <1>3, UnchangedInv DEF Refuse
<1>4. CASE UNCHANGED <<srv, file, version, position, sequence, pendCount, pendLen, index>>
  BY <1>1, <1>4, UnchangedInv DEF serverState
<1>5. CASE /\ file # None /\ legacy /\ srv' = "packet" /\ index' = len
           /\ UNCHANGED <<file, version, position, sequence, pendCount, pendLen>>
  <2>1. position \in Nat /\ position <= FileLen[file]
    BY <1>5, ServerAssumption DEF HostInv, HostTypeOK, PendingInFile
  <2>2. len \in Nat /\ position + len <= FileLen[file]
    BY <1>2, <1>5, <2>1, SliceInFile DEF HostInv
  <2> HIDE DEF len
  <2> QED
    BY <1>1, <1>5, <2>2 DEF HostInv, HostTypeOK, PendingInFile, legacy
<1> QED
  BY <1>3, <1>4, <1>5 DEF ReadLegacy

\* A reply to a version-1 packet keeps it.
LEMMA PacketReplyInv == HostInv /\ PacketReply => HostInv'
<1> SUFFICES ASSUME HostInv, PacketReply PROVE HostInv'
  OBVIOUS
<1>1. toHost' \in Seq(ClientFrames)
  BY ReadsFrame DEF PacketReply
<1>2. /\ srv = "packet" /\ UNCHANGED <<file, version, sequence, pendCount, pendLen>>
      /\ file # None /\ legacy /\ pendLen = 0 /\ sequence = None
      /\ position + index <= FileLen[file]
  BY DEF PacketReply, HostInv, PendingInFile
<1>3. CASE srv' = "command" /\ position' = position + index /\ index' = 0
  BY <1>1, <1>2, <1>3 DEF HostInv, HostTypeOK, PendingInFile, legacy
<1>4. CASE srv' \in {"packet", "dead"} /\ UNCHANGED <<position, index>>
  BY <1>1, <1>2, <1>4 DEF HostInv, HostTypeOK, PendingInFile, legacy
<1> QED
  BY <1>2, <1>3, <1>4 DEF PacketReply, die

\* The client's steps keep it.
LEMMA ClientSendsInv == HostInv /\ ClientSends => HostInv'
<1> SUFFICES ASSUME HostInv, ClientSends PROVE HostInv'
  OBVIOUS
<1>1. toHost' \in Seq(ClientFrames)
  BY DEF ClientSends, SendToHost, HostInv
<1> QED
  BY <1>1, UnchangedInv DEF ClientSends, serverState

\* Every step keeps the invariant.
LEMMA NextInv == HostInv /\ [Next]_hostVars => HostInv'
<1> SUFFICES ASSUME HostInv, [Next]_hostVars PROVE HostInv'
  OBVIOUS
<1>1. CASE Ignore \/ Gone
  BY <1>1, ReadsFrame, UnchangedInv DEF Ignore, Gone
<1>2. CASE UNCHANGED hostVars
  BY <1>2, UnchangedInv DEF hostVars, HostInv
<1> QED
  BY <1>1, <1>2, OpenInv, SpaceInv, CloseInv, ReadInv, PartialInv, BlockReplyInv,
     EotReplyInv, ReadLegacyInv, PacketReplyInv, ClientSendsInv
  DEF Next, ServerStep

(***************************************************************************)
(* The theorems.                                                           *)
(***************************************************************************)

\* Whatever the client sends, the server's variables keep their types.
THEOREM HostTypeCorrect == Spec => []HostTypeOK
<1>1. HostInv => HostTypeOK
  BY DEF HostInv
<1> QED
  BY <1>1, InitInv, NextInv, PTL DEF Spec

\* Whatever the client sends, the pending payload lies inside the selected
\* file and every block that is sent lies inside the payload.
THEOREM PendingInFileHolds == Spec => []PendingInFile
<1>1. HostInv => PendingInFile
  BY DEF HostInv
<1> QED
  BY <1>1, InitInv, NextInv, PTL DEF Spec

\* Whatever the client sends, the server moves through a file only over whole
\* payloads, each when the i_offset after it arrives, or over acknowledged
\* version-1 packets: no byte of a file is ever passed over.
THEOREM NoGapHolds == Spec => NoGap
<1> DEFINE Moves == position' # position =>
                      \/ position' = 0 /\ sequence' = None
                      \/ position' = position + pendLen /\ sequence' = successor(sequence)
                      \/ srv = "packet" /\ position' = position + index
<1>1. ASSUME HostInv, [Next]_hostVars PROVE [Moves]_hostVars
  <2>1. CASE Open \/ Space \/ Close
    BY <2>1 DEF Open, Space, Close, Refuse, forgetPending, serverState
  <2>2. CASE Read
    BY <2>2 DEF Read, Refuse, takePending, serverState, startTransfer
  <2>3. CASE PacketReply
    BY <2>3 DEF PacketReply
  <2>4. CASE \/ Partial \/ BlockReply \/ EotReply \/ ReadLegacy \/ Ignore \/ Gone \/ ClientSends
    BY <2>4 DEF Partial, BlockReply, EotReply, ReadLegacy, Ignore, Gone, ClientSends,
                Refuse, serverState
  <2>5. CASE UNCHANGED hostVars
    BY <2>5
  <2> QED
    BY <1>1, <2>1, <2>2, <2>3, <2>4, <2>5 DEF Next, ServerStep
<1> QED
  BY <1>1, InitInv, NextInv, PTL DEF Spec, NoGap

\* Whatever the client sends, a repeated i_offset is answered from an
\* unchanged payload of an unchanged file.
THEOREM RetryIdempotentHolds == Spec => RetryIdempotent
<1> DEFINE Same == sequence' = sequence /\ sequence # None =>
                     UNCHANGED <<file, position, pendCount, pendLen>>
<1>1. ASSUME HostInv, [Next]_hostVars PROVE [Same]_hostVars
  <2>1. CASE Open \/ Space \/ Close
    BY <2>1 DEF Open, Space, Close, Refuse, forgetPending, serverState
  <2>2. CASE Read
    BY <2>2 DEF Read, Refuse, takePending, serverState, startTransfer
  <2>3. CASE PacketReply
    BY <1>1, <2>3 DEF PacketReply, HostInv
  <2>4. CASE \/ Partial \/ BlockReply \/ EotReply \/ ReadLegacy \/ Ignore \/ Gone \/ ClientSends
    BY <2>4 DEF Partial, BlockReply, EotReply, ReadLegacy, Ignore, Gone, ClientSends,
                Refuse, serverState
  <2>5. CASE UNCHANGED hostVars
    BY <2>5 DEF hostVars, serverState
  <2> QED
    BY <1>1, <2>1, <2>2, <2>3, <2>4, <2>5 DEF Next, ServerStep
<1> QED
  BY <1>1, InitInv, NextInv, PTL DEF Spec, RetryIdempotent
=============================================================================
