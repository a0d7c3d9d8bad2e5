------------------------------ MODULE TapeHost ------------------------------
(***************************************************************************)
(* TapeServer against any client at all: whatever well-formed or damaged   *)
(* frames arrive, in whatever order.  Only the framing is assumed to agree *)
(* with the version the file was opened with, since the length of a read   *)
(* request depends on it.                                                  *)
(***************************************************************************)
EXTENDS TapeServer

CONSTANTS
    ReqFiles,       \* file numbers in open requests, valid or not
    ReqOffsets,     \* i_offset values in read requests
    ReqCounts,      \* counts in read and space requests
    ReqVersions     \* protocol versions in open requests

ASSUME ClientAssumption ==
    /\ ReqFiles \subseteq Nat
    /\ ReqOffsets \subseteq 0..(SeqMod - 1)
    /\ ReqCounts \subseteq Nat
    /\ ReqVersions \subseteq Nat

hostVars == <<toHost, toTarget, faults, serverState>>

\* Requests, intact or with a wrong XOR byte.
OpenRequests ==
    [type : {"open"}, version : ReqVersions, file : ReqFiles, ok : BOOLEAN]
ReadRequests ==
    [type : {"read"}, offset : ReqOffsets, count : ReqCounts, ok : BOOLEAN, short : {0}]
ShortReadRequests ==
    [type : {"read"}, offset : ReqOffsets, count : ReqCounts, ok : {FALSE}, short : {1}]
LegacyReadRequests == [type : {"read1"}, count : ReqCounts, ok : BOOLEAN]
SpaceRequests == [type : {"space"}, count : ReqCounts, ok : BOOLEAN]

ClientFrames ==
    {Ack, Nak, Can, Eot, Noise} \cup OpenRequests \cup ReadRequests
    \cup ShortReadRequests \cup LegacyReadRequests \cup SpaceRequests

\* A client sends a frame when the previous one has been read, and takes what
\* the server sends as it comes.
ClientSends ==
    /\ toHost = <<>>
    /\ \E frame \in ClientFrames :
         /\ frame.type = "read" => file = None \/ ~legacy
         /\ frame.type = "read1" => file = None \/ legacy
         /\ SendToHost(frame)
    /\ toTarget' = <<>>
    /\ UNCHANGED <<faults, serverState>>

Init == LineInit /\ ServerInit

Next == ClientSends \/ (ServerStep /\ UNCHANGED faults)

Spec == Init /\ [][Next]_hostVars

(***************************************************************************)
(* Properties.                                                             *)
(***************************************************************************)

\* Every variable of the server has a value of its kind.
HostTypeOK ==
    /\ srv \in {"command", "partial", "block", "eot", "packet", "dead"}
    /\ file \in Files \cup {None}
    /\ version \in {1, XMODEM_VERSION}
    /\ position \in Nat
    /\ sequence \in (0..(SeqMod - 1)) \cup {None}
    /\ pendCount \in Nat \cup {None}
    /\ pendLen \in Nat
    /\ index \in Nat

\* The pending payload lies inside the selected file, and a transfer in
\* progress sends a block of it: whatever the client asks for, committing it
\* cannot carry position past the end of the file, and no packet reads beyond
\* the payload.
PendingInFile ==
    /\ file = None => position = 0 /\ pendLen = 0
    /\ file # None => position + pendLen <= FileLen[file]
    /\ srv = "block" => index + BlockSize <= pendLen
    /\ srv = "packet" => position + index <= FileLen[file]

\* position moves in one of three ways only: back to 0 for a newly selected
\* file or a close, over exactly the pending payload when the following
\* i_offset arrives, or over exactly the acknowledged version-1 packet.
NoGap ==
    [][position' # position =>
         \/ position' = 0 /\ sequence' = None
         \/ position' = position + pendLen /\ sequence' = successor(sequence)
         \/ srv = "packet" /\ position' = position + index]_hostVars

\* As long as the same i_offset is repeated, the payload stays the same: a
\* retry of a read is answered with the bytes of the first attempt.
RetryIdempotent ==
    [][sequence' = sequence /\ sequence # None =>
         UNCHANGED <<file, position, pendCount, pendLen>>]_hostVars
=============================================================================
