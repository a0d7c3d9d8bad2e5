----------------------------- MODULE TapeDevice -----------------------------
(***************************************************************************)
(* What the serial replacement promises to the standalone programs: a tape *)
(* with one selected logical file, whose bytes a program reads in order    *)
(* without gap, repeat or mix-up.  A call may fail; only a read repeated   *)
(* with its i_offset returns again what it returned before.                *)
(***************************************************************************)
EXTENDS Integers

CONSTANTS
    Files,          \* logical files
    FileLen,        \* FileLen[f]: length in bytes
    BlockSize       \* reads return whole blocks of this many bytes

VARIABLES
    file,           \* selected file, -1 when none is open
    cursor,         \* bytes of it the program has been given
    chunk           \* what the last read that returned data returned, and its i_offset

vars == <<file, cursor, chunk>>

NoChunk == [file |-> -1, from |-> 0, len |-> 0, offset |-> 0]

Init == file = -1 /\ cursor = 0 /\ chunk = NoChunk

Select == file' \in Files \cup {-1} /\ cursor' = 0 /\ UNCHANGED chunk

ReadNext ==
    \E n \in 1..(FileLen[file] - cursor) :
        /\ n % BlockSize = 0
        /\ cursor' = cursor + n
        /\ chunk'.offset \in Nat
        /\ cursor = 0 \/ chunk'.offset # chunk.offset
        /\ chunk' = [file |-> file, from |-> cursor, len |-> n, offset |-> chunk'.offset]
        /\ UNCHANGED file

Next == Select \/ (file # -1 /\ ReadNext)

Spec == Init /\ [][Next]_vars
=============================================================================
