------------------------------ MODULE ByteFile ------------------------------
(***************************************************************************)
(* What read, write, truncate and seek promise: a file is an array of      *)
(* bytes, zero where nothing was written, with a size and a position.  A   *)
(* call that reports success has done all it was asked for; a write that   *)
(* reports an error has stored a prefix, which may be shorter than the     *)
(* distance the position has moved.                                        *)
(***************************************************************************)
EXTENDS Integers, Sequences

CONSTANTS
    Files,
    MaxOffset,      \* the last position a descriptor can be moved to
    Data,           \* what programs write
    Totals          \* how many bytes they read

VARIABLES
    text,           \* the bytes of each file
    size,           \* its size
    offset,         \* the position of its descriptor
    res             \* result of the last call

vars == <<text, size, offset, res>>

Init ==
    /\ \A f \in Files : \A p \in DOMAIN text[f] : text[f][p] = 0
    /\ size = [f \in Files |-> 0]
    /\ offset = [f \in Files |-> 0]
    /\ res = [error |-> "ok", data |-> <<>>]

succeeds == res'.error = "ok"

Write(f, data) ==
    \E moved \in 0..Len(data) : \E stored \in 0..moved :
        /\ succeeds => stored = Len(data)
        /\ text' = [text EXCEPT ![f] = [p \in DOMAIN @ |->
               IF p \in offset[f]..(offset[f] + stored - 1) THEN data[p - offset[f] + 1] ELSE @[p]]]
        /\ size' = [size EXCEPT ![f] =
               IF moved > 0 /\ offset[f] + moved > @ THEN offset[f] + moved ELSE @]
        /\ offset' = [offset EXCEPT ![f] = @ + moved]
        /\ res'.data = <<>>

\* How much a read of this many bytes returns.
left(f, total) ==
    IF offset[f] >= size[f] THEN 0
    ELSE IF offset[f] + total > size[f] THEN size[f] - offset[f] ELSE total

Read(f, total) ==
    /\ UNCHANGED <<text, size>>
    /\ \/ /\ succeeds
          /\ Len(res'.data) = left(f, total)
          /\ \A i \in 1..left(f, total) :
                /\ offset[f] + i - 1 \in DOMAIN text[f]
                /\ res'.data[i] = text[f][offset[f] + i - 1]
          /\ offset' = [offset EXCEPT ![f] = @ + left(f, total)]
       \/ /\ ~succeeds
          /\ \E moved \in 0..total : offset' = [offset EXCEPT ![f] = @ + moved]

\* The file is empty also when an error is reported.
Truncate(f) ==
    /\ text' = [text EXCEPT ![f] = [p \in DOMAIN @ |-> 0]]
    /\ size' = [size EXCEPT ![f] = 0]
    /\ UNCHANGED offset

Seek(f) ==
    /\ succeeds
    /\ \E to \in 0..MaxOffset : offset' = [offset EXCEPT ![f] = to]
    /\ UNCHANGED <<text, size>>

Refuse == ~succeeds /\ UNCHANGED <<text, size, offset>>

Next ==
    \/ Refuse
    \/ \E f \in Files :
         \/ Seek(f) \/ Truncate(f)
         \/ \E data \in Data : Write(f, data)
         \/ \E total \in Totals : Read(f, total)

Spec == Init /\ [][Next]_vars
=============================================================================
