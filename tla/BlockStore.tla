----------------------------- MODULE BlockStore -----------------------------
(***************************************************************************)
(* What the V7 buffer cache promises to the file system above it: a disk   *)
(* whose blocks read back as they were last written, although a write      *)
(* reaches the medium later, is lost if the device refuses it, and does    *)
(* not survive a crash unless it has reached the medium.                   *)
(***************************************************************************)
CONSTANTS Blocks, Data

VARIABLES
    content,        \* what each block reads as
    disk            \* what the medium holds

vars == <<content, disk>>

Init == content \in [Blocks -> Data] /\ disk = content

Write(b) ==
    \E v \in Data : /\ content' = [content EXCEPT ![b] = v]
                    /\ disk' \in {disk, [disk EXCEPT ![b] = v]}

WriteBack(b) == disk' = [disk EXCEPT ![b] = content[b]] /\ UNCHANGED content

Refused(b) == content' = [content EXCEPT ![b] = disk[b]] /\ UNCHANGED disk

Crash == content' = disk /\ UNCHANGED disk

Next == Crash \/ \E b \in Blocks : Write(b) \/ WriteBack(b) \/ Refused(b)

Spec == Init /\ [][Next]_vars
=============================================================================
