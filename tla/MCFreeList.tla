----------------------------- MODULE MCFreeList -----------------------------
(***************************************************************************)
(* Groups of two over a small disk; and mkfs over all small arguments.  A  *)
(* block that a file has used holds data that looks like a group of blocks *)
(* in the i-list.                                                          *)
(***************************************************************************)
EXTENDS FreeList, Mkfs

FalseGroups ==
    {[n |-> NICFREE, f |-> [i \in 0..(NICFREE - 1) |-> ISize - i]]}

\* mkfs is about to build its list.
Starts == next = 1

\* The free list of a new file system names every data block once, whatever
\* the interleave, also when it does not divide the group or exceeds it; only
\* the last block of the file system is never free when the interleave divides
\* that block's number.
ListsDataBlocks ==
    Starts => \A a \in Accepted :
        LET made == mkfs(a)
            last == IF (a.fssize - 1) % fn(a) = 0 THEN a.fssize - 2 ELSE a.fssize - 1
        IN /\ {made.list[i] : i \in DOMAIN made.list} = made.first..last
           /\ Len(made.list) = last - made.first + 1
=============================================================================
