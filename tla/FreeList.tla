------------------------------ MODULE FreeList ------------------------------
(***************************************************************************)
(* The free-block list of a V7 file system: alloc(), free(), badblock()    *)
(* and getfs() of alloc.c, the superblock part of update(), and the list   *)
(* that mkfs builds.  Up to NICFREE addresses are in the superblock; the   *)
(* first of them is a free block that holds the next group, or 0.          *)
(***************************************************************************)
EXTENDS Interleave, FiniteSets

CONSTANTS
    NICFREE,        \* addresses in a group
    ISize,          \* s_isize: the first data block
    FsSize,         \* s_fsize
    FN, FM,         \* interleave of the initial list
    MaxTfree,       \* bound on s_tfree, which a damaged list lets grow
    MaxFailures,    \* bound: transfers that the host fails
    Junk            \* what a block may hold that a file has used

ASSUME FreeListAssumption ==
    /\ NICFREE \in Nat \ {0}
    /\ ISize \in Nat \ {0} /\ FsSize \in Nat \ {0}
    /\ FN \in Nat \ {0} /\ FM \in Nat
    /\ MaxTfree \in Nat
    /\ MaxFailures \in Nat
    /\ Junk # {} /\ Junk \subseteq [n : Int, f : [0..(NICFREE - 1) -> Nat]]

Slots == 0..(NICFREE - 1)
Blocks == ISize..(FsSize - 1)
Empty == [i \in Slots |-> 0]

VARIABLES
    failed,         \* reads and writes that have failed so far
    nfree, sfree,   \* s_nfree and s_free of the superblock in core
    tfree,          \* s_tfree
    fmod,           \* s_fmod
    fblk,           \* what each data block holds, read as a struct fblk
    ondisk,         \* the superblock on the disk
    next,           \* the turn of initfreelist()
    pool, used,     \* history: blocks given to free(), and got from alloc()
    full            \* history: the last alloc() set ENOSPC

sb == <<nfree, sfree, tfree>>
vars == <<failed, sb, fmod, fblk, ondisk, next, pool, used, full>>

\* The blocks mkfs frees, in its order.
order == initfreelist(FsSize, ISize, FN, FM)

Init ==
    /\ failed = [read |-> 0, write |-> 0]
    /\ nfree = 0 /\ sfree = Empty /\ tfree = 0
    /\ fmod = TRUE
    /\ fblk \in [Blocks -> Junk]
    /\ ondisk = [nfree |-> 0, sfree |-> Empty, tfree |-> 0]
    /\ next = 1
    /\ pool = {} /\ used = {}
    /\ full = FALSE

\* MUTANT: the i-list is not protected.
badblock_high(b) == b >= FsSize

badblock(b) == b < ISize \/ b >= FsSize

\* getfs() zeroes the counts of a superblock that cannot be right.
getfs == IF nfree > NICFREE THEN 0 ELSE nfree

mayFail == failed.read + failed.write < MaxFailures

\* A write succeeds or is refused.
writes(ok) ==
    \/ ok = TRUE /\ UNCHANGED failed
    \/ ok = FALSE /\ mayFail /\ failed' = [failed EXCEPT !.write = @ + 1]

(***************************************************************************)
(* free(): the list of an empty superblock starts with the end mark; the   *)
(* group of a full one moves into the block.                               *)
(***************************************************************************)

opened ==
    IF getfs <= 0 THEN [n |-> 1, f |-> [sfree EXCEPT ![0] = 0]]
    ELSE [n |-> getfs, f |-> sfree]

crowded == opened.n >= NICFREE

free(b) ==
    /\ ~badblock(b)
    /\ \/ /\ crowded
          /\ \E ok \in BOOLEAN :
               /\ writes(ok)
               /\ fblk' = IF ok THEN [fblk EXCEPT ![b] = opened] ELSE fblk
          /\ nfree' = 1
          /\ sfree' = [opened.f EXCEPT ![0] = b]
       \/ /\ ~crowded
          /\ nfree' = opened.n + 1
          /\ sfree' = [opened.f EXCEPT ![opened.n] = b]
          /\ UNCHANGED <<fblk, failed>>
    /\ tfree' = tfree + 1
    /\ fmod' = TRUE
    /\ pool' = pool \cup {b}
    /\ used' = used \ {b}
    /\ UNCHANGED <<ondisk, full>>

Mounted == next > Len(order)

\* One turn of initfreelist().
InitFree ==
    /\ ~Mounted
    /\ free(order[next])
    /\ next' = next + 1

(***************************************************************************)
(* alloc().                                                                *)
(***************************************************************************)

\* The entry where the loop of alloc() stops, if there is one: the last that
\* is the end mark or a block of the data area.
stopsAt(k) ==
    /\ k < getfs /\ (sfree[k] = 0 \/ ~badblock(sfree[k]))
    /\ \A j \in Slots : j > k /\ j < getfs => sfree[j] # 0 /\ badblock(sfree[j])

nospace ==
    /\ nfree' = 0 /\ tfree' = 0
    /\ full' = TRUE
    /\ UNCHANGED <<fmod, pool, used>>

\* MUTANT: the last address of a group is handed out before its group is read.
isLast_unread(k) == FALSE

\* The entry is the first of its group.
isLast(k) == k = 0

\* alloc() returns b: the file fills it with data.
takes(b) ==
    /\ tfree' = IF tfree # 0 THEN tfree - 1 ELSE tfree
    /\ fmod' = TRUE
    /\ full' = FALSE
    /\ \E data \in Junk : fblk' = [fblk EXCEPT ![b] = data]
    /\ pool' = pool \ {b}
    /\ used' = used \cup {b}

\* MUTANT: the count is not stored.
left_kept(k) == nfree

\* The count when entry k is taken.
left(k) == k

AllocNone ==
    /\ \A k \in Slots : stopsAt(k) => sfree[k] = 0
    /\ nospace
    /\ UNCHANGED <<failed, sfree, fblk>>

AllocEntry ==
    /\ \E k \in Slots :
         /\ stopsAt(k) /\ sfree[k] # 0 /\ ~isLast(k)
         /\ nfree' = left(k)
         /\ takes(sfree[k])
    /\ UNCHANGED <<failed, sfree>>

\* The block's own group is read into the superblock.
AllocGroup ==
    /\ stopsAt(0) /\ sfree[0] # 0 /\ isLast(0)
    /\ LET group == fblk[sfree[0]] IN
         /\ sfree' = group.f
         /\ \/ /\ group.n > 0
               /\ nfree' = group.n
               /\ takes(sfree[0])
            \/ /\ group.n <= 0
               /\ nospace
               /\ UNCHANGED fblk
    /\ UNCHANGED failed

\* The read fails: the superblock is left without an entry.
AllocError ==
    /\ mayFail /\ failed' = [failed EXCEPT !.read = @ + 1]
    /\ stopsAt(0) /\ sfree[0] # 0 /\ isLast(0)
    /\ nospace
    /\ UNCHANGED <<sfree, fblk>>

Alloc ==
    /\ Mounted
    /\ AllocNone \/ AllocEntry \/ AllocGroup \/ AllocError
    /\ UNCHANGED <<ondisk, next>>

Free ==
    /\ Mounted /\ tfree < MaxTfree
    /\ \E b \in used : free(b)
    /\ UNCHANGED next

(***************************************************************************)
(* update() writes the superblock if it was modified; a shutdown does so   *)
(* and the next v7fs_init() reads it.                                      *)
(***************************************************************************)

written == IF fmod THEN [nfree |-> nfree, sfree |-> sfree, tfree |-> tfree] ELSE ondisk

Update ==
    /\ Mounted
    /\ \E ok \in BOOLEAN : writes(ok) /\ ondisk' = IF ok THEN written ELSE ondisk
    /\ fmod' = FALSE
    /\ UNCHANGED <<sb, fblk, next, pool, used, full>>

Remount ==
    /\ Mounted
    /\ ondisk' = written
    /\ nfree' = written.nfree /\ sfree' = written.sfree /\ tfree' = written.tfree
    /\ fmod' = FALSE
    /\ UNCHANGED <<failed, fblk, next, pool, used, full>>

Next == InitFree \/ Alloc \/ Free \/ Update \/ Remount

Spec == Init /\ [][Next]_vars

(***************************************************************************)
(* statfs() counts the free blocks by following the groups.                *)
(***************************************************************************)

\* MUTANT: the end mark is counted.
counted_mark(n, first) == IF n > 0 THEN n ELSE 0

counted(n, first) == IF n > 0 THEN (IF first # 0 THEN n ELSE n - 1) ELSE 0

bfree ==
    LET walk[k \in 0..FsSize] ==
            IF k = 0 THEN [n |-> nfree, first |-> sfree[0], sum |-> counted(nfree, sfree[0])]
            ELSE LET w == walk[k - 1]
                     g == fblk[w.first]
                 IN IF w.n = 0 \/ w.first = 0 THEN w
                    ELSE [n |-> g.n, first |-> g.f[0], sum |-> w.sum + counted(g.n, g.f[0])]
    IN walk[FsSize].sum

(***************************************************************************)
(* Properties.                                                             *)
(***************************************************************************)

\* Every variable has a value of its kind: s_nfree does not leave the table
\* unless a write has failed.
FreeListTypeOK ==
    /\ failed \in [read : Nat, write : Nat]
    /\ failed.write = 0 => nfree \in 0..NICFREE
    /\ nfree \in Int /\ sfree \in [Slots -> Nat]
    /\ tfree \in Nat
    /\ fmod \in BOOLEAN /\ full \in BOOLEAN

\* alloc() hands out only blocks of the data area, whatever transfers fail and
\* whatever the groups on the disk hold: badblock() keeps a garbage list from
\* reaching the i-list.
InDataArea == used \subseteq Blocks

\* As long as no write has failed, alloc() hands out a block that was freed and
\* not handed out since, never one that a file has, even if groups could not
\* be read.
TakesFree ==
    [][Alloc /\ failed.write = 0 /\ ~full'
        => \E b \in pool \ used : used' = used \cup {b}]_vars

reliable == failed.read = 0 /\ failed.write = 0

\* As long as no transfer has failed, s_tfree counts the free blocks, in core
\* and, once nothing is modified, on the disk.
TfreeCounts ==
    reliable => /\ tfree = Cardinality(pool)
                /\ ~fmod => ondisk.tfree = tfree

\* As long as no transfer has failed, statfs() reports the number of free
\* blocks.
BfreeCounts == reliable => bfree = Cardinality(pool)

\* As long as no transfer has failed, the list is a pool of blocks: a remount
\* or a sync changes nothing, every request takes a free block and fails only
\* if there is none.
Pool == INSTANCE BlockPool
PoolSpec == Pool!Spec
=============================================================================
