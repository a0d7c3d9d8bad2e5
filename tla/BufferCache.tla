---------------------------- MODULE BufferCache -----------------------------
(***************************************************************************)
(* The V7 buffer cache as retro-fuse runs it: dev/bio.c over the           *)
(* synchronous disk of v7adapt.c and dskio.c.  One process calls it, so    *)
(* that sleep() and wakeup() do nothing and a transfer is complete when    *)
(* strategy() returns.  The loop of getblk() and the loop of bflush() are  *)
(* taken one turn at a time.                                               *)
(***************************************************************************)
EXTENDS Integers, Sequences, FiniteSets

CONSTANTS
    NBUF,           \* buffers
    FsSize,         \* s_fsize: blocks of the file system
    DskSize,        \* blocks of the image, 0 when unknown
    Data,           \* values of a block
    Zero,           \* the value clrbuf() leaves
    MaxIoErrors     \* bound: transfers that the host fails

ASSUME CacheAssumption ==
    /\ NBUF \in Nat \ {0}
    /\ FsSize \in Nat \ {0}
    /\ DskSize \in Nat
    /\ Zero \in Data
    /\ MaxIoErrors \in Nat

Bufs == 1..NBUF
Blocks == 0..(FsSize - 1)
NODEV == -1

VARIABLES
    assoc,          \* b_dev and b_blkno: the block a buffer stands for, or NODEV
    flags,          \* b_flags
    core,           \* the bytes at b_un.b_addr
    av,             \* the available list, bfreelist.av_forw first
    disk,           \* the image file
    dskEnd,         \* blocks dsk_read() and dsk_write() reach
    call,           \* the bio.c call in progress
    uError,         \* u.u_error is EIO
    ioErrors,       \* transfers failed so far
    changed,        \* history: held buffers modified since they were obtained
    content,        \* history: what each block should read as
    lost            \* history: a write failed since the last bflush() began

bufVars == <<assoc, flags, core, av>>
vars == <<bufVars, disk, dskEnd, call, uError, ioErrors, changed, content, lost>>

Idle == [op |-> "idle", blk |-> 0, ra |-> 0, got |-> 0]

\* binit(): every buffer is released in turn.
binit ==
    /\ assoc' = [b \in Bufs |-> NODEV]
    /\ flags' = [b \in Bufs |-> {}]
    /\ av' = [i \in Bufs |-> i]

\* v7fs_init() adjusts the size of the virtual disk.
dskEndOf == IF DskSize = 0 \/ DskSize > FsSize THEN FsSize ELSE DskSize

Init ==
    /\ assoc = [b \in Bufs |-> NODEV]
    /\ flags = [b \in Bufs |-> {}]
    /\ av = [i \in Bufs |-> i]
    /\ core = [b \in Bufs |-> Zero]
    /\ disk \in [Blocks -> Data]
    /\ dskEnd = dskEndOf
    /\ call = Idle
    /\ uError = FALSE
    /\ ioErrors = 0
    /\ changed = {}
    /\ content = disk
    /\ lost = FALSE

Busy == {b \in Bufs : "BUSY" \in flags[b]}

incore(blk) == \E b \in Bufs : assoc[b] = blk

(***************************************************************************)
(* Lists.  notavail() takes a buffer out of the available list; brelse()   *)
(* puts it back, at the head if it is marked AGE, and forgets the block of *)
(* a buffer in error.                                                      *)
(***************************************************************************)
without(s, b) ==
    LET k == CHOOSE i \in 1..Len(s) : s[i] = b
    IN [i \in 1..(Len(s) - 1) |-> IF i < k THEN s[i] ELSE s[i + 1]]

\* MUTANT: a buffer in error is not put back.
brelse_lost(b, fl, rest, late) ==
    /\ assoc' = [assoc EXCEPT ![b] = IF "ERROR" \in fl THEN NODEV ELSE @]
    /\ av' = IF "ERROR" \in fl THEN rest ELSE IF "AGE" \in fl THEN <<b>> \o rest ELSE Append(rest, b)
    /\ flags' = [flags EXCEPT ![b] = (fl \ {"BUSY", "AGE"}) \cup late]

\* brelse(b) with flags fl; late are the flags bwrite() sets after it.
brelse(b, fl, rest, late) ==
    /\ assoc' = [assoc EXCEPT ![b] = IF "ERROR" \in fl THEN NODEV ELSE @]
    /\ av' = IF "AGE" \in fl THEN <<b>> \o rest ELSE Append(rest, b)
    /\ flags' = [flags EXCEPT ![b] = (fl \ {"BUSY", "AGE"}) \cup late]

(***************************************************************************)
(* Transfers.  Outside the virtual disk both succeed and move nothing.     *)
(***************************************************************************)
outcome == IF ioErrors < MaxIoErrors THEN BOOLEAN ELSE {TRUE}

count(ok) == ioErrors' = IF ok THEN ioErrors ELSE ioErrors + 1

\* dsk_read() into buffer b, and iodone().
readIn(b, blk, ok) ==
    /\ core' = [core EXCEPT ![b] = IF ok /\ blk < dskEnd THEN disk[blk] ELSE @]
    /\ count(ok)

transferred(fl, ok) == fl \cup (IF ok THEN {"DONE"} ELSE {"DONE", "ERROR"})

\* MUTANT: the delayed-write mark survives the write.
writeOut_keepsMark(b, rest, async, ok) ==
    LET late == async /\ "DELWRI" \in flags[b] IN
    /\ disk' = IF ok /\ assoc[b] < dskEnd
               THEN [disk EXCEPT ![assoc[b]] = core[b]] ELSE disk
    /\ count(ok)
    /\ brelse(b, transferred(flags[b] \ {"DONE", "ERROR", "AGE"}, ok),
              rest, IF late THEN {"AGE"} ELSE {})
    /\ uError' = (uError \/ (~ok /\ ~late))
    /\ lost' = (lost \/ ~ok)

\* MUTANT: the buffer is given its new block before the old one is written.
writeOut_newBlock(b, rest, async, ok) ==
    /\ disk' = IF ok /\ call.blk < dskEnd
               THEN [disk EXCEPT ![call.blk] = core[b]] ELSE disk
    /\ count(ok)
    /\ brelse(b, transferred(flags[b] \ {"DONE", "ERROR", "DELWRI", "AGE"}, ok), rest, {})
    /\ uError' = uError
    /\ lost' = (lost \/ ~ok)

\* bwrite() of a buffer that is off the available list: strategy(), iodone(),
\* brelse().  An asynchronous write of a delayed block is marked AGE when it
\* is already back on the list, and its error goes to nobody.
writeOut(b, rest, async, ok) ==
    LET late == async /\ "DELWRI" \in flags[b] IN
    /\ disk' = IF ok /\ assoc[b] < dskEnd
               THEN [disk EXCEPT ![assoc[b]] = core[b]] ELSE disk
    /\ count(ok)
    /\ brelse(b, transferred(flags[b] \ {"DONE", "ERROR", "DELWRI", "AGE"}, ok),
              rest, IF late THEN {"AGE"} ELSE {})
    /\ uError' = (uError \/ (~ok /\ ~late))
    /\ lost' = (lost \/ ~ok)

\* A write the cache makes on its own: the block keeps its content unless the
\* write fails.
flushOut(b) ==
    \E ok \in outcome :
        /\ writeOut(b, without(av, b), TRUE, ok)
        /\ content' = IF ok THEN content ELSE [content EXCEPT ![assoc[b]] = disk[assoc[b]]]
        /\ UNCHANGED <<core, changed>>

(***************************************************************************)
(* getblk(), one turn of its loop: the block's own buffer, or the oldest   *)
(* available one, which is written out first when its write was delayed.   *)
(* breada() calls it for the block (op "breada"), then for the block to    *)
(* read ahead (op "ahead"), and turns into bread() if it has none yet.     *)
(***************************************************************************)
target == CASE call.op = "ahead" -> call.ra
            [] call.op = "geteblk" -> NODEV
            [] OTHER -> call.blk

wantsAhead == call.ra # 0 /\ ~incore(call.ra)

Searching ==
    \/ call.op \in {"getblk", "geteblk", "bread", "breada"}
    \/ call.op = "ahead" /\ wantsAhead

hit(b) == target # NODEV /\ assoc[b] = target /\ "BUSY" \notin flags[b]

miss == target = NODEV \/ ~incore(target)

Evict ==
    /\ Searching /\ miss /\ av # <<>>
    /\ "DELWRI" \in flags[Head(av)]
    /\ flushOut(Head(av))
    /\ UNCHANGED call

\* getblk() returns b, with these flags.
takes(b) ==
    \/ hit(b)
    \/ miss /\ av # <<>> /\ b = Head(av) /\ "DELWRI" \notin flags[b]

\* MUTANT: a reassigned buffer keeps its flags.
flagsOf_kept(b) == flags[b] \cup {"BUSY"}

flagsOf(b) == IF hit(b) THEN flags[b] \cup {"BUSY"} ELSE {"BUSY"}

obtain(b, fl) ==
    /\ assoc' = [assoc EXCEPT ![b] = target]
    /\ av' = without(av, b)
    /\ flags' = [flags EXCEPT ![b] = fl]

\* getblk() and geteblk() return.
Getblk ==
    /\ call.op \in {"getblk", "geteblk"}
    /\ \E b \in Bufs : takes(b) /\ obtain(b, flagsOf(b))
    /\ call' = Idle
    /\ UNCHANGED <<core, disk, uError, ioErrors, changed, content, lost>>

\* bread() returns.
Bread ==
    /\ call.op = "bread"
    /\ \E b \in Bufs :
         /\ takes(b)
         /\ \/ /\ "DONE" \in flagsOf(b)
               /\ obtain(b, flagsOf(b))
               /\ UNCHANGED <<core, uError, ioErrors>>
            \/ /\ "DONE" \notin flagsOf(b)
               /\ \E ok \in outcome :
                    /\ obtain(b, transferred(flagsOf(b), ok))
                    /\ readIn(b, target, ok)
                    /\ uError' = (uError \/ ~ok)
    /\ call' = Idle
    /\ UNCHANGED <<disk, changed, content, lost>>

\* breada() has read its block; the wait for it comes last.
BreadaFirst ==
    /\ call.op = "breada"
    /\ \E b \in Bufs, ok \in outcome :
         /\ takes(b)
         /\ obtain(b, transferred(flagsOf(b), ok))
         /\ readIn(b, target, ok)
         /\ call' = [call EXCEPT !.op = "ahead", !.got = b]
    /\ UNCHANGED <<disk, uError, changed, content, lost>>

\* The read ahead: iodone() releases the buffer at once.
BreadaAhead ==
    /\ call.op = "ahead" /\ wantsAhead
    /\ \E b \in Bufs, ok \in outcome :
         /\ takes(b)
         /\ assoc' = [assoc EXCEPT ![b] = IF ok THEN target ELSE NODEV]
         /\ av' = Append(without(av, b), b)
         /\ flags' = [flags EXCEPT ![b] = transferred({}, ok)]
         /\ readIn(b, target, ok)
    /\ call' = [call EXCEPT !.ra = 0]
    /\ UNCHANGED <<disk, uError, changed, content, lost>>

BreadaLast ==
    /\ call.op = "ahead" /\ ~wantsAhead
    /\ \/ /\ call.got = 0
          /\ call' = [call EXCEPT !.op = "bread"]
          /\ UNCHANGED uError
       \/ /\ call.got # 0
          /\ call' = Idle
          /\ uError' = (uError \/ "ERROR" \in flags[call.got])
    /\ UNCHANGED <<bufVars, disk, ioErrors, changed, content, lost>>

\* Buffers whose write is delayed.
Delayed == {b \in Bufs : "DELWRI" \in flags[b]}

\* bflush(): the first delayed write on the available list, then the next.
firstDelayed(i) ==
    /\ "DELWRI" \in flags[av[i]]
    /\ \A j \in 1..(i - 1) : "DELWRI" \notin flags[av[j]]

\* MUTANT: the scan ends at the first buffer that needs no writing.
delayed_first == Len(av) > 0 /\ "DELWRI" \in flags[av[1]]

delayed == \E i \in 1..Len(av) : "DELWRI" \in flags[av[i]]

Bflush ==
    /\ call.op = "bflush"
    /\ \/ /\ delayed
          /\ \E i \in 1..Len(av) : firstDelayed(i) /\ flushOut(av[i])
          /\ UNCHANGED call
       \/ /\ ~delayed
          /\ call' = Idle
          /\ UNCHANGED <<bufVars, disk, uError, ioErrors, changed, content, lost>>

Cache ==
    /\ Evict \/ Getblk \/ Bread \/ BreadaFirst \/ BreadaAhead \/ BreadaLast \/ Bflush
    /\ UNCHANGED dskEnd

(***************************************************************************)
(* The file system.  It never asks for a block it holds nor for more       *)
(* buffers than are left, and releases a valid buffer it has modified only *)
(* through a write.                                                        *)
(***************************************************************************)
begin(op, blk, ra) ==
    /\ call = Idle
    /\ Cardinality(Busy) + (IF ra = 0 THEN 1 ELSE 2) <= NBUF
    /\ \A b \in Busy : assoc[b] \notin {blk, ra}
    /\ call' = [op |-> op, blk |-> blk, ra |-> ra, got |-> 0]
    /\ UNCHANGED <<bufVars, disk, uError, ioErrors, changed, content, lost>>

Asks ==
    \E blk \in Blocks :
        \/ begin("getblk", blk, 0)
        \/ begin("bread", blk, 0)
        \/ \E ra \in Blocks \ {blk} : begin(IF incore(blk) THEN "ahead" ELSE "breada", blk, ra)

AsksEmpty == begin("geteblk", 0, 0)

Modifies ==
    /\ call = Idle
    /\ \E b \in Busy, v \in Data :
         /\ core' = [core EXCEPT ![b] = v]
         /\ changed' = changed \cup {b}
    /\ UNCHANGED <<assoc, flags, av, disk, call, uError, ioErrors, content, lost>>

mayWrite(b) == b \in changed /\ assoc[b] # NODEV /\ "ERROR" \notin flags[b]

\* bwrite(), and bawrite() when async.
Bwrite ==
    /\ call = Idle
    /\ \E b \in Busy, async \in BOOLEAN, ok \in outcome :
         /\ mayWrite(b)
         /\ writeOut(b, av, async, ok)
         /\ content' = [content EXCEPT ![assoc[b]] = IF ok THEN core[b] ELSE disk[assoc[b]]]
         /\ changed' = changed \ {b}
    /\ UNCHANGED <<core, call>>

Bdwrite ==
    /\ call = Idle
    /\ \E b \in Busy :
         /\ mayWrite(b)
         /\ brelse(b, flags[b] \cup {"DELWRI", "DONE"}, av, {})
         /\ content' = [content EXCEPT ![assoc[b]] = core[b]]
         /\ changed' = changed \ {b}
    /\ UNCHANGED <<core, disk, call, uError, ioErrors, lost>>

Brelse ==
    /\ call = Idle
    /\ \E b \in Busy :
         /\ b \notin changed \/ assoc[b] = NODEV \/ "DONE" \notin flags[b] \/ "ERROR" \in flags[b]
         /\ brelse(b, flags[b], av, {})
         /\ changed' = changed \ {b}
    /\ UNCHANGED <<core, disk, call, uError, ioErrors, content, lost>>

\* v7fs_sync(): u_error is cleared and the cache is flushed.
Sync ==
    /\ call = Idle
    /\ call' = [Idle EXCEPT !.op = "bflush"]
    /\ uError' = FALSE
    /\ lost' = FALSE
    /\ UNCHANGED <<bufVars, disk, ioErrors, changed, content>>

\* The process ends at any point and the image is mounted again.
Crash ==
    /\ binit
    /\ core' = [b \in Bufs |-> Zero]
    /\ call' = Idle
    /\ uError' = FALSE
    /\ changed' = {}
    /\ content' = disk
    /\ lost' = FALSE
    /\ UNCHANGED <<disk, ioErrors>>

FileSystem ==
    /\ Asks \/ AsksEmpty \/ Modifies \/ Bwrite \/ Bdwrite \/ Brelse \/ Sync \/ Crash
    /\ UNCHANGED dskEnd

Next == Cache \/ FileSystem

Spec == Init /\ [][Next]_vars

(***************************************************************************)
(* Properties.                                                             *)
(***************************************************************************)

\* Every variable has a value of its kind.
CacheTypeOK ==
    /\ assoc \in [Bufs -> Blocks \cup {NODEV}]
    /\ flags \in [Bufs -> SUBSET {"BUSY", "DONE", "DELWRI", "AGE", "ERROR"}]
    /\ core \in [Bufs -> Data]
    /\ disk \in [Blocks -> Data]
    /\ dskEnd \in 1..FsSize
    /\ content \in [Blocks -> Data]
    /\ call.blk \in Blocks /\ call.ra \in Blocks /\ call.got \in Bufs \cup {0}
    /\ ioErrors \in 0..MaxIoErrors
    /\ changed \subseteq Busy

\* A buffer is on the available list, once, if and only if it is not marked
\* BUSY (the comment of buf.h), through every error path of bio.c.
FreeIffNotBusy ==
    /\ \A b \in Bufs : "BUSY" \notin flags[b] <=> \E i \in 1..Len(av) : av[i] = b
    /\ \A i, j \in 1..Len(av) : av[i] = av[j] => i = j

\* No block has two buffers: a block is never cached twice with different
\* contents.
OneBufferPerBlock ==
    \A b, c \in Bufs : assoc[b] = assoc[c] /\ assoc[b] # NODEV => b = c

\* When bflush() returns and the caller holds no buffer, the image holds the
\* content of every block: what was written before a sync survives a crash.
SyncCommits ==
    [][call.op = "bflush" /\ call'.op = "idle" /\ Busy = {} => disk' = content']_vars

\* v7fs_sync() reports an error when a write it makes is refused by the host.
SyncReports ==
    [][call.op = "bflush" /\ call'.op = "idle" /\ lost => uError']_vars

\* The loops of getblk() and bflush() end: every turn that does not finish the
\* call leaves fewer delayed writes, also when the host refuses them.
LoopsEnd ==
    [][Cache /\ call' = call => Cardinality(Delayed') < Cardinality(Delayed)]_vars

\* No call gets stuck: the sleep() of getblk(), which does nothing here, is
\* never reached, because there is a buffer for every block that may be asked
\* for, after every error.
NeverSleeps == call # Idle => ENABLED Cache

\* What the caller is given is what the block should read as: a buffer that
\* is valid and not being modified holds the content of its block, whatever
\* was evicted, refused or read ahead in between.
ReadsContent ==
    \A b \in Bufs \ changed :
        assoc[b] # NODEV /\ "DONE" \in flags[b] /\ "ERROR" \notin flags[b]
            => core[b] = content[assoc[b]]

\* The cache is a disk: a block changes only when it is written, is refused
\* or the process ends, and only its content ever goes to the image.
Store == INSTANCE BlockStore
StoreSpec == Store!Spec
=============================================================================
