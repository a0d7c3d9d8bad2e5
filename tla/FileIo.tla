------------------------------- MODULE FileIo -------------------------------
(***************************************************************************)
(* The data of V7 files: bmap(), readi() and writei(), rdwr(), itrunc()    *)
(* and tloop(), and the calls seek, read, write and truncate of v7fs.c.    *)
(* An inode has NADDR addresses: direct blocks, then one single, one       *)
(* double and one triple indirect block.  One process calls the library    *)
(* and every call runs to its end, so a call is one action.                *)
(*                                                                         *)
(* A routine is an operator from the state before it to the state after.   *)
(* The free list is the stack that FreeList implements.  The host may fail *)
(* to read one block during a call.                                        *)
(***************************************************************************)
EXTENDS Integers, FiniteSets, SequencesExt

CONSTANTS
    Files,          \* regular files, each with one descriptor
    NBlocks,        \* data blocks
    BSIZE,          \* bytes in a block
    NINDIR,         \* addresses in an indirect block
    NADDR,          \* addresses in an inode
    MaxCount,       \* UINT16_MAX, the longest transfer of one rdwr()
    MaxOffset,      \* INT32_MAX, the last position of v7fs_seek()
    MaxFailures,    \* bound: calls that meet an unreadable block
    Data,           \* what programs write
    Totals,         \* how many bytes they read
    Distances       \* and how far they seek

ASSUME FileIoAssumption ==
    /\ NBlocks \in Nat /\ MaxOffset \in Nat /\ MaxFailures \in Nat
    /\ NINDIR \in Nat \ {0} /\ BSIZE \in Nat /\ BSIZE >= NINDIR
    /\ NADDR \in Nat /\ NADDR > 3
    /\ MaxCount \in Nat \ {0}
    /\ Totals \subseteq Nat /\ Distances \subseteq Int

Blocks == 1..NBlocks

VARIABLES
    node,           \* i_addr of a file; the bytes or the addresses in a block
    size,           \* i_size
    offset,         \* f_offset
    free,           \* free blocks, the next to be allocated last
    failed,         \* calls that met an unreadable block
    res,            \* result of the last call
    text,           \* history: the bytes that the addresses of a file lead to
    leaked          \* history: a truncation met an unreadable block

fileVars == <<node, size, offset, free, failed, res, text, leaked>>

OK == "ok"
NoAddr == [i \in 0..(NADDR - 1) |-> 0]
\* The first block number that needs n levels of indirection.
first[n \in 1..4] == IF n = 1 THEN NADDR - 3 ELSE first[n - 1] + NINDIR^(n - 1)

\* The bytes that a file can have.
Positions == 0..(first[4] * BSIZE - 1)

Clear == [i \in 0..(BSIZE - 1) |-> 0]

FileInit ==
    /\ node = [x \in Files \cup Blocks |-> IF x \in Files THEN NoAddr ELSE Clear]
    /\ size = [f \in Files |-> 0]
    /\ offset = [f \in Files |-> 0]
    /\ free = [k \in Blocks |-> NBlocks + 1 - k]
    /\ failed = 0
    /\ res = [error |-> OK, data |-> <<>>]
    /\ text = [f \in Files |-> [p \in Positions |-> 0]]
    /\ leaked = FALSE

\* What a call works on: the file system, the file, the block that cannot be
\* read (or 0), the fields of the user structure, and the block bmap() returns.
begin(f, bad) ==
    [node |-> node, size |-> size[f], free |-> free, file |-> f, bad |-> bad,
     offset |-> offset[f], count |-> 0, data |-> <<>>, base |-> 0,
     error |-> OK, bn |-> 0, leak |-> FALSE]

(***************************************************************************)
(* bmap().                                                                 *)
(***************************************************************************)

\* MUTANT: the block keeps what it held.
alloc_dirty(s) ==
    IF s.free = <<>> THEN [s EXCEPT !.bn = -1, !.error = "ENOSPC"]
    ELSE [s EXCEPT !.bn = Last(s.free), !.free = Front(s.free)]

alloc(s) ==
    IF s.free = <<>> THEN [s EXCEPT !.bn = -1, !.error = "ENOSPC"]
    ELSE [s EXCEPT !.bn = Last(s.free), !.free = Front(s.free), !.node[Last(s.free)] = Clear]

\* The levels of indirection of a block number.
depth(bn) == CHOOSE n \in 1..3 : first[n] <= bn /\ bn < first[n + 1]

\* The address in the inode and the entries of the indirect blocks that lead
\* to block bn of a file.
path ==
    [bn \in 0..(first[4] - 1) |->
        IF bn < NADDR - 3 THEN <<bn>>
        ELSE <<NADDR - 4 + depth(bn)>>
             \o [k \in 1..depth(bn) |-> ((bn - first[depth(bn)]) \div NINDIR^(depth(bn) - k)) % NINDIR]]

attach(t, at, i) == IF t.bn = -1 THEN t ELSE [t EXCEPT !.node[at][i] = t.bn]

\* From entry i of s.bn, which is the inode or an indirect block, to the block
\* it names; one is allocated for a write.
fetch(s, i, rwflg) ==
    IF s.bn = -1 \/ s.error # OK THEN s
    ELSE IF s.bn = s.bad THEN [s EXCEPT !.bn = 0, !.error = "EIO"]
    ELSE IF s.node[s.bn][i] # 0 THEN [s EXCEPT !.bn = s.node[s.bn][i]]
    ELSE IF rwflg = "read" THEN [s EXCEPT !.bn = -1]
    ELSE attach(alloc(s), s.bn, i)

bmap(s, bn, rwflg) ==
    IF bn >= first[4] THEN [s EXCEPT !.bn = 0, !.error = "EFBIG"]
    ELSE LET after[k \in 0..Len(path[bn])] ==
               IF k = 0 THEN [s EXCEPT !.bn = s.file] ELSE fetch(after[k - 1], path[bn][k], rwflg)
         IN  after[Len(path[bn])]

(***************************************************************************)
(* readi() and writei(), one turn of their loops at a time; a turn that    *)
(* the loop would not take changes nothing.                                *)
(***************************************************************************)

least(a, b) == IF a < b THEN a ELSE b

\* The bytes of the next turn that are in one block.
inBlock(s) == least(BSIZE - (s.offset % BSIZE), s.count)

\* iomove() and the size of the file.
moved(s, n) == [s EXCEPT !.offset = @ + n, !.count = @ - n, !.base = @ + n]

grown(s) == IF s.offset > s.size THEN [s EXCEPT !.size = s.offset] ELSE s

\* The buffer of block t.bn takes n bytes and is written, or dropped after an
\* error of bmap() or of the bread() that a part of a block needs.
put(t, n) ==
    LET on == t.offset % BSIZE
    IN  IF t.bn = -1 THEN t
        ELSE IF t.error # OK THEN grown(moved(t, n))
        ELSE IF n < BSIZE /\ t.bn = t.bad THEN grown(moved([t EXCEPT !.error = "EIO"], n))
        ELSE grown(moved([t EXCEPT !.node[t.bn] = [i \in DOMAIN @ |->
                              IF i \in on..(on + n - 1) THEN t.data[t.base + 1 + i - on] ELSE @[i]]], n))

writeTurn(s) ==
    IF s.error # OK \/ s.count = 0 THEN s
    ELSE put(bmap(s, s.offset \div BSIZE, "write"), inBlock(s))

writei(s) ==
    LET after[k \in 0..s.count] == IF k = 0 THEN s ELSE writeTurn(after[k - 1])
    IN  after[s.count]

\* n bytes of block t.bn, or of a hole.
get(t, n) ==
    LET on == t.offset % BSIZE
    IN  IF t.error # OK THEN t
        ELSE IF t.bn = -1 THEN moved([t EXCEPT !.data = @ \o [i \in 1..n |-> 0]], n)
        ELSE IF t.bn = t.bad THEN moved([t EXCEPT !.error = "EIO"], n)
        ELSE moved([t EXCEPT !.data = @ \o [i \in 1..n |-> t.node[t.bn][on + i - 1]]], n)

readTurn(s) ==
    IF s.error # OK \/ s.count = 0 \/ s.offset >= s.size THEN s
    ELSE get(bmap(s, s.offset \div BSIZE, "read"), least(inBlock(s), s.size - s.offset))

readi(s) ==
    LET after[k \in 0..s.count] == IF k = 0 THEN s ELSE readTurn(after[k - 1])
    IN  after[s.count]

(***************************************************************************)
(* read and write of v7fs.c: as many calls of rdwr() as the count needs.   *)
(***************************************************************************)

writePiece(s) ==
    IF s.error # OK THEN s
    ELSE writei([s EXCEPT !.count = least(MaxCount, Len(s.data) - s.base)])

write(s, data) ==
    LET after[k \in 0..Len(data)] ==
          IF k = 0 THEN [s EXCEPT !.data = data] ELSE writePiece(after[k - 1])
    IN  after[Len(data)]

readPiece(s, total) ==
    IF s.error # OK THEN s
    ELSE readi([s EXCEPT !.count = least(MaxCount, total - s.base)])

read(s, total) ==
    LET after[k \in 0..total] == IF k = 0 THEN s ELSE readPiece(after[k - 1], total)
    IN  after[total]

(***************************************************************************)
(* itrunc() and tloop(): the blocks of a file in the order of free().  An  *)
(* indirect block that cannot be read is not freed, nor what it leads to.  *)
(***************************************************************************)

\* MUTANT: the indirect blocks themselves are kept.
tloop_keeps(s, levels, b) ==
    LET below[n \in 0..3, c \in Blocks] ==
          IF n = 0 THEN <<c>>
          ELSE IF c = s.bad THEN <<>>
          ELSE FlattenSeq([k \in 1..NINDIR |->
                   IF s.node[c][NINDIR - k] = 0 THEN <<>> ELSE below[n - 1, s.node[c][NINDIR - k]]])
    IN  below[levels, b]

tloop(s, levels, b) ==
    LET below[n \in 0..3, c \in Blocks] ==
          IF n = 0 THEN <<c>>
          ELSE IF c = s.bad THEN <<>>
          ELSE FlattenSeq([k \in 1..NINDIR |->
                   IF s.node[c][NINDIR - k] = 0 THEN <<>> ELSE below[n - 1, s.node[c][NINDIR - k]]])
               \o <<c>>
    IN  below[levels, b]

\* Levels of indirection under address i of an inode.
levels(i) == IF i < NADDR - 3 THEN 0 ELSE i - (NADDR - 4)

doomed(s) ==
    FlattenSeq([k \in 1..NADDR |->
        LET i == NADDR - k
        IN  IF s.node[s.file][i] = 0 THEN <<>> ELSE tloop(s, levels(i), s.node[s.file][i])])

itrunc(s) ==
    LET leak == doomed(s) # doomed([s EXCEPT !.bad = 0])
    IN  [s EXCEPT !.free = @ \o doomed(s), !.node[s.file] = NoAddr, !.size = 0,
                  !.error = IF leak THEN "EIO" ELSE OK, !.leak = leak]

(***************************************************************************)
(* The calls.                                                              *)
(***************************************************************************)

\* The bytes of file f, holes as zeros.
bytes(s, f) ==
    LET block == [bn \in DOMAIN path |-> bmap([s EXCEPT !.file = f, !.bad = 0, !.error = OK], bn, "read").bn]
    IN  [p \in Positions |->
            IF block[p \div BSIZE] = -1 THEN 0 ELSE s.node[block[p \div BSIZE]][p % BSIZE]]

\* The call that ended in s returns; a block that it did not need to read
\* has not failed.
returns(s, data) ==
    /\ s.bad = 0 \/ s.error = "EIO"
    /\ node' = s.node
    /\ size' = [size EXCEPT ![s.file] = s.size]
    /\ offset' = [offset EXCEPT ![s.file] = s.offset]
    /\ free' = s.free
    /\ failed' = IF s.bad = 0 THEN failed ELSE failed + 1
    /\ res' = [error |-> s.error, data |-> IF s.error = OK THEN data ELSE <<>>]
    /\ leaked' = (leaked \/ s.leak)
    /\ text' = IF s.node = node THEN text ELSE [f \in Files |-> bytes(s, f)]

Unreadable == {0} \cup IF failed < MaxFailures THEN Blocks ELSE {}

Write(f, data) == \E bad \in Unreadable : returns(write(begin(f, bad), data), <<>>)

Read(f, total) ==
    \E bad \in Unreadable : LET s == read(begin(f, bad), total) IN returns(s, s.data)

Truncate(f, length) ==
    IF length = 0 THEN \E bad \in Unreadable : returns(itrunc(begin(f, bad)), <<>>)
    ELSE returns([begin(f, 0) EXCEPT !.error = "EINVAL"], <<>>)

sought(s, to) ==
    IF to < 0 \/ to > MaxOffset THEN [s EXCEPT !.error = "EINVAL"] ELSE [s EXCEPT !.offset = to]

\* SEEK_DATA takes every byte for data, SEEK_HOLE finds the end of the file.
seek(s, by, whence) ==
    CASE whence = "SET"  -> sought(s, by)
      [] whence = "CUR"  -> sought(s, by + s.offset)
      [] whence = "END"  -> sought(s, by + s.size)
      [] by >= s.size    -> [s EXCEPT !.error = "ENXIO"]
      [] whence = "DATA" -> sought(s, by)
      [] whence = "HOLE" -> sought(s, s.size)

Seek(f, by, whence) == returns(seek(begin(f, 0), by, whence), <<>>)

Calls ==
    \E f \in Files :
        \/ \E data \in Data : Write(f, data)
        \/ \E total \in Totals : Read(f, total)
        \/ \E length \in {0, 1} : Truncate(f, length)
        \/ \E by \in Distances, whence \in {"SET", "CUR", "END", "DATA", "HOLE"} : Seek(f, by, whence)

(***************************************************************************)
(* Properties, of the programs of ImageBuilder.                            *)
(***************************************************************************)

\* Every block is on the free list or in one place of one file, whatever
\* calls ran out of space or met an unreadable block on the way; and none is
\* lost unless tloop() could not read an indirect block.
BlocksOwnedOnce ==
    LET files == SetToSeq(Files)
        places == free \o FlattenSeq([k \in DOMAIN files |-> doomed(begin(files[k], 0))])
    IN  IsInjective(places) /\ (leaked \/ ToSet(places) = Blocks)

\* read, write, truncate and seek treat a file as an array of bytes with a
\* size: see ByteFile.
Bytes == INSTANCE ByteFile

FileSpec == Bytes!Spec
=============================================================================
