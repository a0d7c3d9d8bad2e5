------------------------------ MODULE V7Names ------------------------------
(***************************************************************************)
(* Names, inodes and open files of the V7 file system behind v7fs.c:       *)
(* iget.c, nami.c, the inode half of alloc.c, fio.c and the calls link(),  *)
(* unlink(), open1() and close() of sys2.c and sys4.c, with the v7fs_      *)
(* functions that are made of them.  One process calls the library and     *)
(* every call runs to its end, so a call is one action; a call is several  *)
(* system calls, any of which may fail for want of a block, an inode or a  *)
(* descriptor.  The super user calls, no transfer fails.                   *)
(*                                                                         *)
(* A routine is an operator from the state before it to the state after;   *)
(* ip is the inode it returns, u the fields of the user structure.         *)
(***************************************************************************)
EXTENDS Integers, FiniteSets, SequencesExt

CONSTANTS
    Names,          \* names of files and directories
    Depth,          \* bound: components of a path
    MaxIno,         \* the last inode of the i-list
    NBlocks,        \* data blocks
    DirPerBlk,      \* directory entries in a block
    NICINOD,        \* size of s_inode
    NINODE,         \* size of the inode table
    NOFILE,         \* size of u_ofile
    Careless        \* what callers do that this code does not survive

ASSUME NamesAssumption ==
    /\ {".", ".."} \cap Names = {}
    /\ Depth \in Nat /\ MaxIno \in Nat /\ NBlocks \in Nat \ {0}
    /\ DirPerBlk \in Nat \ {0, 1} /\ NICINOD \in Nat \ {0}
    /\ NINODE \in Nat /\ NOFILE \in Nat
    /\ Careless \subseteq {"intoItself", "noDescriptor"}

VARIABLES
    fs,             \* the file system, in core and on the disk
    refused         \* the last call failed and was to change names only

vars == <<fs, refused>>

ROOTINO == 2
NULL == 0
Inos == ROOTINO..MaxIno
Fds == 1..NOFILE
Paths == UNION {[1..n -> Names] : n \in 0..Depth}
OK == "ok"

\* di_mode, di_nlink, and di_size in entries of a directory or blocks of a file
Unused == [mode |-> "none", nlink |-> 0, size |-> 0]

\* A free slot of the inode table.
Absent == [count |-> 0, locked |-> FALSE, upd |-> FALSE, ino |-> Unused]

entry(name, i) == [name |-> name, ino |-> i]

NoFile == [ip |-> NULL, write |-> FALSE]

NoUser == [error |-> OK, pdir |-> NULL, offset |-> 0, dbuf |-> ".", dent |-> entry(".", NULL)]

(***************************************************************************)
(* The state mkfs leaves and v7fs_init() mounts: the root directory is     *)
(* held twice, as rootdir and as u_cdir.                                   *)
(***************************************************************************)
mounted(disk, ents, bfree, sinode) ==
    [disk |-> disk, ents |-> ents, bfree |-> bfree, sinode |-> sinode,
     core |-> [i \in Inos |-> IF i = ROOTINO
                              THEN [Absent EXCEPT !.count = 2, !.ino = disk[i]]
                              ELSE Absent],
     ofile |-> [f \in Fds |-> NoFile],
     u |-> NoUser, ip |-> NULL, fd |-> 0, res |-> OK, spins |-> FALSE]

mkfs ==
    mounted([i \in Inos |-> IF i = ROOTINO THEN [mode |-> "dir", nlink |-> 2, size |-> 2] ELSE Unused],
            [i \in Inos |-> IF i = ROOTINO THEN <<entry(".", ROOTINO), entry("..", ROOTINO)>> ELSE <<>>],
            NBlocks - 1, <<>>)

Init ==
    /\ fs = mkfs
    /\ refused = FALSE

(***************************************************************************)
(* Inodes.                                                                 *)
(***************************************************************************)
blocksOf(ino) ==
    IF ino.mode = "dir" THEN (ino.size + DirPerBlk - 1) \div DirPerBlk ELSE ino.size

fails(s, error) == [s EXCEPT !.u.error = error]

InCore(s) == {i \in Inos : s.core[i].count > 0}

\* iget(): sleep() does nothing, so the loop on a locked inode never ends.
iget(s, i) ==
    IF i \in InCore(s)
    THEN [s EXCEPT !.spins = @ \/ s.core[i].locked, !.ip = i,
                   !.core[i].count = @ + 1, !.core[i].locked = TRUE]
    ELSE IF Cardinality(InCore(s)) >= NINODE
    THEN [fails(s, "ENFILE") EXCEPT !.ip = NULL]
    ELSE [s EXCEPT !.ip = i,
                   !.core[i] = [count |-> 1, locked |-> TRUE, upd |-> FALSE, ino |-> s.disk[i]]]


prele(s, i) == [s EXCEPT !.core[i].locked = FALSE]

ifree(s, i) == IF Len(s.sinode) >= NICINOD THEN s ELSE [s EXCEPT !.sinode = Append(@, i)]

itrunc(s, i) ==
    [s EXCEPT !.bfree = @ + blocksOf(s.core[i].ino),
              !.ents[i] = <<>>,
              !.core[i].ino.size = 0, !.core[i].upd = TRUE]

\* MUTANT: the count is changed in core only.
relink_unmarked(s, i, n) == [s EXCEPT !.core[i].ino.nlink = @ + n]

\* The link count of an inode in core is changed.
relink(s, i, n) == [s EXCEPT !.core[i].ino.nlink = @ + n, !.core[i].upd = TRUE]

iupdat(s, i) ==
    IF s.core[i].upd
    THEN [s EXCEPT !.disk[i] = s.core[i].ino, !.core[i].upd = FALSE]
    ELSE s

\* iput(): the last reference writes the inode and frees an unlinked file.
iput(s, i) ==
    IF s.core[i].count # 1
    THEN [s EXCEPT !.core[i].count = @ - 1, !.core[i].locked = FALSE]
    ELSE LET t == IF s.core[i].ino.nlink <= 0
                  THEN ifree([itrunc(s, i) EXCEPT !.core[i].ino.mode = "none"], i)
                  ELSE s
         IN  [iupdat(t, i) EXCEPT !.core[i] = Absent]

\* The linear search of ialloc(): free on the disk and not in core.
scan(s) ==
    LET idle == SetToSortSeq({i \in Inos : s.disk[i].mode = "none" /\ i \notin InCore(s)}, <)
    IN  SubSeq(idle, 1, IF Len(idle) < NICINOD THEN Len(idle) ELSE NICINOD)

modeOf(s, i) == IF i \in InCore(s) THEN s.core[i].ino.mode ELSE s.disk[i].mode

\* ialloc(): the last inode of the list that is free after all; if there is
\* none, of the list that the search returns.
ialloc(s) ==
    LET free(i) == modeOf(s, i) = "none"
        found == SelectLastInSeq(s.sinode, free)
        list == IF found # 0 THEN SubSeq(s.sinode, 1, found) ELSE scan(s)
    IN  IF list = <<>>
        THEN [fails(s, "ENOSPC") EXCEPT !.ip = NULL, !.sinode = <<>>]
        ELSE iget([s EXCEPT !.sinode = Front(list)], Last(list))

(***************************************************************************)
(* Directories.  namei() takes one component at a time; flag is "find",    *)
(* "create" or "delete".  out: the directory is put and NULL returned.     *)
(***************************************************************************)
\* MUTANT: the directory is not put.
out_held(s) == [s EXCEPT !.ip = NULL]

out(s) == [iput(s, s.ip) EXCEPT !.ip = NULL]

live(s, d) == {j \in 1..s.core[d].ino.size : s.ents[d][j].ino # NULL}

component(s, name, last, flag) ==
    LET d == s.ip
        hits == {j \in live(s, d) : s.ents[d][j].name = name}
        holes == (1..s.core[d].ino.size) \ live(s, d)
        t == [s EXCEPT !.u.dbuf = name]
    IN  IF s.core[d].ino.mode # "dir" THEN out(fails(t, "ENOTDIR"))
        ELSE IF hits # {}
        THEN LET at == s.ents[d][Min(hits)] IN
             IF last /\ flag = "delete"
             THEN [t EXCEPT !.u.dent = at, !.u.offset = Min(hits)]
             ELSE iget(iput(t, d), at.ino)
        ELSE IF last /\ flag = "create"
        THEN [t EXCEPT !.ip = NULL, !.u.pdir = d,
                       !.u.offset = IF holes = {} THEN s.core[d].ino.size + 1 ELSE Min(holes),
                       !.core[d].upd = @ \/ holes = {}]
        ELSE out(fails(t, "ENOENT"))

\* namei(): an error that is already there ends the walk at its start.
namei(s, path, flag) ==
    LET step(t, k) == IF t.ip = NULL THEN t ELSE component(t, path[k], k = Len(path), flag)
        walk(start) ==
            LET at[k \in 0..Len(path)] == IF k = 0 THEN start ELSE step(at[k - 1], k)
            IN  IF start.u.error # OK THEN out(start) ELSE at[Len(path)]
    IN  walk(IF path = <<>> /\ flag # "find" THEN fails(iget(s, ROOTINO), "ENOENT")
             ELSE iget(s, ROOTINO))

\* writei() of one entry: a block is allocated at a block boundary.
writeEntry(s, d, j, e) ==
    LET grows == j > s.core[d].ino.size
        needs == grows /\ (j - 1) % DirPerBlk = 0
    IN  IF needs /\ s.bfree = 0 THEN fails(s, "ENOSPC")
        ELSE [s EXCEPT !.bfree = IF needs THEN @ - 1 ELSE @,
                       !.ents[d] = IF grows THEN Append(@, e) ELSE [@ EXCEPT ![j] = e],
                       !.core[d].ino.size = IF grows THEN j ELSE @,
                       !.core[d].upd = TRUE]

wdir(s, i) ==
    LET d == s.u.pdir
        t == IF s.core[d].ino.nlink <= 0 THEN fails(s, "ENOTDIR")
             ELSE writeEntry(s, d, s.u.offset, entry(s.u.dbuf, i))
    IN  iput(t, d)

\* maknode(): an inode for which there is no entry is freed again.
maknode(s, mode) ==
    LET named(t) == wdir([t EXCEPT !.core[t.ip].upd = TRUE,
                                   !.core[t.ip].ino.mode = mode, !.core[t.ip].ino.nlink = 1], t.ip)
        kept(w) == IF w.u.error = OK THEN w ELSE out(relink(w, w.ip, -1))
        with(t) == IF t.ip = NULL THEN [iput(t, t.u.pdir) EXCEPT !.ip = NULL] ELSE kept(named(t))
    IN  with(ialloc(s))

(***************************************************************************)
(* Calls.  A v7fs_ function begins with u_error 0 and returns res.         *)
(***************************************************************************)
begin(s) == fails(s, OK)

returns(s) == [s EXCEPT !.res = s.u.error]

gives(s, error) == [s EXCEPT !.res = error]

\* what follows when there is an inode, and when a call has succeeded
found(t, Then(_)) == IF t.ip = NULL THEN returns(t) ELSE Then(t)
onward(t, Then(_)) == IF t.res # OK THEN t ELSE Then(t)

\* lookups that only touch the inode: stat1() writes it, chmod() changes it
stat(s, path) ==
    found(namei(begin(s), path, "find"), LAMBDA t : returns(iput(iupdat(t, t.ip), t.ip)))

chmod(s, path) ==
    found(namei(begin(s), path, "find"), LAMBDA t : returns(iput([t EXCEPT !.core[t.ip].upd = TRUE], t.ip)))

truncate(s, path) ==
    found(namei(begin(s), path, "find"), LAMBDA t : returns(iput(itrunc(t, t.ip), t.ip)))

\* link(): the target is held, not locked, while the new name is made.
link(s, target, linkname) ==
    LET linked(d, ip) == IF d.u.error # OK THEN d ELSE relink(d, ip, 1)
        enter(x, ip) == IF x.ip # NULL THEN iput(fails(x, "EEXIST"), x.ip)
                        ELSE IF x.u.error # OK THEN x ELSE linked(wdir(x, ip), ip)
    IN  found(namei(begin(s), target, "find"), LAMBDA t :
            returns(iput(enter(namei(prele(t, t.ip), linkname, "create"), t.ip), t.ip)))

\* unlink(): "." is put twice and fetched once.
unlink(s, path) ==
    LET cleared(t, pp) == writeEntry(t, pp, t.u.offset, entry(t.u.dent.name, NULL))
        remove(t, pp) == IF t.ip = NULL THEN iput(t, pp)
                         ELSE iput(iput(relink(cleared(t, pp), t.ip, -1), t.ip), pp)
    IN  found(namei(begin(s), path, "delete"), LAMBDA p :
            returns(remove(IF p.u.dent.ino = p.ip THEN [p EXCEPT !.core[p.ip].count = @ + 1]
                           ELSE iget(p, p.u.dent.ino), p.ip)))

\* falloc(): s.fd is the lowest free descriptor; NFILE is above NOFILE.
falloc(s) ==
    LET spare == {f \in Fds : s.ofile[f] = NoFile} IN
    IF spare = {} THEN fails(s, "EMFILE") ELSE [s EXCEPT !.fd = Min(spare)]

open1(s, i, write, trf) ==
    LET file(t) == IF t.u.error # OK THEN iput(t, i)
                   ELSE [t EXCEPT !.ofile[t.fd] = [ip |-> i, write |-> write]]
    IN  IF write /\ trf # 2 /\ s.core[i].ino.mode = "dir" THEN iput(fails(s, "EISDIR"), i)
        ELSE file(falloc(prele(IF trf = 1 THEN itrunc(s, i) ELSE s, i)))

\* v7fs_open() with the flags of flags; O_WRONLY is "write".
open(s, path, flags) ==
    LET opened(t, trf) == returns(open1(t, t.ip, "write" \in flags, trf))
        try(t) ==
            IF t.ip # NULL
            THEN IF {"creat", "excl"} \subseteq flags THEN gives(iput(t, t.ip), "EEXIST")
                 ELSE opened(t, IF "trunc" \in flags THEN 1 ELSE 0)
            ELSE IF "creat" \notin flags \/ t.u.error # OK THEN returns(t)
            ELSE found(maknode(t, "reg"), LAMBDA m : opened(m, 2))
    IN  try(namei(begin(s), path, IF "creat" \in flags THEN "create" ELSE "find"))

getf(s, f) == IF s.ofile[f] = NoFile THEN fails(s, "EBADF") ELSE s

\* closef(): plock() of an inode that is locked would never end.
closef(s, i) == iput([s EXCEPT !.spins = @ \/ s.core[i].locked], i)

\* v7fs_close() returns 0 whatever close() finds.
close(s, f) ==
    LET t == getf(begin(s), f) IN
    gives(IF t.u.error # OK THEN t ELSE closef([t EXCEPT !.ofile[f] = NoFile], t.ofile[f].ip), OK)

\* a new name is looked up, and made if it does not exist
create(t, Then(_)) ==
    IF t.ip # NULL THEN gives(iput(t, t.ip), "EEXIST")
    ELSE IF t.u.error # OK THEN returns(t) ELSE Then(t)

mknod(s, path) ==
    create(namei(begin(s), path, "create"), LAMBDA t :
        found(maknode(t, "reg"), LAMBDA m : returns(iput(m, m.ip))))

\* v7fs_write() of one block at the end of the file
write(s, f) ==
    LET i == s.ofile[f].ip
        t == getf(begin(s), f)
    IN  IF ~t.ofile[f].write THEN returns(fails(t, "EBADF"))
        ELSE IF t.bfree = 0 THEN returns(fails(t, "ENOSPC"))
        ELSE [t EXCEPT !.bfree = @ - 1, !.res = OK,
                       !.core[i].ino.size = @ + 1, !.core[i].upd = TRUE]

(***************************************************************************)
(* Calls made of calls.                                                    *)
(***************************************************************************)

Own == {".", ".."}

failnonemptydir(name, mode) == IF mode = "dir" /\ name \in Own THEN OK ELSE "ENOTEMPTY"

\* v7fs_enumdir() with v7fs_failnonemptydir(), as v7fs_rmdir() calls it
enumdir(s, path) ==
    LET visit(t, e) ==
            IF t.res # OK \/ e.ino = NULL THEN t
            ELSE found(iget(begin(t), e.ino), LAMBDA g :
                     gives(iput(iupdat(g, g.ip), g.ip), failnonemptydir(e.name, modeOf(g, g.ip))))
        walk(o, d) == FoldLeft(visit, [o EXCEPT !.core[d].upd = TRUE],
                               SubSeq(o.ents[d], 1, o.core[d].ino.size))
        ends(e) == gives(close(e, e.fd), e.res)
    IN  onward(open(s, path, {}), LAMBDA o : ends(walk(o, o.ofile[o.fd].ip)))

\* the last steps of v7fs_rmdir()
unlinkDir(s, path) ==
    onward(unlink(s, Append(path, "..")), LAMBDA a :
        onward(unlink(a, Append(path, ".")), LAMBDA b : unlink(b, path)))

isdirlinkpath(path) == path # <<>> /\ Last(path) \in Own

rmdir(s, path) ==
    onward(stat(s, path), LAMBDA t :
        IF modeOf(t, t.ip) # "dir" THEN gives(t, "ENOTDIR")
        ELSE IF t.ip = ROOTINO THEN gives(t, "EBUSY")
        ELSE onward(enumdir(t, path), LAMBDA e :
                 IF isdirlinkpath(path) THEN gives(e, "EINVAL") ELSE unlinkDir(e, path)))

\* MUTANT: nothing is removed again.
undoMkdir_none(s, path) == s

\* what a failing v7fs_mkdir() has made is removed
undoMkdir(s, path) ==
    gives(unlink(unlink(unlink(s, Append(path, "..")), Append(path, ".")), path), s.res)

mkdir(s, path) ==
    LET undone(t) == IF t.res # OK THEN undoMkdir(t, path) ELSE t
        dots(m) == onward(link(iput(m, m.ip), path, Append(path, ".")), LAMBDA a :
                       onward(link(a, Front(path), Append(path, "..")), LAMBDA b : chmod(b, path)))
    IN  create(namei(begin(s), path, "create"), LAMBDA t :
            found(maknode(t, "dir"), LAMBDA m : undone(dots(m))))

\* v7fs_isindir(): res is EINVAL if a directory on the path is dirnum.
isindir(s, path, dirnum) ==
    LET same(x) == IF x.ip # NULL THEN gives(iput(x, x.ip), IF x.ip = dirnum THEN "EINVAL" ELSE OK)
                   ELSE IF x.u.error = "ENOENT" THEN x ELSE returns(x)
        up(k, t) == onward(t, LAMBDA y : same(namei(y, SubSeq(path, 1, k - 1), "create")))
    IN  FoldRightDomain(up, path, gives(s, OK))

\* MUTANT: the entry is not written.
reparent_counts(s, d, at, oldp, newp) ==
    iupdat(relink(iupdat(relink(s, oldp, -1), oldp), newp, 1), newp)

\* the entry ".." of d moves from oldp to newp
reparent(s, d, at, oldp, newp) ==
    LET a == iupdat(relink(s, oldp, -1), oldp)
        b == writeEntry(a, d, at, entry("..", newp))
    IN  iupdat(relink(b, newp, 1), newp)

reparentdir(s, path) ==
    LET ends(t, newp, res) == gives(iput(close(t, t.fd), newp), res)
        swap(g, d, at, oldp, newp) ==
            IF g.ip = NULL THEN ends(g, newp, "EIO")
            ELSE iput(ends(reparent(g, d, at, oldp, newp), newp, OK), oldp)
        from(r, d, at, newp) ==
            IF at = 0 THEN ends(r, newp, "EIO")
            ELSE IF r.ents[d][at].ino = newp THEN ends(r, newp, OK)
            ELSE swap(iget(r, r.ents[d][at].ino), d, at, r.ents[d][at].ino, newp)
        dotdot(o, d) == SelectInSeq(SubSeq(o.ents[d], 1, o.core[d].ino.size),
                                    LAMBDA e : e.name = "..")
        within(o, d, newp) == from([o EXCEPT !.core[d].upd = TRUE], d, dotdot(o, d), newp)
        opened(o, newp) == IF o.res # OK THEN gives(iput(o, newp), o.res)
                           ELSE within(o, o.ofile[o.fd].ip, newp)
    IN  found(namei(s, Front(path), "find"), LAMBDA p :
            opened(open(prele(p, p.ip), path, {}), p.ip))

\* the last steps of v7fs_rename(): the destination is removed, the source is
\* linked to its name and unlinked
move(s, old, new, isdir, there, newdir) ==
    onward(IF ~there THEN s ELSE IF newdir THEN rmdir(s, new) ELSE unlink(s, new), LAMBDA w :
        onward(link(w, old, new), LAMBDA x :
            onward(unlink(x, old), LAMBDA y : IF isdir THEN reparentdir(y, new) ELSE y)))

rename(s, old, new) ==
    LET gone(t, oldip, res) == gives(iput(t, oldip), res)
        inside(r, oldip, isdir, there, newdir) ==
            IF r.res # OK THEN gone(r, oldip, r.res)
            ELSE move(iput(r, oldip), old, new, isdir, there, newdir)
        checked(q, oldip, newip, isdir, newdir) ==
            IF newip = oldip THEN gone(q, oldip, OK)
            ELSE IF newip # NULL /\ newdir /\ ~isdir THEN gone(q, oldip, "EISDIR")
            ELSE IF newip # NULL /\ ~newdir /\ isdir THEN gone(q, oldip, "ENOTDIR")
            ELSE inside(IF isdir THEN isindir(q, new, oldip) ELSE gives(q, OK),
                        oldip, isdir, newip # NULL, newdir)
        onto(n, oldip) == checked(IF n.ip = NULL THEN n ELSE iput(n, n.ip), oldip, n.ip,
                                  modeOf(n, oldip) = "dir", modeOf(n, n.ip) = "dir")
    IN  found(namei(begin(s), old, "find"), LAMBDA o :
            IF o.ip = ROOTINO \/ isdirlinkpath(old) \/ isdirlinkpath(new)
            THEN gone(o, o.ip, "EBUSY")
            ELSE onto(namei(prele(o, o.ip), new, "find"), o.ip))

\* update(): inodes that nobody has locked
update(s) ==
    LET due == {i \in InCore(s) : ~s.core[i].locked /\ s.core[i].upd} IN
    [s EXCEPT !.disk = [i \in Inos |-> IF i \in due THEN s.core[i].ino ELSE s.disk[i]],
              !.core = [i \in Inos |-> [s.core[i] EXCEPT !.upd = @ /\ i \notin due]],
              !.res = OK]

\* v7fs_shutdown() and v7fs_init() of the next run
remount(s) == LET t == update(s) IN mounted(t.disk, t.ents, t.bfree, t.sinode)

(***************************************************************************)
(* What a caller may do.  Directories are made and removed as directories: *)
(* the other calls get files.                                              *)
(***************************************************************************)
isFile(path) ==
    LET i == namei(fs, path, "find").ip IN (IF i = NULL THEN "reg" ELSE modeOf(fs, i)) = "reg"

\* Between calls the user structure holds nothing that is read again, and
\* what update() is going to overwrite on the disk is not read before.
settled(t) ==
    [t EXCEPT !.u = NoUser, !.ip = NULL, !.fd = 0, !.res = OK,
              !.disk = [i \in Inos |-> IF t.core[i].upd THEN Unused ELSE t.disk[i]],
              !.ents = [i \in Inos |-> [j \in DOMAIN t.ents[i] |->
                          IF t.ents[i][j].ino = NULL /\ t.ents[i][j].name # ".."
                          THEN entry(".", NULL) ELSE t.ents[i][j]]]]

\* Names: the call is one that changes names or fails.
done(t, names) ==
    /\ ~fs.spins
    /\ fs' = settled(t)
    /\ refused' = (names /\ t.res # OK)

Mkdir(path) == done(mkdir(fs, path), TRUE)
Rmdir(path) == done(rmdir(fs, path), TRUE)
Mknod(path) == done(mknod(fs, path), TRUE)
Open(path, flags) == done(open(fs, path, flags), FALSE)
Chmod(path) == done(chmod(fs, path), FALSE)
Truncate(path) == isFile(path) /\ done(truncate(fs, path), FALSE)
Link(old, new) == isFile(old) /\ done(link(fs, old, new), TRUE)
Unlink(path) == isFile(path) /\ done(unlink(fs, path), TRUE)
Rename(old, new) ==
    /\ "intoItself" \in Careless \/ old = new \/ isdirlinkpath(new) \/ ~IsPrefix(old, new)
    /\ "noDescriptor" \in Careless \/ isFile(old) \/ \E f \in Fds : fs.ofile[f] = NoFile
    /\ done(rename(fs, old, new), TRUE)
Close(f) == done(close(fs, f), FALSE)
Write(f) == done(write(fs, f), FALSE)
Sync == done(update(fs), FALSE)
Remount == (\A f \in Fds : fs.ofile[f] = NoFile) /\ done(remount(fs), FALSE)

\* flags a caller opens with
OpenFlags == {{}, {"write", "trunc"}, {"creat", "write"}, {"creat", "excl"}}

Next ==
    \/ \E path \in Paths :
         \/ Mkdir(path) \/ Rmdir(path) \/ Mknod(path) \/ Unlink(path)
         \/ Chmod(path) \/ Truncate(path)
         \/ \E flags \in OpenFlags : Open(path, flags)
         \/ \E new \in Paths : Link(path, new) \/ Rename(path, new)
         \/ \E own \in Own :
              \/ Rmdir(Append(path, own)) \/ Chmod(Append(path, own))
              \/ Rename(path, <<own>>) \/ Rename(Append(path, own), path)
    \/ \E f \in Fds : Close(f) \/ Write(f)
    \/ Sync \/ Remount

Spec == Init /\ [][Next]_vars

\* No call tells one name from another.
NameSymmetry == Permutations(Names)

(***************************************************************************)
(* Properties.                                                             *)
(***************************************************************************)

\* what an inode is, wherever its current copy is
inode(i) == IF i \in InCore(fs) THEN fs.core[i].ino ELSE fs.disk[i]

Allocated == {i \in Inos : inode(i).mode # "none"}
Dirs == {i \in Inos : inode(i).mode = "dir"}

\* the entries in use, as <<directory, name, inode>> with their place
Entries ==
    UNION {{[dir |-> d, at |-> j, name |-> fs.ents[d][j].name, ino |-> fs.ents[d][j].ino] :
              j \in {k \in 1..inode(d).size : fs.ents[d][k].ino # NULL}} : d \in Dirs}

Named(d) == {e.ino : e \in {x \in Entries : x.dir = d /\ x.name \notin Own}}

\* what can be reached by a path of at most n components
Reached[n \in 0..MaxIno] ==
    IF n = 0 THEN {ROOTINO} ELSE Reached[n - 1] \cup UNION {Named(d) : d \in Reached[n - 1]}

OpenOn(i) == {f \in Fds : fs.ofile[f].ip = i}

\* Types: counts never fall below zero, and s_inode stays within its table
\* (ifree() looks at the number of entries first, alloc.c:238).
NamesTypeOK ==
    /\ \A i \in Inos :
         /\ fs.disk[i] \in [mode : {"none", "dir", "reg"}, nlink : Nat, size : Nat]
         /\ fs.core[i].count \in Nat
         /\ fs.core[i].ino \in [mode : {"none", "dir", "reg"}, nlink : Nat, size : Nat]
         /\ i \in Dirs => inode(i).size <= Len(fs.ents[i])
    /\ fs.bfree \in 0..NBlocks
    /\ Len(fs.sinode) <= NICINOD /\ \A k \in DOMAIN fs.sinode : fs.sinode[k] \in Inos
    /\ refused \in BOOLEAN

\* The link count of a file is the number of directory entries that name it,
\* whatever calls succeeded or stopped half way: link() and unlink() change
\* both, and iput() (iget.c:126) frees a file by its count alone.
LinkCounts ==
    \A i \in Allocated : inode(i).nlink = Cardinality({e \in Entries : e.ino = i})

\* Between calls an inode is locked by nobody and held by the open files and,
\* the root, by rootdir and u_cdir: every error path puts what it got.  And no
\* call asked for an inode that it had locked itself: sleep() returns at once,
\* so that iget() (iget.c:44-48) would try for ever.
NoneHeld ==
    /\ ~fs.spins
    /\ \A i \in Inos :
         /\ ~fs.core[i].locked
         /\ fs.core[i].count = Cardinality(OpenOn(i)) + (IF i = ROOTINO THEN 2 ELSE 0)

\* A file or directory that is not free has a path from the root or is open:
\* no sequence of calls leaves an inode behind.
Rooted == \A i \in Allocated : i \in Reached[MaxIno] \/ OpenOn(i) # {}

\* Free blocks and the blocks of files and directories are all there are.
BlocksConserved ==
    fs.bfree + MapThenSumSet(LAMBDA i : blocksOf(inode(i)), Allocated) = NBlocks

\* A directory that has a name has one, and its two own entries; "." is the
\* directory.
TreeShape ==
    \A d \in Dirs : inode(d).nlink > 0 =>
      /\ \E e \in Entries : e.dir = d /\ e.name = "." /\ e.ino = d
      /\ Cardinality({e \in Entries : e.dir = d /\ e.name = ".."}) = 1
      /\ d # ROOTINO => Cardinality({e \in Entries : e.ino = d /\ e.name \notin Own}) = 1

\* The entry ".." of a directory names the directory it is in, also after
\* v7fs_rename() has moved it (v7fs.c:799-802).
DotDot ==
    \A e, f \in Entries :
      e.name \notin Own /\ e.ino \in Dirs /\ f.dir = e.ino /\ f.name = ".." => f.ino = e.dir

\* Link counts and free blocks agree with the directories and inodes there are,
\* and the table of free inodes stays within its size.
Accounts == NamesTypeOK /\ LinkCounts /\ BlocksConserved

\* The directories are a tree with the root at its top, and every inode in use
\* is in it or open.
WellFormed == Rooted /\ TreeShape /\ DotDot

\* Names before and after a call, their places left out.
Tree == {<<e.dir, e.name, e.ino>> : e \in Entries}

\* A call to make, remove, link or rename that fails leaves all names as they
\* were: v7fs_mkdir() undoes its steps, and v7fs_rename() removes the
\* destination only when the rest cannot fail.
RefusedUndone == [][refused' => fs' = fs \/ Tree' = Tree]_vars
=============================================================================
