----------------------------- MODULE Attributes -----------------------------
(***************************************************************************)
(* Owners, permissions and times of files in the v7fs library: the in-core *)
(* inode with its marks and the inode on the disk, the maps between host   *)
(* and file system ids, and the calls that read or change them.            *)
(*                                                                         *)
(* Integers keep their widths, scaled down: a char has CharBits bits, an   *)
(* int16_t ShortBits, an id of the host WordBits.  Names are the subject   *)
(* of V7Names: the caller may search the directories on the way.           *)
(***************************************************************************)
EXTENDS Integers, Sequences

CONSTANTS
    Objs,                           \* the files and directories
    CharBits, ShortBits, WordBits,  \* widths
    MaxTime                         \* bound: the clock

ASSUME WidthAssumption ==
    /\ CharBits \in Nat /\ ShortBits \in Nat /\ WordBits \in Nat
    /\ 1 < CharBits /\ CharBits <= ShortBits /\ ShortBits < WordBits

VARIABLES
    ino,     \* for each object the in-core inode, and the one on the disk
    u,       \* u_uid, u_ruid and u_gid
    maps,    \* v7fs_uidmap and v7fs_gidmap, their entries in order
    now      \* v7_time

attrVars == <<ino, u, maps, now>>

-----------------------------------------------------------------------------
(* Integers and id maps                                                    *)

Wrapped(x, w) == ((x + 2^(w - 1)) % 2^w) - 2^(w - 1)
char(x) == Wrapped(x, CharBits)
uint32(x) == x % 2^WordBits

UTIME_NOW == -1
UTIME_OMIT == -2

MAX_UID_GID == 2^(ShortBits - 1) - 1
ASSUME IdAssumption ==
    /\ 2^WordBits \in Nat /\ MAX_UID_GID \in Nat /\ MAX_UID_GID < 2^WordBits
    /\ 2^CharBits \in Nat \ {0} /\ 2^(CharBits - 1) \in Nat
Nobody == 2^ShortBits - 2           \* defaulthostid
Unchanged == 2^WordBits - 1         \* -1 as an id

Matches(map, field, id) == {i \in DOMAIN map : map[i][field] = id}

First(S) == CHOOSE i \in S : \A j \in S : i <= j

idmap_tohostid(map, f) ==
    LET found == Matches(map, "fs", f) IN
    IF found # {} THEN map[First(found)].host
    ELSE IF f >= MAX_UID_GID THEN Nobody ELSE f

idmap_tofsid(map, h) ==
    LET found == Matches(map, "host", h) IN
    IF found # {} THEN map[First(found)].fs
    ELSE IF h = Nobody \/ h > MAX_UID_GID THEN MAX_UID_GID ELSE h

idmap_addidmap(k, h, f) ==
    /\ maps' = IF f > MAX_UID_GID THEN maps
               ELSE [maps EXCEPT ![k] = Append(@, [host |-> h, fs |-> f])]
    /\ UNCHANGED <<ino, u, now>>

-----------------------------------------------------------------------------
(* Inodes.  An object that nobody holds open has no in-core inode between  *)
(* calls; core and disk are then the same and there are no marks.          *)

Absent == [nlink |-> 0, refs |-> 0, flag |-> {}, uid |-> 0, gid |-> 0, mode |-> {},
           disk |-> [uid |-> 0, gid |-> 0, mode |-> {},
                     atime |-> 0, mtime |-> 0, ctime |-> 0]]

made(o) == ino[o].nlink > 0

\* The marks IACC, IUPD and ICHG.
Marked(ip, marks) == [ip EXCEPT !.flag = @ \cup marks]

\* Write the inode to the disk if it is marked.
iupdat(ip, ta, tm) ==
    IF ip.flag = {} THEN ip
    ELSE [ip EXCEPT
            !.disk = [uid |-> ip.uid, gid |-> ip.gid, mode |-> ip.mode,
                      atime |-> IF "acc" \in ip.flag THEN ta ELSE @.atime,
                      mtime |-> IF "upd" \in ip.flag THEN tm ELSE @.mtime,
                      ctime |-> IF "chg" \in ip.flag THEN now ELSE @.ctime],
            !.flag = {}]

\* The last reference writes the inode; the next call reads it again.
iput(ip) ==
    IF ip.refs > 0 THEN ip
    ELSE LET w == iupdat(ip, now, now)
         IN  [w EXCEPT !.uid = w.disk.uid, !.gid = w.disk.gid, !.mode = w.disk.mode]

\* A new inode; the directory of its name is marked by wdir().
maknode(mode) ==
    Marked([Absent EXCEPT !.nlink = 1, !.uid = u.uid, !.gid = u.gid, !.mode = mode],
           {"acc", "upd", "chg"})

-----------------------------------------------------------------------------
(* Permission                                                              *)

suser == u.uid = 0

owner(ip) == u.uid = ip.uid \/ suser

Class(ip) ==
    IF u.uid = ip.uid THEN "owner" ELSE IF u.gid = ip.gid THEN "group" ELSE "other"

access(ip, m) == suser \/ <<Class(ip), m>> \in ip.mode

-----------------------------------------------------------------------------
(* The calls: the inode after each, and whether it was refused.            *)

Result(ip, ok) == [ip |-> iput(ip), ok |-> ok]

v7fs_stat(ip) == Result(iupdat(ip, now, now), TRUE)

v7fs_chmod(ip, mode) ==
    IF owner(ip) THEN Result(Marked([ip EXCEPT !.mode = mode], {"chg"}), TRUE)
                 ELSE Result(ip, FALSE)

ChownMark == {"acc"}

\* The ids go through a char.
v7fs_chown(ip, own, grp) ==
    LET uid == char(idmap_tofsid(maps.uid, own))
        gid == char(idmap_tofsid(maps.gid, grp))
        refused == \/ own # Unchanged /\ ip.uid # uid /\ ~suser
                   \/ grp # Unchanged /\ ip.gid # gid /\ ~owner(ip)
    IN  IF own = Unchanged /\ grp = Unchanged THEN Result(ip, TRUE)
        ELSE IF refused THEN Result(ip, FALSE)
        ELSE Result(Marked([ip EXCEPT !.uid = IF own # Unchanged THEN uid ELSE @,
                                      !.gid = IF grp # Unchanged THEN gid ELSE @],
                           ChownMark), TRUE)

\* MUTANT: the marks of earlier calls are still there afterwards.
MutStampKeepsMarks(ip, marks, ta, tm) ==
    [iupdat(Marked(ip, marks), ta, tm) EXCEPT !.flag = ip.flag]

\* Marks of earlier calls go to the disk together with the new times.
Stamp(ip, marks, ta, tm) ==
    [iupdat(Marked(ip, marks), ta, tm) EXCEPT !.flag = @ \ {"acc", "upd"}]

v7fs_utimens(ip, at, mt) ==
    LET both == at = UTIME_NOW /\ mt = UTIME_NOW
        time(t) == IF t \in {UTIME_NOW, UTIME_OMIT} THEN now ELSE t
        marks == (IF at # UTIME_OMIT THEN {"acc"} ELSE {})
                   \cup (IF mt # UTIME_OMIT THEN {"upd"} ELSE {})
    IN  IF at = UTIME_OMIT /\ mt = UTIME_OMIT THEN Result(ip, TRUE)
        ELSE IF ~owner(ip) /\ (~both \/ ~access(ip, "w")) THEN Result(ip, FALSE)
        ELSE Result(Stamp(ip, marks, time(at), time(mt)), TRUE)

v7fs_access(ip, modes) == Result(ip, \A m \in modes : access(ip, m))

\* Open for reading or writing, read or write a byte, close.
v7fs_open(ip, m) ==
    IF access(ip, m) THEN Result([ip EXCEPT !.refs = @ + 1], TRUE)
                     ELSE Result(ip, FALSE)
v7fs_read(ip) == Marked(ip, {"acc"})
v7fs_write(ip) == Marked(ip, {"upd", "chg"})
v7fs_close(ip) == iput([ip EXCEPT !.refs = @ - 1])

v7_update == ino' = [o \in Objs |-> iupdat(ino[o], now, now)]

\* What stat() reports: convertstat() maps the ids.
Reported(o) ==
    LET ip == iupdat(ino[o], now, now) IN
    [uid |-> idmap_tohostid(maps.uid, uint32(ip.uid)),
     gid |-> idmap_tohostid(maps.gid, uint32(ip.gid)),
     mode |-> ip.mode, atime |-> ip.disk.atime, mtime |-> ip.disk.mtime]

v7fs_setreuid(h) == [u EXCEPT !.uid = idmap_tofsid(maps.uid, h), !.ruid = idmap_tofsid(maps.uid, h)]
v7fs_setregid(h) == [u EXCEPT !.gid = idmap_tofsid(maps.gid, h)]

v7_refreshclock == now < MaxTime /\ now' = now + 1 /\ UNCHANGED <<ino, u, maps>>

\* An id survives the maps and the char on its way to the disk and back.
Kept(k, h) ==
    /\ h # Unchanged
    /\ char(idmap_tofsid(maps[k], h)) = idmap_tofsid(maps[k], h)
    /\ idmap_tohostid(maps[k], idmap_tofsid(maps[k], h)) = h
=============================================================================
