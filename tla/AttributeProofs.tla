-------------------------- MODULE AttributeProofs --------------------------
(***************************************************************************)
(* For every width of the integers, every id map and every sequence of     *)
(* calls, stat() reports the times and the owner that were set.            *)
(***************************************************************************)
EXTENDS AttributePrograms, WellFoundedInduction, TLAPS

-----------------------------------------------------------------------------
(* The id maps                                                             *)

MapType == Seq([host : Nat, fs : 0 .. MAX_UID_GID])

LEMMA FirstOf ==
    ASSUME NEW S, S \subseteq Nat, S # {}
    PROVE  First(S) \in S
<1>. DEFINE R == OpToRel(<, Nat)
<1>1. IsWellFoundedOn(R, Nat)
  BY NatLessThanWellFounded
<1>2. \A x, y \in Nat : y < x => <<y, x>> \in R
  <2>. SUFFICES ASSUME NEW x \in Nat, NEW y \in Nat, y < x PROVE <<y, x>> \in R
    OBVIOUS
  <2>1. <<y, x>> \in Nat \X Nat /\ <<y, x>>[1] < <<y, x>>[2]
    OBVIOUS
  <2>. QED
    BY <2>1, Zenon DEF OpToRel
<1>. HIDE DEF R
<1>3. PICK x \in S : \A y \in S : ~(<<y, x>> \in R)
  BY <1>1, WFMin
<1>4. \A y \in S : x <= y
  <2>. SUFFICES ASSUME NEW y \in S PROVE x <= y
    OBVIOUS
  <2>1. x \in Nat /\ y \in Nat
    BY <1>3
  <2>2. ~(y < x)
    BY <1>2, <1>3, <2>1, Zenon
  <2>. QED
    BY <2>1, <2>2
<1>5. \E i \in S : \A j \in S : i <= j
  BY <1>3, <1>4
<1>. QED
  BY <1>5, Zenon DEF First

LEMMA InSeq ==
    ASSUME NEW E, NEW s \in Seq(E), NEW i \in DOMAIN s
    PROVE  s[i] \in E
  OBVIOUS

\* A file system id that comes out of a map fits the host's ids.
LEMMA FsidFits ==
    ASSUME NEW map \in MapType, NEW h \in Nat
    PROVE  idmap_tofsid(map, h) \in 0 .. MAX_UID_GID
<1>. DEFINE found == Matches(map, "host", h)
<1>1. CASE found # {}
  <2>1. found \subseteq DOMAIN map /\ DOMAIN map \subseteq Nat
    BY DEF Matches, MapType
  <2>. HIDE DEF found
  <2>2. First(found) \in DOMAIN map
    BY <1>1, <2>1, FirstOf
  <2>3. idmap_tofsid(map, h) = map[First(found)].fs
    BY <1>1 DEF idmap_tofsid, found
  <2>. DEFINE e == map[First(found)]
  <2>4. e \in [host : Nat, fs : 0 .. MAX_UID_GID]
    BY <2>2, InSeq DEF MapType
  <2>. HIDE DEF e
  <2>5. e.fs \in 0 .. MAX_UID_GID
    BY <2>4
  <2>. QED
    BY <2>3, <2>5 DEF e
<1>2. CASE found = {}
  BY <1>2, IdAssumption DEF idmap_tofsid
<1>. QED
  BY <1>1, <1>2

\* Such an id is the same as an id of the host.
LEMMA FsidIsUint ==
    ASSUME NEW f \in 0 .. MAX_UID_GID
    PROVE  uint32(f) = f
<1>. DEFINE m == 2^WordBits
<1>1. m \in Nat /\ 0 <= f /\ f < m /\ f \in Nat
  BY IdAssumption
<1>. HIDE DEF m
<1>2. f % m = f
  BY <1>1
<1>. QED
  BY <1>2 DEF uint32, m

LEMMA CharInt ==
    ASSUME NEW f \in Int
    PROVE  char(f) \in Int
<1>. DEFINE m == 2^CharBits
            k == 2^(CharBits - 1)
<1>1. m \in Nat \ {0} /\ k \in Nat
  BY IdAssumption
<1>. HIDE DEF m, k
<1>2. ((f + k) % m) - k \in Int
  BY <1>1
<1>. QED
  BY <1>2 DEF char, Wrapped, m, k

-----------------------------------------------------------------------------
(* The inode of the file                                                   *)

ModeType == Modes \cup {{}}
Marks == {"acc", "upd", "chg"}

DiskType ==
    [uid : Int, gid : Int, mode : ModeType, atime : Int, mtime : Int, ctime : Int]

InodeType ==
    [nlink : Int, refs : Int, flag : SUBSET Marks, uid : Int, gid : Int,
     mode : ModeType, disk : DiskType]

\* An inode without marks is the inode on the disk.
Synced(ip) ==
    ip.flag = {} => /\ ip.uid = ip.disk.uid /\ ip.gid = ip.disk.gid
                    /\ ip.mode = ip.disk.mode

\* Writing an inode leaves its owner, and the times it has no mark for.
Keeps(ip, jp) ==
    /\ jp \in InodeType /\ Synced(jp)
    /\ jp.uid = ip.uid /\ jp.gid = ip.gid
    /\ "acc" \notin ip.flag => "acc" \notin jp.flag /\ jp.disk.atime = ip.disk.atime
    /\ "upd" \notin ip.flag => "upd" \notin jp.flag /\ jp.disk.mtime = ip.disk.mtime

LEMMA Iupdat ==
    ASSUME NEW ip \in InodeType, NEW ta \in Int, NEW tm \in Int, now \in Int
    PROVE  LET jp == iupdat(ip, ta, tm) IN
           /\ jp \in InodeType /\ jp.flag = {}
           /\ jp.uid = ip.uid /\ jp.gid = ip.gid /\ jp.mode = ip.mode
           /\ jp.refs = ip.refs
           /\ Synced(ip) => Synced(jp)
           /\ jp.disk.atime = IF "acc" \in ip.flag THEN ta ELSE ip.disk.atime
           /\ jp.disk.mtime = IF "upd" \in ip.flag THEN tm ELSE ip.disk.mtime
<1>1. CASE ip.flag = {}
  BY <1>1 DEF iupdat, InodeType
<1>2. CASE ip.flag # {}
  <2>. DEFINE d == [uid |-> ip.uid, gid |-> ip.gid, mode |-> ip.mode,
                    atime |-> IF "acc" \in ip.flag THEN ta ELSE ip.disk.atime,
                    mtime |-> IF "upd" \in ip.flag THEN tm ELSE ip.disk.mtime,
                    ctime |-> IF "chg" \in ip.flag THEN now ELSE ip.disk.ctime]
  <2>1. iupdat(ip, ta, tm) = [ip EXCEPT !.disk = d, !.flag = {}]
    BY <1>2 DEF iupdat
  <2>2. /\ d \in DiskType
        /\ d.uid = ip.uid /\ d.gid = ip.gid /\ d.mode = ip.mode
        /\ d.atime = IF "acc" \in ip.flag THEN ta ELSE ip.disk.atime
        /\ d.mtime = IF "upd" \in ip.flag THEN tm ELSE ip.disk.mtime
    BY DEF InodeType, DiskType
  <2>. HIDE DEF d
  <2>. QED
    BY <2>1, <2>2 DEF InodeType, Synced
<1>. QED
  BY <1>1, <1>2

\* iput() and a stat() or sync() keep what was said.
LEMMA IupdatKeeps ==
    ASSUME NEW ip \in InodeType, Synced(ip), now \in Int
    PROVE  Keeps(ip, iupdat(ip, now, now))
  BY Iupdat DEF Keeps

LEMMA IputKeeps ==
    ASSUME NEW ip \in InodeType, Synced(ip), now \in Int
    PROVE  Keeps(ip, iput(ip))
<1>1. CASE ip.refs > 0
  BY <1>1 DEF iput, Keeps
<1>2. CASE ~(ip.refs > 0)
  <2>. DEFINE w == iupdat(ip, now, now)
              jp == [w EXCEPT !.uid = w.disk.uid, !.gid = w.disk.gid,
                              !.mode = w.disk.mode]
  <2>1. iput(ip) = jp
    BY <1>2 DEF iput
  <2>2. Keeps(ip, w) /\ w.flag = {}
    BY IupdatKeeps, Iupdat
  <2>. HIDE DEF w
  <2>3. /\ w.disk \in DiskType /\ w \in InodeType
        /\ w.disk.uid = w.uid /\ w.disk.gid = w.gid /\ w.disk.mode = w.mode
    BY <2>2 DEF Keeps, Synced, InodeType
  <2>4. jp = w
    BY <2>3 DEF InodeType
  <2>. QED
    BY <2>1, <2>2, <2>4
<1>. QED
  BY <1>1, <1>2

LEMMA KeepsTrans ==
    ASSUME NEW ip, NEW jp, NEW kp, Keeps(ip, jp), Keeps(jp, kp)
    PROVE  Keeps(ip, kp)
  BY DEF Keeps

-----------------------------------------------------------------------------
(* The inductive invariant: the owner and the times that were set are      *)
(* those of the inode, and no mark is left that would change such a time.  *)

MapsType == [uid : MapType, gid : MapType]
SaidType == [uid : Int, gid : Int, atime : Int, mtime : Int]

Told(ip, sd, m) ==
    /\ sd.uid # Unsaid => idmap_tohostid(m.uid, uint32(ip.uid)) = sd.uid
    /\ sd.gid # Unsaid => idmap_tohostid(m.gid, uint32(ip.gid)) = sd.gid
    /\ sd.atime # Unsaid => "acc" \notin ip.flag /\ ip.disk.atime = sd.atime
    /\ sd.mtime # Unsaid => "upd" \notin ip.flag /\ ip.disk.mtime = sd.mtime

CallInv ==
    program = "calls" =>
        /\ todo = <<>> /\ calls \in Nat /\ now \in Int
        /\ ino \in [Objs -> InodeType] /\ Synced(file)
        /\ maps \in MapsType /\ said \in SaidType
        /\ Told(file, said, maps)
        /\ calls = 0 => said = SaidNothing

LEMMA KeepsTold ==
    ASSUME NEW ip, NEW jp, NEW sd, NEW m, Keeps(ip, jp), Told(ip, sd, m)
    PROVE  Told(jp, sd, m)
  BY DEF Keeps, Told

LEMMA CallInit == Init => CallInv
<1>. SUFFICES ASSUME Init, program = "calls" PROVE CallInv
  BY DEF CallInv
<1>1. todo = <<>>
  BY DEF Init, Script
<1>2. Absent \in InodeType /\ [Absent EXCEPT !.nlink = 1] \in InodeType
  BY DEF Absent, InodeType, DiskType, ModeType, Marks
<1>3. \A o \in Objs : ino[o] \in {Absent, [Absent EXCEPT !.nlink = 1]}
  BY DEF Init
<1>4. ino \in [Objs -> InodeType]
  BY <1>2, <1>3 DEF Init
<1>5. Synced(file)
  <2>1. Synced(Absent) /\ Synced([Absent EXCEPT !.nlink = 1])
    BY DEF Synced, Absent
  <2>. QED
    BY <1>3, <2>1, CallAssumption DEF file
<1>6. maps \in MapsType
  BY DEF Init, MapsType, MapType
<1>7. said = SaidNothing /\ said \in SaidType /\ Told(file, said, maps)
  BY DEF Init, SaidNothing, Unsaid, SaidType, Told
<1>. QED
  BY <1>1, <1>4, <1>5, <1>6, <1>7 DEF Init, CallInv

\* A call replaces the inode of the file.
LEMMA Applied ==
    ASSUME CallInv, Calls, UNCHANGED maps, NEW jp \in InodeType, Synced(jp),
           ino' = [ino EXCEPT ![CallObj] = jp],
           said' \in SaidType, Told(jp, said', maps)
    PROVE  CallInv'
<1>1. /\ program = "calls" /\ UNCHANGED <<program, todo, now>>
      /\ calls' = calls + 1 /\ calls \in Nat /\ ino \in [Objs -> InodeType]
  BY DEF Calls, CallInv, runVars
<1>2. ino' \in [Objs -> InodeType] /\ ino'[CallObj] = jp
  BY <1>1, CallAssumption
<1>3. file' = jp
  BY <1>2 DEF file
<1>4. calls' \in Nat /\ calls' # 0
  BY <1>1
<1>. QED
  BY <1>1, <1>2, <1>3, <1>4 DEF CallInv

\* A call that changes neither owner nor times, and one that does, both of
\* which end with iput().
LEMMA AppliedKeeps ==
    ASSUME CallInv, Calls, UNCHANGED <<maps, said>>, NEW jp, Keeps(file, jp),
           ino' = [ino EXCEPT ![CallObj] = jp]
    PROVE  CallInv'
<1>1. said \in SaidType /\ Told(file, said, maps)
  BY DEF CallInv, Calls
<1>2. jp \in InodeType /\ Synced(jp)
  BY DEF Keeps
<1>3. Told(jp, said, maps)
  BY <1>1, KeepsTold
<1>. QED
  BY <1>1, <1>2, <1>3, Applied

LEMMA AppliedPut ==
    ASSUME CallInv, Calls, UNCHANGED maps, NEW ip \in InodeType, Synced(ip),
           ino' = [ino EXCEPT ![CallObj] = iput(ip)],
           said' \in SaidType, Told(ip, said', maps)
    PROVE  CallInv'
<1>1. Keeps(ip, iput(ip))
  BY IputKeeps DEF CallInv, Calls
<1>2. iput(ip) \in InodeType /\ Synced(iput(ip))
  BY <1>1 DEF Keeps
<1>3. Told(iput(ip), said', maps)
  BY <1>1, KeepsTold
<1>. QED
  BY <1>2, <1>3, Applied

-----------------------------------------------------------------------------
(* The calls                                                               *)

LEMMA FileFacts ==
    ASSUME CallInv, Calls
    PROVE  /\ file \in InodeType /\ Synced(file) /\ now \in Int
           /\ maps \in MapsType /\ said \in SaidType
           /\ Told(file, said, maps)
  BY CallAssumption DEF CallInv, Calls, file

LEMMA StatStep ==
    ASSUME CallInv, CallStat \/ CallAccess
    PROVE  CallInv'
<1>. DEFINE w == iupdat(file, now, now)
<1>1. Calls /\ UNCHANGED <<maps, said>>
  BY DEF CallStat, CallAccess
<1>2. Keeps(file, w)
  BY <1>1, FileFacts, IupdatKeeps
<1>3. Keeps(file, iput(file))
  BY <1>1, FileFacts, IputKeeps
<1>4. Keeps(file, iput(w))
  <2>1. Keeps(w, iput(w))
    BY <1>1, <1>2, FileFacts, IputKeeps DEF Keeps
  <2>. QED
    BY <1>2, <2>1, KeepsTrans
<1>. HIDE DEF w
<1>5. \/ ino' = [ino EXCEPT ![CallObj] = iput(w)]
      \/ ino' = [ino EXCEPT ![CallObj] = iput(file)]
  BY DEF CallStat, CallAccess, Apply, v7fs_stat, v7fs_access, Result, w
<1>. QED
  BY <1>1, <1>3, <1>4, <1>5, AppliedKeeps

LEMMA ChmodStep ==
    ASSUME CallInv, CallChmod
    PROVE  CallInv'
<1>1. Calls /\ UNCHANGED <<maps, said>>
  BY DEF CallChmod
<1>2. PICK m \in Modes : Apply(v7fs_chmod(file, m))
  BY DEF CallChmod
<1>. DEFINE c == [file EXCEPT !.mode = m, !.flag = @ \cup {"chg"}]
<1>3. Keeps(file, c)
  BY <1>1, FileFacts DEF Keeps, Synced, InodeType, ModeType, Marks
<1>4. Keeps(file, iput(file))
  BY <1>1, FileFacts, IputKeeps
<1>5. Keeps(file, iput(c))
  <2>1. Keeps(c, iput(c))
    BY <1>1, <1>3, FileFacts, IputKeeps DEF Keeps
  <2>. QED
    BY <1>3, <2>1, KeepsTrans
<1>6. c = Marked([file EXCEPT !.mode = m], {"chg"})
  BY <1>1, FileFacts DEF Marked, InodeType
<1>. HIDE DEF c
<1>7. \/ ino' = [ino EXCEPT ![CallObj] = iput(c)]
      \/ ino' = [ino EXCEPT ![CallObj] = iput(file)]
  BY <1>2, <1>6 DEF Apply, v7fs_chmod, Result
<1>. QED
  BY <1>1, <1>4, <1>5, <1>7, AppliedKeeps

LEMMA OpenCloseStep ==
    ASSUME CallInv, CallOpen \/ CallClose
    PROVE  CallInv'
<1>. DEFINE more == [file EXCEPT !.refs = @ + 1]
            less == [file EXCEPT !.refs = @ - 1]
<1>1. Calls /\ UNCHANGED <<maps, said>>
  BY DEF CallOpen, CallClose
<1>2. Keeps(file, more) /\ Keeps(file, less)
  BY <1>1, FileFacts DEF Keeps, Synced, InodeType
<1>. HIDE DEF more, less
<1>3. Keeps(file, iput(more)) /\ Keeps(file, iput(less))
  <2>1. Keeps(more, iput(more)) /\ Keeps(less, iput(less))
    BY <1>1, <1>2, FileFacts, IputKeeps DEF Keeps
  <2>. QED
    BY <1>2, <2>1, KeepsTrans
<1>4. Keeps(file, iput(file))
  BY <1>1, FileFacts, IputKeeps
<1>5. \/ ino' = [ino EXCEPT ![CallObj] = iput(more)]
      \/ ino' = [ino EXCEPT ![CallObj] = iput(less)]
      \/ ino' = [ino EXCEPT ![CallObj] = iput(file)]
  BY DEF CallOpen, CallClose, Apply, v7fs_open, v7fs_close, Result, more, less
<1>. QED
  BY <1>1, <1>3, <1>4, <1>5, AppliedKeeps

LEMMA ReadWriteStep ==
    ASSUME CallInv, CallRead \/ CallWrite
    PROVE  CallInv'
<1>1. Calls /\ UNCHANGED maps
  BY DEF CallRead, CallWrite
<1>2. CASE CallRead
  <2>. DEFINE c == v7fs_read(file)
  <2>1. c \in InodeType /\ Synced(c)
    BY <1>1, FileFacts DEF v7fs_read, Marked, InodeType, Marks, Synced
  <2>2. said' \in SaidType
    BY <1>1, <1>2, FileFacts DEF CallRead, SaidType, Unsaid
  <2>3. Told(c, said', maps)
    BY <1>1, <1>2, FileFacts
    DEF CallRead, Told, v7fs_read, Marked, InodeType, SaidType
  <2>. HIDE DEF c
  <2>4. ino' = [ino EXCEPT ![CallObj] = c]
    BY <1>2 DEF CallRead, c
  <2>. QED
    BY <1>1, <2>1, <2>2, <2>3, <2>4, Applied
<1>3. CASE CallWrite
  <2>. DEFINE c == v7fs_write(file)
  <2>1. c \in InodeType /\ Synced(c)
    BY <1>1, FileFacts DEF v7fs_write, Marked, InodeType, Marks, Synced
  <2>2. said' \in SaidType
    BY <1>1, <1>3, FileFacts DEF CallWrite, SaidType, Unsaid
  <2>3. Told(c, said', maps)
    BY <1>1, <1>3, FileFacts
    DEF CallWrite, Told, v7fs_write, Marked, InodeType, SaidType
  <2>. HIDE DEF c
  <2>4. ino' = [ino EXCEPT ![CallObj] = c]
    BY <1>3 DEF CallWrite, c
  <2>. QED
    BY <1>1, <2>1, <2>2, <2>3, <2>4, Applied
<1>. QED
  BY <1>2, <1>3

\* An id that is kept comes back from the inode.
LEMMA KeptTold ==
    ASSUME CallInv, Calls, NEW k \in {"uid", "gid"}, NEW h \in Nat, Kept(k, h)
    PROVE  idmap_tohostid(maps[k], uint32(char(idmap_tofsid(maps[k], h)))) = h
<1>1. maps[k] \in MapType
  BY FileFacts DEF MapsType
<1>2. idmap_tofsid(maps[k], h) \in 0 .. MAX_UID_GID
  BY <1>1, FsidFits
<1>3. uint32(idmap_tofsid(maps[k], h)) = idmap_tofsid(maps[k], h)
  BY <1>2, FsidIsUint
<1>. QED
  BY <1>3, Zenon DEF Kept

LEMMA ChownStep ==
    ASSUME CallInv, CallChown
    PROVE  CallInv'
<1>1. Calls /\ UNCHANGED maps
  BY DEF CallChown
<1>2. PICK own \in HostIds \cup {Unchanged}, grp \in HostIds \cup {Unchanged} :
        LET res == v7fs_chown(file, own, grp)
            done == res.ok /\ (own # Unchanged \/ grp # Unchanged)
            now_said(k, h) ==
                IF ~done \/ h = Unchanged THEN said[k] ELSE IF Kept(k, h) THEN h ELSE Unsaid
        IN  /\ Apply(res)
            /\ said' = [uid |-> now_said("uid", own), gid |-> now_said("gid", grp),
                        atime |-> IF done THEN Unsaid ELSE said.atime, mtime |-> said.mtime]
  BY DEF CallChown
<1>. DEFINE uid == char(idmap_tofsid(maps.uid, own))
            gid == char(idmap_tofsid(maps.gid, grp))
            new == [file EXCEPT !.uid = IF own # Unchanged THEN uid ELSE @,
                                !.gid = IF grp # Unchanged THEN gid ELSE @]
            c == Marked(new, ChownMark)
            res == v7fs_chown(file, own, grp)
<1>3. \/ res = Result(file, TRUE) /\ own = Unchanged /\ grp = Unchanged
      \/ res = Result(file, FALSE)
      \/ res = Result(c, TRUE) /\ (own # Unchanged \/ grp # Unchanged)
  BY DEF v7fs_chown
<1>4. own \in Nat /\ grp \in Nat
  BY CallAssumption, IdAssumption DEF Unchanged
<1>5. /\ Result(file, TRUE).ip = iput(file) /\ Result(c, TRUE).ip = iput(c)
      /\ Result(file, FALSE).ip = iput(file)
  BY DEF Result
<1>6. Result(file, FALSE).ok = FALSE /\ Result(c, TRUE).ok = TRUE
  BY Zenon DEF Result
<1>7. CASE \/ res = Result(file, TRUE) /\ own = Unchanged /\ grp = Unchanged
           \/ res = Result(file, FALSE)
  <2>1. ino' = [ino EXCEPT ![CallObj] = iput(file)]
    BY <1>2, <1>5, <1>7 DEF Apply
  <2>2. said' = [uid |-> said.uid, gid |-> said.gid, atime |-> said.atime,
                 mtime |-> said.mtime]
    BY <1>2, <1>6, <1>7
  <2>3. said' = said
    BY <1>1, <2>2, FileFacts DEF SaidType
  <2>4. Keeps(file, iput(file))
    BY <1>1, FileFacts, IputKeeps
  <2>. QED
    BY <1>1, <2>1, <2>3, <2>4, AppliedKeeps
<1>8. CASE res = Result(c, TRUE) /\ (own # Unchanged \/ grp # Unchanged)
  <2>1. ino' = [ino EXCEPT ![CallObj] = iput(c)]
    BY <1>2, <1>5, <1>8 DEF Apply
  <2>2. said' = [uid |-> IF own = Unchanged THEN said.uid
                         ELSE IF Kept("uid", own) THEN own ELSE Unsaid,
                 gid |-> IF grp = Unchanged THEN said.gid
                         ELSE IF Kept("gid", grp) THEN grp ELSE Unsaid,
                 atime |-> Unsaid, mtime |-> said.mtime]
    BY <1>2, <1>6, <1>8
  <2>3. said' \in SaidType
    BY <1>1, <1>4, <2>2, FileFacts DEF SaidType, Unsaid
  <2>4. uid \in Int /\ gid \in Int
    <3>1. maps.uid \in MapType /\ maps.gid \in MapType
      BY <1>1, FileFacts DEF MapsType
    <3>2. /\ idmap_tofsid(maps.uid, own) \in 0 .. MAX_UID_GID
          /\ idmap_tofsid(maps.gid, grp) \in 0 .. MAX_UID_GID
      BY <1>4, <3>1, FsidFits
    <3>. QED
      BY <3>2, CharInt
  <2>5. /\ Kept("uid", own) => idmap_tohostid(maps.uid, uint32(uid)) = own
        /\ Kept("gid", grp) => idmap_tohostid(maps.gid, uint32(gid)) = grp
    BY <1>1, <1>4, KeptTold
  <2>. HIDE DEF uid, gid
  <2>6. /\ new \in InodeType /\ new.flag = file.flag /\ new.disk = file.disk
        /\ new.uid = IF own # Unchanged THEN uid ELSE file.uid
        /\ new.gid = IF grp # Unchanged THEN gid ELSE file.gid
    BY <1>1, <2>4, FileFacts DEF InodeType
  <2>. HIDE DEF new
  <2>7. /\ c \in InodeType /\ c.flag = file.flag \cup {"acc"} /\ c.disk = file.disk
        /\ c.uid = new.uid /\ c.gid = new.gid
    BY <2>6 DEF Marked, ChownMark, InodeType, Marks
  <2>. HIDE DEF c
  <2>8. Synced(c)
    BY <2>7 DEF Synced
  <2>9. Told(c, said', maps)
    BY <1>1, <2>2, <2>5, <2>6, <2>7, FileFacts DEF Told
  <2>. QED
    BY <1>1, <2>1, <2>3, <2>7, <2>8, <2>9, AppliedPut
<1>. QED
  BY <1>3, <1>7, <1>8

LEMMA UtimensStep ==
    ASSUME CallInv, CallUtimens
    PROVE  CallInv'
<1>1. Calls /\ UNCHANGED maps
  BY DEF CallUtimens
<1>2. PICK at \in Times \cup {UTIME_NOW, UTIME_OMIT},
           mt \in Times \cup {UTIME_NOW, UTIME_OMIT} :
        LET res == v7fs_utimens(file, at, mt)
            now_said(t, old) ==
                IF ~res.ok \/ t = UTIME_OMIT THEN old ELSE IF t = UTIME_NOW THEN now ELSE t
        IN  /\ Apply(res)
            /\ said' = [said EXCEPT !.atime = now_said(at, @), !.mtime = now_said(mt, @)]
  BY DEF CallUtimens
<1>. DEFINE ta == IF at \in {UTIME_NOW, UTIME_OMIT} THEN now ELSE at
            tm == IF mt \in {UTIME_NOW, UTIME_OMIT} THEN now ELSE mt
            marks == (IF at # UTIME_OMIT THEN {"acc"} ELSE {})
                       \cup (IF mt # UTIME_OMIT THEN {"upd"} ELSE {})
            c == Stamp(file, marks, ta, tm)
            res == v7fs_utimens(file, at, mt)
<1>3. \/ res = Result(file, TRUE) /\ at = UTIME_OMIT /\ mt = UTIME_OMIT
      \/ res = Result(file, FALSE)
      \/ res = Result(c, TRUE)
  BY DEF v7fs_utimens
<1>4. ta \in Int /\ tm \in Int
  BY <1>1, CallAssumption, FileFacts
<1>5. /\ Result(file, TRUE).ip = iput(file) /\ Result(c, TRUE).ip = iput(c)
      /\ Result(file, FALSE).ip = iput(file)
  BY DEF Result
<1>6. Result(file, FALSE).ok = FALSE /\ Result(c, TRUE).ok = TRUE
  BY Zenon DEF Result
<1>7. CASE \/ res = Result(file, TRUE) /\ at = UTIME_OMIT /\ mt = UTIME_OMIT
           \/ res = Result(file, FALSE)
  <2>1. ino' = [ino EXCEPT ![CallObj] = iput(file)]
    BY <1>2, <1>5, <1>7 DEF Apply
  <2>2. said' = [said EXCEPT !.atime = said.atime, !.mtime = said.mtime]
    BY <1>2, <1>6, <1>7
  <2>3. said' = said
    BY <1>1, <2>2, FileFacts DEF SaidType
  <2>4. Keeps(file, iput(file))
    BY <1>1, FileFacts, IputKeeps
  <2>. QED
    BY <1>1, <2>1, <2>3, <2>4, AppliedKeeps
<1>8. CASE res = Result(c, TRUE)
  <2>1. ino' = [ino EXCEPT ![CallObj] = iput(c)]
    BY <1>2, <1>5, <1>8 DEF Apply
  <2>2. said' = [said EXCEPT !.atime = IF at = UTIME_OMIT THEN @ ELSE ta,
                             !.mtime = IF mt = UTIME_OMIT THEN @ ELSE tm]
    BY <1>2, <1>6, <1>8
  <2>3. /\ said' \in SaidType /\ said'.uid = said.uid /\ said'.gid = said.gid
        /\ said'.atime = IF at = UTIME_OMIT THEN said.atime ELSE ta
        /\ said'.mtime = IF mt = UTIME_OMIT THEN said.mtime ELSE tm
    BY <1>1, <1>4, <2>2, FileFacts DEF SaidType
  <2>. HIDE DEF ta, tm
  <2>. DEFINE m == Marked(file, marks)
              w == iupdat(m, ta, tm)
  <2>4. /\ m \in InodeType /\ m.disk = file.disk
        /\ m.uid = file.uid /\ m.gid = file.gid
        /\ ("acc" \in m.flag) <=> ("acc" \in file.flag \/ at # UTIME_OMIT)
        /\ ("upd" \in m.flag) <=> ("upd" \in file.flag \/ mt # UTIME_OMIT)
        /\ m.flag = {} => m = file
    BY <1>1, FileFacts DEF Marked, InodeType, Marks
  <2>5. Synced(m)
    BY <1>1, <2>4, FileFacts, Zenon DEF Synced
  <2>. HIDE DEF m
  <2>6. /\ w \in InodeType /\ w.flag = {} /\ w.uid = m.uid /\ w.gid = m.gid
        /\ Synced(w)
        /\ w.disk.atime = IF "acc" \in m.flag THEN ta ELSE m.disk.atime
        /\ w.disk.mtime = IF "upd" \in m.flag THEN tm ELSE m.disk.mtime
    BY <1>1, <1>4, <2>4, <2>5, FileFacts, Iupdat, SMTT(60)
  <2>7. c = [w EXCEPT !.flag = @ \ {"acc", "upd"}]
    BY DEF Stamp, w, m
  <2>. HIDE DEF w, c, marks
  <2>8. c = w
    BY <2>6, <2>7 DEF InodeType
  <2>9. Told(w, said', maps)
    BY <1>1, <2>3, <2>4, <2>6, FileFacts DEF Told
  <2>. QED
    BY <1>1, <2>1, <2>3, <2>6, <2>8, <2>9, AppliedPut
<1>. QED
  BY <1>3, <1>7, <1>8

LEMMA SyncStep ==
    ASSUME CallInv, CallSync
    PROVE  CallInv'
<1>1. /\ Calls /\ UNCHANGED <<maps, said>>
      /\ ino' = [o \in Objs |-> iupdat(ino[o], now, now)]
  BY DEF CallSync, v7_update
<1>2. /\ program = "calls" /\ UNCHANGED <<program, todo, now>>
      /\ calls' = calls + 1 /\ calls \in Nat /\ ino \in [Objs -> InodeType]
  BY <1>1 DEF Calls, CallInv, runVars
<1>3. ino' \in [Objs -> InodeType]
  <2>1. \A o \in Objs : iupdat(ino[o], now, now) \in InodeType
    BY <1>1, <1>2, FileFacts, Iupdat
  <2>. QED
    BY <1>1, <2>1
<1>4. file' = iupdat(file, now, now)
  BY <1>1, CallAssumption DEF file
<1>5. Keeps(file, file')
  BY <1>1, <1>4, FileFacts, IupdatKeeps
<1>6. Synced(file') /\ Told(file', said, maps)
  BY <1>1, <1>5, FileFacts, KeepsTold DEF Keeps
<1>7. calls' \in Nat /\ calls' # 0
  BY <1>2
<1>. QED
  BY <1>1, <1>2, <1>3, <1>6, <1>7 DEF CallInv

LEMMA MapStep ==
    ASSUME CallInv, AddIdMap
    PROVE  CallInv'
<1>1. /\ program = "calls" /\ calls = 0
      /\ UNCHANGED <<ino, now, program, todo, calls, said>>
  BY DEF AddIdMap, idmap_addidmap, runVars, callVars
<1>2. PICK k \in {"uid", "gid"}, h \in HostIds, f \in FsIds : idmap_addidmap(k, h, f)
  BY DEF AddIdMap
<1>3. maps' \in MapsType
  <2>1. maps \in MapsType
    BY <1>1 DEF CallInv
  <2>2. CASE f > MAX_UID_GID
    BY <1>2, <2>1, <2>2 DEF idmap_addidmap
  <2>3. CASE ~(f > MAX_UID_GID)
    <3>. DEFINE e == [host |-> h, fs |-> f]
    <3>1. e \in [host : Nat, fs : 0 .. MAX_UID_GID]
      BY <2>3, CallAssumption, IdAssumption
    <3>. HIDE DEF e
    <3>2. maps[k] \in MapType
      BY <2>1 DEF MapsType
    <3>3. Append(maps[k], e) \in MapType
      BY <3>1, <3>2 DEF MapType
    <3>4. maps' = [maps EXCEPT ![k] = Append(maps[k], e)]
      BY <1>2, <2>3 DEF idmap_addidmap, e
    <3>. QED
      BY <2>1, <3>3, <3>4 DEF MapsType
  <2>. QED
    BY <2>2, <2>3
<1>4. said = SaidNothing
  BY <1>1 DEF CallInv
<1>5. Told(file, said', maps')
  BY <1>1, <1>4 DEF Told, SaidNothing
<1>. QED
  BY <1>1, <1>3, <1>4, <1>5 DEF CallInv, file

LEMMA CallsStep == CallInv /\ [Next]_vars => CallInv'
<1>. SUFFICES ASSUME CallInv, [Next]_vars PROVE CallInv'
  OBVIOUS
<1>1. UNCHANGED program
  BY DEF Next, vars, runVars, next, Make, MakeExisting, MakeMissing, MakeFails,
         Failure, Unlink, Chown, Chmod, Utimens, Metadata, Skipped, Finish,
         AddIdMap, SetIds, CallStat, CallAccess, CallChmod, CallChown, CallUtimens,
         CallOpen, CallRead, CallWrite, CallClose, CallSync, Calls, Tick
<1>2. CASE program # "calls"
  BY <1>1, <1>2 DEF CallInv
<1>3. CASE program = "calls"
  <2>1. todo = <<>> /\ now \in Int
    BY <1>3 DEF CallInv
  <2>2. ~(\/ Make \/ MakeExisting \/ MakeMissing \/ MakeFails \/ Unlink
          \/ Chown \/ Chmod \/ Utimens \/ Skipped \/ Finish)
    BY <2>1 DEF Make, MakeExisting, MakeMissing, MakeFails, Unlink, Chown, Chmod,
                Utimens, Skipped, Finish, Turn
  <2>3. CASE AddIdMap
    BY <2>3, MapStep
  <2>4. CASE SetIds
    <3>1. /\ UNCHANGED <<ino, maps, said, todo, now>>
          /\ calls' = calls + 1
      BY <2>4 DEF SetIds, Calls, runVars
    <3>2. calls' \in Nat /\ calls' # 0
      BY <1>3, <3>1 DEF CallInv
    <3>. QED
      BY <1>1, <1>3, <3>1, <3>2 DEF CallInv, file
  <2>5. CASE CallStat \/ CallAccess
    BY <2>5, StatStep
  <2>6. CASE CallChmod
    BY <2>6, ChmodStep
  <2>7. CASE CallChown
    BY <2>7, ChownStep
  <2>8. CASE CallUtimens
    BY <2>8, UtimensStep
  <2>9. CASE CallOpen \/ CallClose
    BY <2>9, OpenCloseStep
  <2>10. CASE CallRead \/ CallWrite
    BY <2>10, ReadWriteStep
  <2>11. CASE CallSync
    BY <2>11, SyncStep
  <2>12. CASE Tick
    <3>1. /\ UNCHANGED <<ino, maps, said, todo, calls>>
          /\ now' = now + 1
      BY <2>12 DEF Tick, v7_refreshclock, runVars, callVars
    <3>. QED
      BY <1>1, <1>3, <2>1, <3>1 DEF CallInv, file
  <2>13. CASE UNCHANGED vars
    BY <1>3, <2>13 DEF vars, attrVars, runVars, callVars, CallInv, file
  <2>. QED
    BY <2>2, <2>3, <2>4, <2>5, <2>6, <2>7, <2>8, <2>9, <2>10, <2>11, <2>12, <2>13
    DEF Next
<1>. QED
  BY <1>2, <1>3

\* For every width of the ids, every id map and every sequence of calls of the
\* library (v7fs.c) on a file: stat() reports the times utimens() set, until
\* the file is read or written, and the owner chown() accepted.
THEOREM StatTellsHolds == Spec => []StatTells
<1>1. CallInv => StatTells
  <2>. SUFFICES ASSUME CallInv, program = "calls",
                       NEW k \in DOMAIN said, said[k] # Unsaid
                PROVE  said[k] = Reported(CallObj)[k]
    BY DEF StatTells
  <2>1. /\ said \in SaidType /\ Told(file, said, maps)
        /\ file \in InodeType /\ Synced(file) /\ now \in Int
    BY CallAssumption DEF CallInv, file
  <2>. DEFINE w == iupdat(file, now, now)
  <2>2. Keeps(file, w)
    BY <2>1, IupdatKeeps
  <2>3. Told(w, said, maps)
    BY <2>1, <2>2, KeepsTold
  <2>. HIDE DEF w
  <2>4. /\ Reported(CallObj).uid = idmap_tohostid(maps.uid, uint32(w.uid))
        /\ Reported(CallObj).gid = idmap_tohostid(maps.gid, uint32(w.gid))
        /\ Reported(CallObj).atime = w.disk.atime
        /\ Reported(CallObj).mtime = w.disk.mtime
    BY DEF Reported, file, w
  <2>5. k \in {"uid", "gid", "atime", "mtime"}
    BY <2>1 DEF SaidType
  <2>. QED
    BY <2>3, <2>4, <2>5 DEF Told
<1>. QED
  BY <1>1, CallInit, CallsStep, PTL DEF Spec
=============================================================================
