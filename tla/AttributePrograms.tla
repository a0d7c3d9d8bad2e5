------------------------- MODULE AttributePrograms -------------------------
(***************************************************************************)
(* The programs that give the files of an image their owners, permissions  *)
(* and times: taperestore, mkv7img and mkdev.  Each is the list of the     *)
(* calls it makes, in order; calls that make an object may fail.  A fourth *)
(* program, "calls", makes any calls of the library on one file.           *)
(* What the programs copy is the subject of ImageBuilder.                  *)
(***************************************************************************)
EXTENDS Attributes

CONSTANTS
    Root,           \* the root directory, made by mkfs
    CallObj,        \* the file of the program "calls"
    Lists,          \* for each program, the lists of entries it may be given
    Existing,       \* sets of objects already in the image
    HostIds, FsIds, \* ids that callers use
    Modes,          \* permissions
    Times,          \* times given to utimens()
    MaxMaps,        \* bound: entries of the id maps
    MaxCalls,       \* bound: calls of the program "calls"
    MaxFaults       \* bound: calls that fail for a reason outside the model

ASSUME CallAssumption ==
    CallObj \in Objs /\ HostIds \subseteq Nat /\ FsIds \subseteq Nat /\ Times \subseteq Int

VARIABLES
    program,        \* the program that runs
    list,           \* its entries
    todo,           \* the calls it has yet to make
    r,              \* the object of the current entry was made
    errors,         \* failures, g_errors or err is not 0
    faults,         \* failures left
    spoiled,        \* objects of entries that failed
    fd,             \* how "calls" has its file open
    said,           \* the last owner and times given to the file of "calls"
    calls           \* calls of "calls"

runVars == <<program, list, todo, r, errors, faults, spoiled>>
callVars == <<fd, said, calls>>
vars == <<attrVars, runVars, callVars>>

Unsaid == -3
NoEntry == "none"
Sticky == <<"sticky", "t">>
Private == {"owner"} \X {"r", "w", "x"}        \* 0700
Closed == "closed"
SaidNothing == [uid |-> Unsaid, gid |-> Unsaid, atime |-> Unsaid, mtime |-> Unsaid]

-----------------------------------------------------------------------------
(* The calls of each program.  A call marked "if made" is left out when    *)
(* the object of its entry could not be made.                              *)

Call(op, e, ifmade) == [op |-> op, e |-> e, ifmade |-> ifmade]

set_metadata(e, ifmade) ==
    <<Call("chown", e, ifmade), Call("chmod", e, ifmade), Call("utimens", e, ifmade)>>

Install(e) ==
    <<Call("make", e, FALSE)>>
      \o (IF e.kind \in {"h", "u"} THEN <<>> ELSE set_metadata(e, TRUE))

Sync == <<Call("sync", NoEntry, FALSE)>>

Each(Op(_), s) ==
    LET upto[i \in 0 .. Len(s)] == IF i = 0 THEN <<>> ELSE upto[i - 1] \o Op(s[i])
    IN  upto[Len(s)]

IsDir(e) == e.kind = "d"

\* The last one first.
Directories(s) == SelectSeq([i \in 1 .. Len(s) |-> s[Len(s) + 1 - i]], IsDir)

Again(e) == set_metadata(e, FALSE)

\* MUTANT: one pass.
MutOnePass(s) == Each(Install, s) \o Sync

\* Directories get their times a second time, after their children.
taperestore(s) == Each(Install, s) \o Each(Again, Directories(s)) \o Sync

\* The directory given in the arguments gets an owner even if mkdir() failed.
copy_tree(e) == <<Call("make", e, FALSE), Call("chown", e, e.kind # "dst")>>

mkv7img(s) == Each(copy_tree, s) \o Sync

Node(e) ==
    IF e.kind = "dst" THEN copy_tree(e)
    ELSE <<Call("unlink", e, FALSE), Call("make", e, FALSE), Call("chown", e, TRUE)>>

mkdev(s) == Each(Node, s) \o Sync

Script(p, s) ==
    CASE p = "taperestore" -> taperestore(s)
      [] p = "mkv7img" -> mkv7img(s)
      [] p = "mkdev" -> mkdev(s)
      [] p = "calls" -> <<>>

\* Everything runs as root, but for "calls".
Init ==
    /\ program \in DOMAIN Lists
    /\ list \in Lists[program]
    /\ todo = Script(program, list)
    /\ \E old \in CASE program = "calls" -> {{CallObj}}
                    [] program = "mkv7img" -> {{}}
                    [] OTHER -> Existing :
         ino = [o \in Objs |-> IF o \in old \cup {Root} THEN [Absent EXCEPT !.nlink = 1]
                                                         ELSE Absent]
    /\ u = [uid |-> 0, ruid |-> 0, gid |-> 0]
    /\ maps = [uid |-> <<>>, gid |-> <<>>]
    /\ now = 1
    /\ r = TRUE /\ errors = FALSE /\ spoiled = {}
    /\ faults = MaxFaults
    /\ fd = Closed /\ said = SaidNothing /\ calls = 0

-----------------------------------------------------------------------------
(* The three programs                                                      *)

call == Head(todo)
entry == call.e

Turn(op) == todo # <<>> /\ call.op = op /\ (call.ifmade => r)

next == todo' = Tail(todo) /\ UNCHANGED <<program, list, u, maps, now, callVars>>

\* Only taperestore looks at what chown(), chmod() and utimens() return.
Metadata(res) ==
    /\ ino' = IF made(entry.obj) THEN [ino EXCEPT ![entry.obj] = res.ip] ELSE ino
    /\ errors' = (errors \/ (program = "taperestore" /\ ~(made(entry.obj) /\ res.ok)))
    /\ next
    /\ UNCHANGED <<r, faults, spoiled>>

Chown == Turn("chown") /\ Metadata(v7fs_chown(ino[entry.obj], entry.uid, entry.gid))
Chmod == Turn("chmod") /\ Metadata(v7fs_chmod(ino[entry.obj], entry.mode))
Utimens == Turn("utimens") /\ Metadata(v7fs_utimens(ino[entry.obj], entry.at, entry.mt))

Skipped ==
    /\ todo # <<>> /\ call.ifmade /\ ~r
    /\ next
    /\ UNCHANGED <<ino, r, errors, faults, spoiled>>

Finish ==
    /\ Turn("sync")
    /\ v7_update
    /\ next
    /\ UNCHANGED <<r, errors, faults, spoiled>>

\* The directory of the entry's name is written.
Named(f) == [f EXCEPT ![entry.dir] = iput(Marked(@, {"upd", "chg"}))]

\* v7fs_open() drops the sticky bit of a file it creates.
MakeMode ==
    IF entry.kind = "f" THEN entry.mode \ {Sticky}
    ELSE IF program = "taperestore" /\ entry.kind = "d" THEN Private
    ELSE entry.mode

\* v7fs_mkdir(): the real user as owner, then chmod().
NewDir == iput([maknode(MakeMode) EXCEPT !.uid = u.ruid])

Put(ip) == [ino EXCEPT ![entry.obj] = ip]

Linked(n) ==
    LET ip == ino[entry.obj] IN
    IF ip.nlink + n = 0 THEN Absent
    ELSE iput(Marked([ip EXCEPT !.nlink = @ + n], {"chg"}))

\* The inodes after the call that makes the entry, when it succeeds.
\* copy_file() truncates and writes a file that is already there.
Made ==
    CASE IsDir(entry) \/ entry.kind = "dst" -> Named(Put(NewDir))
      [] entry.kind = "f" /\ made(entry.obj) -> Put(iput(Marked(ino[entry.obj], {"upd", "chg"})))
      [] entry.kind \in {"f", "n"} /\ ~made(entry.obj) -> Named(Put(iput(maknode(MakeMode))))
      [] entry.kind = "h" -> Named(Put(Linked(1)))
      [] entry.kind = "u" -> Named(Put(Linked(-1)))

Missing ==
    \/ ~made(entry.dir)
    \/ entry.kind \in {"h", "u"} /\ ~made(entry.obj)

Exists == made(entry.obj) /\ entry.kind \in {"d", "dst", "n"}

\* A directory that exists is no error, but taperestore then leaves its
\* owner, permissions and times to the second pass.
MakeExisting ==
    /\ Turn("make") /\ ~Missing /\ Exists
    /\ r' = (entry.obj = Root \/ (entry.kind # "n" /\ program # "taperestore"))
    /\ errors' = (errors \/ entry.kind = "n")
    /\ spoiled' = IF entry.kind = "n" THEN spoiled \cup {entry.obj} ELSE spoiled
    /\ next
    /\ UNCHANGED <<ino, faults>>

Make ==
    /\ Turn("make") /\ ~Missing /\ ~Exists
    /\ ino' = Made
    /\ r' = TRUE
    /\ next
    /\ UNCHANGED <<errors, faults, spoiled>>

\* The failure of mkdir() of a directory given in the arguments is not
\* counted.  mkv7img goes on with a file it could not write to its end.
Failure ==
    /\ r' = (program = "mkv7img" /\ entry.kind = "f" /\ ino'[entry.obj].nlink > 0)
    /\ errors' = (errors \/ entry.kind # "dst")
    /\ spoiled' = IF entry.kind \in {"f", "n"} THEN spoiled \cup {entry.obj} ELSE spoiled
    /\ next

MakeMissing ==
    /\ Turn("make") /\ Missing
    /\ UNCHANGED ino
    /\ Failure
    /\ UNCHANGED faults

\* No space, no inode or an I/O error: nothing is made, though the directory
\* may have been written, or the file was made but not written to its end.
MakeFails ==
    /\ Turn("make") /\ ~Missing /\ ~Exists
    /\ faults > 0 /\ faults' = faults - 1
    /\ ino' \in {ino, Named(ino)} \cup (IF entry.kind = "f" THEN {Made} ELSE {})
    /\ Failure

\* mkdev removes a node of the same name; it does not look at the result.
Unlink ==
    /\ Turn("unlink")
    /\ ino' = IF made(entry.obj) THEN Named(Put(Linked(-1))) ELSE ino
    /\ next
    /\ UNCHANGED <<r, errors, faults, spoiled>>

-----------------------------------------------------------------------------
(* Any calls on one file                                                   *)

file == ino[CallObj]

Calls ==
    /\ program = "calls" /\ calls < MaxCalls
    /\ calls' = calls + 1
    /\ UNCHANGED <<runVars, now>>

Apply(res) == ino' = [ino EXCEPT ![CallObj] = res.ip]

\* The options of a mount come before its first call.
AddIdMap ==
    /\ program = "calls" /\ calls = 0 /\ fd = Closed
    /\ \E k \in {"uid", "gid"}, h \in HostIds, f \in FsIds :
         Len(maps.uid) + Len(maps.gid) < MaxMaps /\ idmap_addidmap(k, h, f)
    /\ UNCHANGED <<runVars, callVars>>

SetIds ==
    /\ Calls
    /\ \E h \in HostIds : u' \in {v7fs_setreuid(h), v7fs_setregid(h)}
    /\ UNCHANGED <<ino, maps, fd, said>>

CallStat == Calls /\ Apply(v7fs_stat(file)) /\ UNCHANGED <<u, maps, fd, said>>

CallAccess ==
    /\ Calls
    /\ \E m \in SUBSET {"r", "w"} : Apply(v7fs_access(file, m))
    /\ UNCHANGED <<u, maps, fd, said>>

CallChmod ==
    /\ Calls
    /\ \E m \in Modes : Apply(v7fs_chmod(file, m))
    /\ UNCHANGED <<u, maps, fd, said>>

\* chown() sets the access time as well.
CallChown ==
    /\ Calls
    /\ \E own, grp \in HostIds \cup {Unchanged} :
         LET res == v7fs_chown(file, own, grp)
             done == res.ok /\ (own # Unchanged \/ grp # Unchanged)
             now_said(k, h) ==
                 IF ~done \/ h = Unchanged THEN said[k] ELSE IF Kept(k, h) THEN h ELSE Unsaid
         IN  /\ Apply(res)
             /\ said' = [uid |-> now_said("uid", own), gid |-> now_said("gid", grp),
                         atime |-> IF done THEN Unsaid ELSE said.atime, mtime |-> said.mtime]
    /\ UNCHANGED <<u, maps, fd>>

CallUtimens ==
    /\ Calls
    /\ \E at, mt \in Times \cup {UTIME_NOW, UTIME_OMIT} :
         LET res == v7fs_utimens(file, at, mt)
             now_said(t, old) ==
                 IF ~res.ok \/ t = UTIME_OMIT THEN old ELSE IF t = UTIME_NOW THEN now ELSE t
         IN  /\ Apply(res)
             /\ said' = [said EXCEPT !.atime = now_said(at, @), !.mtime = now_said(mt, @)]
    /\ UNCHANGED <<u, maps, fd>>

CallOpen ==
    /\ Calls /\ fd = Closed
    /\ \E m \in {"r", "w"} :
         LET res == v7fs_open(file, m) IN
         Apply(res) /\ fd' = IF res.ok THEN m ELSE Closed
    /\ UNCHANGED <<u, maps, said>>

CallRead ==
    /\ Calls /\ fd = "r"
    /\ ino' = [ino EXCEPT ![CallObj] = v7fs_read(file)]
    /\ said' = [said EXCEPT !.atime = Unsaid]
    /\ UNCHANGED <<u, maps, fd>>

CallWrite ==
    /\ Calls /\ fd = "w"
    /\ ino' = [ino EXCEPT ![CallObj] = v7fs_write(file)]
    /\ said' = [said EXCEPT !.mtime = Unsaid]
    /\ UNCHANGED <<u, maps, fd>>

CallClose ==
    /\ Calls /\ fd # Closed
    /\ ino' = [ino EXCEPT ![CallObj] = v7fs_close(file)]
    /\ fd' = Closed
    /\ UNCHANGED <<u, maps, said>>

CallSync == Calls /\ v7_update /\ UNCHANGED <<u, maps, fd, said>>

Tick ==
    /\ (program = "calls" \/ todo # <<>>)
    /\ v7_refreshclock
    /\ UNCHANGED <<runVars, callVars>>

Next ==
    \/ Make \/ MakeExisting \/ MakeMissing \/ MakeFails \/ Unlink
    \/ Chown \/ Chmod \/ Utimens \/ Skipped \/ Finish
    \/ AddIdMap \/ SetIds \/ CallStat \/ CallAccess \/ CallChmod \/ CallChown
    \/ CallUtimens \/ CallOpen \/ CallRead \/ CallWrite \/ CallClose \/ CallSync
    \/ Tick

Spec == Init /\ [][Next]_vars

-----------------------------------------------------------------------------
(* Properties                                                              *)

\* A time that utimens() set is the time stat() reports, until the file is
\* read or written (or chown() touches the access time): marks that earlier
\* reads and writes left on an open inode do not overwrite it when the inode
\* is written later, by stat(), sync() or the last close().  An owner or group
\* that chown() accepted is the one stat() reports ever after, if the id fits
\* the char chown() keeps it in and the id maps map it back.
StatTells ==
    program = "calls" =>
        \A k \in DOMAIN said : said[k] # Unsaid => said[k] = Reported(CallObj)[k]

\* What stat() reports is what an entry asks for.
Exact(e) ==
    LET now_is == Reported(e.obj) IN
    /\ Kept("uid", e.uid) => now_is.uid = e.uid
    /\ Kept("gid", e.gid) => now_is.gid = e.gid
    /\ program = "taperestore" =>
         now_is.mode = e.mode /\ now_is.atime = e.at /\ now_is.mtime = e.mt
    /\ program # "taperestore" /\ e.kind # "dst" =>
         now_is.mode = IF e.kind = "f" THEN e.mode \ {Sticky} ELSE e.mode

Unlinked(e) == \E i \in DOMAIN list : list[i].kind = "u" /\ list[i].obj = e.obj

\* When a program is done, everything it made has the owner, permissions and
\* times its entry asks for, whatever else failed: a directory too, though
\* making its children changed its times after they were first set.  If the
\* program counted no error, nothing is missing.
ImageExact ==
    program # "calls" /\ todo = <<>> =>
        \A i \in DOMAIN list :
            LET e == list[i] IN
            e.kind \in {"d", "f", "n", "dst"} =>
                /\ made(e.obj) /\ e.obj \notin spoiled => Exact(e)
                /\ ~errors /\ e.kind # "dst" /\ ~Unlinked(e) => made(e.obj)
=============================================================================
