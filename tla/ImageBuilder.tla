---------------------------- MODULE ImageBuilder ----------------------------
(***************************************************************************)
(* The programs that fill an image through the data path of FileIo:        *)
(* copy_file() of mkv7img.c, copy_file() and the files, links and unlinks  *)
(* of main() of taperestore.c.  A third program makes any calls of   *)
(* the library.  Names and inodes are the subject of V7Names: here a path  *)
(* has a file or none, and making a name may fail.                         *)
(***************************************************************************)
EXTENDS FileIo

CONSTANTS
    Paths,          \* names in the image
    Host,           \* the content on the host of the file for each path
    HostBuf,        \* the buffer of the copy loops, one more than UINT16_MAX
    Lists,          \* for each program, the lists of entries it may be given
    ReadFails,      \* programs that meet a host file that cannot be read to its end
    MaxCalls        \* bound: calls of the third program

ASSUME BuilderAssumption ==
    /\ HostBuf \in Nat \ {0} /\ MaxCalls \in Nat
    /\ DOMAIN Lists = {"calls", "mkv7img", "taperestore"}

VARIABLES
    program,        \* the program that runs
    todo,           \* entries it has yet to handle
    handled,        \* paths it has handled
    job,            \* the copy in progress
    of,             \* the file of each path
    known,          \* g_ded: paths with a copy, in order
    errors,         \* g_errors or failures is not 0
    calls           \* calls of the third program

programVars == <<program, todo, handled, job, of, known, errors, calls>>
vars == <<fileVars, programVars>>

None == "none"
Idle == [path |-> None, pos |-> 0, stopped |-> FALSE]

Init ==
    /\ FileInit
    /\ program \in DOMAIN Lists
    /\ todo \in Lists[program]
    /\ handled = {}
    /\ job = Idle
    /\ of = [p \in Paths |-> None]
    /\ known = <<>>
    /\ errors = FALSE
    /\ calls = 0

entry == Head(todo)
content == Host[job.path]

Handle(kind) == job = Idle /\ todo # <<>> /\ entry.kind = kind

\* The entry is done with, and counted as an error or not.
next(failure) ==
    /\ job' = Idle
    /\ todo' = Tail(todo)
    /\ handled' = IF entry.kind = "u" THEN handled \ {entry.path} ELSE handled \cup {entry.path}
    /\ errors' = (errors \/ failure)

\* v7fs_link(): fails if there is no target or no room for the name.
linked(target) == of[target] # None /\ of' = [of EXCEPT ![entry.path] = of[target]]

(***************************************************************************)
(* The start of both copy_file(): open() on the host and v7fs_open().      *)
(***************************************************************************)

unused == {f \in Files : \A p \in Paths : of[p] # f}

Open ==
    \/ next(TRUE) /\ UNCHANGED <<fileVars, of>>
    \/ /\ \E f \in unused :
            /\ of' = [of EXCEPT ![entry.path] = f]
            /\ returns([begin(f, 0) EXCEPT !.offset = 0], <<>>)
       /\ job' = [Idle EXCEPT !.path = entry.path]
       /\ UNCHANGED <<todo, handled, errors>>

(***************************************************************************)
(* mkv7img.                                                                *)
(***************************************************************************)

\* Size and hash of two host files are the same.
same(p, q) == Host[p] = Host[q]

copies(p) == {k \in DOMAIN known : same(known[k], p)}

\* dedup_lookup() finds a copy of a file that is not empty, and the link
\* succeeds; otherwise, or if the hash cannot be computed, it is copied.
ImageFile ==
    /\ program = "mkv7img" /\ Handle("f")
    /\ \/ /\ Host[entry.path] # <<>> /\ copies(entry.path) # {}
          /\ linked(known[CHOOSE k \in copies(entry.path) : \A l \in copies(entry.path) : k <= l])
          /\ next(FALSE)
          /\ UNCHANGED fileVars
       \/ Open
    /\ UNCHANGED <<program, known, calls>>

(***************************************************************************)
(* taperestore.                                                            *)
(***************************************************************************)

RestoreFile ==
    /\ program = "taperestore" /\ Handle("f")
    /\ Open
    /\ UNCHANGED <<program, known, calls>>

RestoreLink ==
    /\ program = "taperestore" /\ Handle("h")
    /\ \/ linked(entry.aux) /\ next(FALSE)
       \/ next(TRUE) /\ UNCHANGED of
    /\ UNCHANGED <<fileVars, program, known, calls>>

\* v7fs_unlink(): the last name takes the blocks of the file with it.
RestoreUnlink ==
    /\ program = "taperestore" /\ Handle("u")
    /\ \/ /\ of[entry.path] # None
          /\ of' = [of EXCEPT ![entry.path] = None]
          /\ \/ \E p \in Paths : of'[p] = of[entry.path] /\ next(FALSE) /\ UNCHANGED fileVars
             \/ /\ \A p \in Paths : of'[p] # of[entry.path]
                /\ \E bad \in Unreadable : returns(itrunc(begin(of[entry.path], bad)), <<>>)
                /\ next(res'.error # OK)
       \/ of[entry.path] = None /\ next(TRUE) /\ UNCHANGED <<fileVars, of>>
    /\ UNCHANGED <<program, known, calls>>

(***************************************************************************)
(* The copy loops.  v7fs_write() stores all of a buffer or fails.          *)
(***************************************************************************)

Copying == job # Idle /\ ~job.stopped


\* mkv7img goes on with the next buffer after an error, taperestore stops.
after ==
    /\ errors' = (errors \/ res'.error # OK)
    /\ job' = [job EXCEPT !.pos = least(@ + HostBuf, Len(content)),
                          !.stopped = program = "taperestore" /\ res'.error # OK]

Piece ==
    /\ Copying /\ job.pos < Len(content)
    /\ Write(of[job.path], SubSeq(content, job.pos + 1, least(job.pos + HostBuf, Len(content))))
    /\ after
    /\ UNCHANGED <<program, todo, handled, of, known, calls>>

\* read() fails on the host: only taperestore looks at its result.
HostReadFails ==
    /\ Copying /\ program \in ReadFails
    /\ job' = [job EXCEPT !.stopped = TRUE]
    /\ errors' = (errors \/ program = "taperestore")
    /\ UNCHANGED <<fileVars, program, todo, handled, of, known, calls>>

\* mkv7img remembers the file, if it is not empty and has a hash.
EndCopy ==
    /\ job # Idle /\ (job.stopped \/ job.pos = Len(content))
    /\ next(FALSE)
    /\ \/ program = "mkv7img" /\ content # <<>> /\ known' = Append(known, job.path)
       \/ UNCHANGED known
    /\ UNCHANGED <<fileVars, program, of, calls>>

AnyCall ==
    /\ program = "calls" /\ calls < MaxCalls
    /\ Calls
    /\ calls' = calls + 1
    /\ UNCHANGED <<program, todo, handled, job, of, known, errors>>

Next ==
    \/ ImageFile \/ RestoreFile \/ RestoreLink \/ RestoreUnlink
    \/ Piece \/ HostReadFails \/ EndCopy
    \/ AnyCall

Spec == Init /\ [][Next]_vars

(***************************************************************************)
(* Properties.                                                             *)
(***************************************************************************)

=============================================================================
