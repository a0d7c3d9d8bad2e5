------------------------ MODULE MCAttributePrograms ------------------------
(***************************************************************************)
(* A root, a directory, a file in it and a device; a char of three bits,   *)
(* an int16_t of four and host ids of six.                                 *)
(***************************************************************************)
EXTENDS AttributePrograms

rw == {"owner"} \X {"r", "w"}
all == {"owner", "group", "other"} \X {"r", "w"}

MCEntry(kind, obj, dir, uid, gid, mode) ==
    [kind |-> kind, obj |-> obj, dir |-> dir, uid |-> uid, gid |-> gid, mode |-> mode,
     at |-> 10 + uid, mt |-> 20 + gid]

\* 2 fits a char, 5 an int16_t and 9 neither.
top == MCEntry("d", "root", "root", 1, 2, all)
sub == MCEntry("d", "sub", "root", 2, 1, rw \cup {Sticky})
tool == MCEntry("f", "tool", "sub", 5, 3, rw \cup {Sticky})
tty == MCEntry("n", "tty", "sub", 2, 9, all)
alias == MCEntry("h", "tool", "root", 0, 0, rw)
gone == MCEntry("u", "tool", "root", 0, 0, rw)

dev == MCEntry("dst", "sub", "root", 0, 0, all)
usr == MCEntry("d", "sub", "root", 0, 0, rw \cup {Sticky})
root_tool == MCEntry("f", "tool", "sub", 0, 0, rw \cup {Sticky})
root_tty == MCEntry("n", "tty", "sub", 0, 0, rw)

MCLists == [calls |-> {<<>>},
            taperestore |-> {<<top, sub, tool, tty, alias>>, <<sub, tool, alias, gone>>,
                             <<top, sub, tool, gone>>},
            mkv7img |-> {<<usr, root_tool>>, <<dev, root_tool>>},
            mkdev |-> {<<dev, root_tty>>}]

MCObjs == {"root", "sub", "tool", "tty"}
MCExisting == {{}, {"sub"}, {"sub", "tool", "tty"}}
MCModes == {all, {}}
MCHostIds == {0, 2, 5}
MCFsIds == {3, 9}
MCTimes == {10}
=============================================================================
