-------------------------------- MODULE Mkfs --------------------------------
(***************************************************************************)
(* v7fs_mkfs(): the layout it derives from its arguments and the free list *)
(* it builds, for every combination of small arguments.                    *)
(***************************************************************************)
EXTENDS Interleave

CONSTANTS
    MinFs, MaxFs,       \* V7FS_MIN_FS_SIZE, V7FS_MAX_FS_SIZE
    MinItable, MaxItable, \* V7FS_MIN_ITABLE_SIZE, V7FS_MAX_ITABLE_SIZE
    MaxFn,              \* V7FS_MAXFN
    NIPB,               \* inodes in a block
    Ratio,              \* blocks for each block of inodes
    MaxAuto             \* inodes of a derived i-list

ASSUME MkfsAssumption ==
    /\ MinFs \in Nat /\ MinFs >= 5 /\ MaxFs \in Nat
    /\ MinItable = 1 /\ MaxItable \in Nat
    /\ MaxFn \in Nat \ {0} /\ NIPB \in Nat \ {0} /\ Ratio \in Nat \ {0}
    /\ MaxAuto \in Nat /\ MaxAuto >= NIPB

Args == [fssize : 0..(MaxFs + 1), isize : 0..(MaxItable + 1),
         n : 0..(MaxFn + 1), m : 0..(MaxFn + 1)]

lower(a, b) == IF a < b THEN a ELSE b

\* The blocks of the i-list, when they are not given.
derivedIsize(a) ==
    IF a.isize # 0 THEN a.isize
    ELSE LET share == a.fssize \div Ratio
         IN lower(IF share = 0 THEN 1 ELSE share, MaxAuto \div NIPB)

refused(a) ==
    \/ a.fssize < MinFs \/ a.fssize > MaxFs
    \/ derivedIsize(a) < MinItable \/ derivedIsize(a) > MaxItable
    \/ derivedIsize(a) > a.fssize - 4

fn(a) == IF a.n = 0 \/ a.n >= MaxFn THEN MaxFn ELSE a.n
fm(a) == IF a.m = 0 \/ a.m > fn(a) THEN 3 ELSE a.m

\* The file system that is made.
mkfs(a) ==
    [first |-> derivedIsize(a) + 2,
     list |-> initfreelist(a.fssize, derivedIsize(a) + 2, fn(a), fm(a)),
     tinode |-> derivedIsize(a) * NIPB - 2]

Accepted == {a \in Args : ~refused(a)}
=============================================================================
