----------------------------- MODULE Interleave -----------------------------
(***************************************************************************)
(* The order in which v7fs_initfreelist() frees the data blocks of a new   *)
(* file system: from the end, n at a time, taking every m-th place.        *)
(***************************************************************************)
EXTENDS Integers, Sequences

\* MUTANT: a place that is taken is taken again.
place_again(n, taken, i) == i

\* The first place from i on that is not taken.
place(n, taken, i) ==
    CHOOSE p \in (0..(n - 1)) \ taken :
        \E k \in 0..(n - 1) :
            p = (i + k) % n /\ \A j \in 0..(k - 1) : (i + j) % n \in taken

\* adr[]: the places of a group of n, counted from its end.
adr(n, m) ==
    LET walk[j \in 0..n] ==
            IF j = 0 THEN [adr |-> <<>>, taken |-> {}, i |-> 0]
            ELSE LET w == walk[j - 1]
                     p == place(n, w.taken, w.i)
                 IN [adr |-> Append(w.adr, p + 1), taken |-> w.taken \cup {p}, i |-> (p + m) % n]
    IN walk[n].adr

\* The number of groups: d starts at fsize - 1, rounded up to a multiple of n.
groups(fsize, n) == (fsize - 1 + n - 1) \div n

\* The blocks in the order they are passed to free().
initfreelist(fsize, isize, n, m) ==
    LET at == adr(n, m)
        block(t) == (groups(fsize, n) - (t \div n)) * n - at[(t % n) + 1]
        turns == [t \in 1..(groups(fsize, n) * n) |-> block(t - 1)]
    IN SelectSeq(turns, LAMBDA f : f < fsize /\ f >= isize)
=============================================================================
