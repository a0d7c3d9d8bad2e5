----------------------------- MODULE BlockPool -----------------------------
(***************************************************************************)
(* What alloc() and free() promise while transfers succeed: every block is *)
(* free or handed out, never both, and "no space" means that no block is   *)
(* free.                                                                   *)
(***************************************************************************)
CONSTANT Blocks

VARIABLES
    reliable,       \* no transfer has failed
    pool,           \* blocks that may be handed out
    used,           \* blocks handed out
    full            \* the last request found no space

vars == <<reliable, pool, used, full>>

Init == reliable = TRUE /\ pool = {} /\ used = {} /\ full = FALSE

\* mkfs puts a new block on the list, or a file gives one back.
Give(b) ==
    /\ b \notin pool
    /\ pool' = pool \cup {b}
    /\ used' = used \ {b}
    /\ UNCHANGED full

Take(b) ==
    /\ b \in pool
    /\ pool' = pool \ {b}
    /\ used' = used \cup {b}
    /\ full' = FALSE

Fail == pool = {} /\ full' = TRUE /\ UNCHANGED <<pool, used>>

\* Nothing is promised from the first transfer that fails.
Next ==
    \/ reliable' = FALSE
    \/ reliable' = TRUE /\ (Fail \/ \E b \in Blocks : Give(b) \/ Take(b))

Spec == Init /\ [][Next]_vars
=============================================================================
