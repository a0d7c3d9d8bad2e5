----------------------------- MODULE MCTapeHost -----------------------------
(* An instance of TapeHost for TLC. *)
EXTENDS TapeHost

\* File 1 is a boot file read by version-1 clients; file 2 is not a whole
\* number of blocks long, file 5 is empty and file 6 has two blocks.
MCFileLen == [f \in Files |-> CASE f = 1 -> 3
                                [] f = 2 -> 5
                                [] f = 5 -> 0
                                [] f = 6 -> 4
                                [] OTHER -> 2]
=============================================================================
