---------------------------- MODULE MCSerialTape ----------------------------
(* Instances of SerialTape for TLC. *)
EXTENDS SerialTape

\* Files 0 and 1 are the boot files; file 2 has three blocks, file 3 has one.
MCFileLen == [f \in Files |-> CASE f = 2 -> 3 * BlockSize
                                [] f = 3 -> BlockSize
                                [] OTHER -> 0]
=============================================================================
