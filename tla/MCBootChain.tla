---------------------------- MODULE MCBootChain -----------------------------
(* Instances of BootChain for TLC. *)
EXTENDS BootChain

\* File 0 is one request long; file 1 takes five requests, the last of them
\* short; the executive of SADIE takes two.
MCFileLen == [f \in Files |-> IF f = 0 THEN ReadSize ELSE 4 * ReadSize + 1]
MCStreamLen == [f \in {0, 1} |-> (f + 1) * ReadSize]

\* Records of more than one block, and one that is not a whole block.
MCRecords == [t \in {<<1, 0>>, <<1, 1>>} |-> IF t = <<1, 0>> THEN <<3, 1>> ELSE <<2>>]

\* One record, several, fewer bytes than a record has, and none.
MCReadCalls == {<<1, 4>>, <<3, 6>>, <<2, 2>>, <<1, 0>>}
=============================================================================
