--------------------------- MODULE MCFileTransfer ---------------------------
(* Two files: a text of two characters that is not to be replaced without   *)
(* asking, and a binary one.                                                *)
EXTENDS FileTransfer

MCFiles == <<[name |-> "f", text |-> <<"a", "nl">>, bin |-> FALSE, query |-> TRUE],
             [name |-> "g", text |-> <<"b">>, bin |-> TRUE, query |-> FALSE]>>
=============================================================================
