----------------------------- MODULE MCZeusInit -----------------------------
EXTENDS ZeusInit

\* The console runs in both states, a terminal is started once in state 2.
Entry(s, i, f) == [state |-> s, id |-> i, flags |-> f]

MCInittab == <<Entry(1, "co", {"c"}), Entry(1, "t0", {"o", "k"}),
               Entry(2, "co", {"c", "t", "k"}), Entry(2, "t0", {})>>
=============================================================================
