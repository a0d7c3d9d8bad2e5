--------------------------- MODULE MCLinePrinter ---------------------------
EXTENDS LinePrinter

\* Pages without a length, indented or narrow, and arguments that are refused.
MCParams == {[indent |-> 2, lines |-> 0, cols |-> 3],
             [indent |-> 0, lines |-> 0, cols |-> 2],
             [indent |-> 3, lines |-> 1, cols |-> 2]}
=============================================================================
