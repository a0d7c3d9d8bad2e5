------------------------------ MODULE MCFileIo ------------------------------
(***************************************************************************)
(* Two files with one direct block each, blocks of two bytes and of two    *)
(* addresses; four paths, two of them with the same content.               *)
(***************************************************************************)
EXTENDS ImageBuilder

word(n) == [i \in 1..n |-> 1 + (i % 2)]

MCPaths == {"p", "q", "r", "s"}
MCHost == [p |-> word(5), q |-> word(5), r |-> word(1), s |-> word(4)]
MCData == {word(1), word(4)}

file(p) == [kind |-> "f", path |-> p, aux |-> "none"]
hard(p, q) == [kind |-> "h", path |-> p, aux |-> q]
gone(p) == [kind |-> "u", path |-> p, aux |-> "none"]

MCLists ==
    [calls |-> {<<>>},
     mkv7img |-> {<<file("p"), file("r"), file("q")>>, <<file("s"), file("p"), file("q")>>},
     taperestore |-> {<<file("p"), file("r"), hard("q", "p")>>,
                      <<file("s"), file("p"), hard("q", "p")>>,
                      <<file("s"), file("r"), gone("s"), file("p"), hard("q", "p"), gone("p")>>}]

FileSymmetry == Permutations(Files)
=============================================================================
