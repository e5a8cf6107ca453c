------------------------------ MODULE MCConsole ------------------------------
(* Every word of 8 bits under every conversion; every combination of flags,   *)
(* with widths below, at and above what the numbers need, for the words at     *)
(* the edges; strings shorter than, as long as and longer than the buffer.     *)
EXTENDS Console

Item(f, w, conv, word) == [flags |-> f, width |-> w, conv |-> conv, word |-> word]
Numbers == {"d", "o", "u", "x", "X"}

MCFlags == {SelectSeq(<<"-", "+", "#", "0">>, LAMBDA f : f \in s) : s \in SUBSET {"-", "+", "#", "0"}}
           \cup {<<"0", "-">>, <<"0", "#", "0">>}

MCReasons == {Item(<<>>, 0, "s", length) : length \in {0, 2, 9, 10, 11, 12, 13, 15}}

MCRepeated == {Item(<<>>, 0, "s", 0), Item(<<>>, 0, "s", 15), Item(<<>>, 10, "d", 255)}

MCItems == {Item(<<>>, 0, conv, word) : conv \in Numbers, word \in 0 .. 255}
           \cup {Item(f, w, conv, word) : f \in MCFlags, w \in {0, 3, 5, 10},
                                          conv \in Numbers, word \in {0, 7, 8, 15, 100, 127, 128, 129, 255}}
           \cup {Item(<<>>, 10, conv, word) : conv \in {"i", "p", "c", "s", "%", "l"}, word \in {0, 10}}
           \cup MCReasons \cup MCRepeated
=============================================================================
