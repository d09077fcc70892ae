----------------------------- MODULE MCDbDetect -----------------------------
(* Tables of up to six rows, three pages: every place of one encrypted row, *)
(* two of them on different pages, contents that hold a separator, alone   *)
(* and beside one that does not, no row.                                   *)
EXTENDS DbDetect

OneAt(n, c) == {[i \in 1..n |-> IF i = k THEN c ELSE "clean"] : k \in 1..n}

MCTables ==
    {<<>>, <<"clean">>, <<"clean", "enc">>, <<"clean", "enc#", "clean">>, <<"clean", "enc::">>, <<"enc::", "enc">>,
     <<"enc", "clean", "clean", "enc">>}
    \cup OneAt(6, "enc")
=============================================================================
