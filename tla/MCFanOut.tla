------------------------------ MODULE MCFanOut ------------------------------
(* Up to four files for md5, so that more of them are counted than there   *)
(* are workers; three for the others.                                      *)
EXTENDS FanOut

JobLists(kinds, lengths) == UNION {[1..n -> kinds] : n \in lengths}

MCStarts ==
    [program : {"md5"}, jobs : JobLists({"good", "missing", "broken"}, 0..2)
                               \cup {<<"good", "good", "good">>, <<"missing", "good", "good">>,
                                     <<"good", "good", "good", "good">>, <<"good", "long">>}]
    \cup [program : {"walker"}, jobs : JobLists({"file", "dir", "vanished"}, 0..3)]
    \cup [program : {"collector"}, jobs : JobLists({"ok", "refused", "malformed"}, 0..3)]
=============================================================================
