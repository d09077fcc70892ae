------------------------------ MODULE MCReport ------------------------------
(* Small trees, one for each way a report can go: two groups on one list,  *)
(* every counter, names that break lines or read like a tag, a group too   *)
(* long for one line, many copies, no file, a root that cannot be read.    *)
EXTENDS Report

MCFilters ==
    <<<<"*", ".locky">>, <<"READ", "*">>, <<"*", "_rec", "*">>, <<"ransom", ".txt">>,
      <<"*", ".id", "*", ".x">>,
      <<"PayMe0", "*", ".txt">>, <<"Lock", "*", ".", "*">>>>

MCNumeral == [t \in {"5", "-7"} |-> IF t = "5" THEN 5 ELSE -7]

Text == [readable |-> TRUE, bytes |-> 2000, heads |-> {}, tails |-> {}, package |-> FALSE,
         encryptTail |-> FALSE, head |-> ""]

Plain(name) == [name |-> name, copies |-> 1, big |-> FALSE, md5 |-> "m0", all777 |-> FALSE,
                suid |-> FALSE, sgid |-> FALSE, format |-> Text]

Holding(name, format) == [Plain(name) EXCEPT !.format = format]
Word(bytes) == [Text EXCEPT !.bytes = bytes, !.tails = {"docx"}]

MCFile ==
    [clean  |-> [Holding(<<"a", ".pdf">>, [Text EXCEPT !.head = "PDF"]) EXCEPT !.copies = 3],
     locky  |-> [Plain(<<"b", ".locky">>) EXCEPT !.copies = 12],
     note   |-> Plain(<<"READ", "ME">>),
     rec    |-> Plain(<<"v", ".id", "7", ".x">>),
     rights |-> [Plain(<<"c">>) EXCEPT !.all777 = TRUE, !.suid = TRUE],
     group  |-> [Plain(<<"d">>) EXCEPT !.sgid = TRUE, !.big = TRUE, !.copies = 12],
     doc    |-> Holding(<<"e", ".docx">>, [Text EXCEPT !.package = TRUE]),
     sheet  |-> Holding(<<"e", ".xlsx">>, [Text EXCEPT !.package = TRUE]),
     short  |-> Holding(<<"s", ".xlsx">>, [Word(1500) EXCEPT !.heads = {<<"xlsx", 2>>}]),
     many   |-> [Holding(<<"f", ".docx">>, Text) EXCEPT !.copies = 95],
     zip    |-> Holding(<<"g", ".zip">>, [Text EXCEPT !.head = "zip encrypted"]),
     tar    |-> Holding(<<"g", ".tar", ".gz">>, [Text EXCEPT !.head = "salted"]),
     tarBak |-> Holding(<<"g", ".tar", ".gz", ".bak">>, [Text EXCEPT !.head = "salted"]),
     tagged |-> Holding(<<"unmatched-suffix-", ".docx">>, Text),
     gz     |-> Holding(<<"h", ".gz">>, [Text EXCEPT !.head = "salted"]),
     pdf    |-> Holding(<<"i", ".pdf">>, [Text EXCEPT !.head = "PDF", !.encryptTail = TRUE]),
     wrong  |-> Holding(<<"j", ".pdf">>, [Text EXCEPT !.head = "xml"]),
     named  |-> Holding(<<"true", ".docx">>, [Text EXCEPT !.head = "xml"]),
     colon  |-> Plain(<<"k", ":", ".locky">>),
     split  |-> Plain(<<"l", "\n", ".locky">>),
     broken |-> Plain(<<"l", "\n", "m", "\n", ".locky">>),
     long   |-> [Plain(<<"o", ".locky">>) EXCEPT !.copies = 200, !.md5 = "m1"],
     bak    |-> Plain(<<"b", ".locky", ".bak">>),
     lock   |-> Plain(<<"z", "Lock", ".", "x">>),
     five   |-> Plain(<<"5", "(", "\n", ".locky">>),
     minus  |-> Plain(<<"-7", "\n", ".locky">>),
     payme  |-> Plain(<<"PayMe0", "1", ".txt">>),
     other  |-> Plain(<<"x", "PayMe0", ".txt">>),
     twice  |-> Plain(<<"PayMe0", ".txt", "1", ".txt">>),
     kinds  |-> Holding(<<"e", ".docx">>, [Text EXCEPT !.head = "xml"])]

T(root, files) == [root |-> root, files |-> files]

Common == {"clean", "locky", "note", "rights", "doc", "many", "wrong", "split"}

MCTrees ==
    [root : {"plain"}, files : {{}} \cup {{f} : f \in DOMAIN MCFile} \cup {{f, g} : f, g \in Common}]
    \cup {T(r, S) : r \in {"with :", "none"}, S \in {{"clean"}, {"note"}}}
    \cup {T("plain", S) : S \in {{"rec", "group"}, {"short", "tar"}, {"doc", "kinds"},
                                 {"zip", "tar"}, {"payme", "locky"}, {"pdf", "wrong", "named"}}}
=============================================================================
