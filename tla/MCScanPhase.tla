---------------------------- MODULE MCScanPhase -----------------------------
(* A scan of four entries: two duplicates of one name, which the phases     *)
(* tell apart in other ways, a third copy under another name, and a large   *)
(* file that only the content phase flags.                                  *)
EXTENDS ScanPhase

MCEntries == 1..4

MCMeta == [e \in MCEntries |->
    [size      |-> IF e = 4 THEN "1 GiB or more" ELSE "below 1 GiB",
     md5       |-> IF e = 4 THEN "m2" ELSE "m1",
     all777    |-> e \in {1, 2},
     suid      |-> e = 3,
     sgid      |-> FALSE,
     filter    |-> IF e = 4 THEN "NoFilter" ELSE "*.locked",
     encrypted |-> e = 4,
     unmatched |-> e = 2]]

MCBaseName == <<"a.locked", "a.locked", "b.locked", "big.iso">>
=============================================================================
