----------------------------- MODULE MCNetDisk -----------------------------
(* A disk with a root folder, a sub-folder and three files for fetch and    *)
(* sync; one with five folders, of which the last lies behind the pages     *)
(* that FolderFetch gets at, for structs.  The database is empty or holds   *)
(* two entries: of a file that may be listed and of one that never is.      *)
EXTENDS NetDownload

MCPaths == {"f1", "f2", "f3"}
MCKeys == MCPaths \cup {"x"}
MCLeftovers == {{}, {"f3", "x"}}
MCKeyOf == [p \in MCPaths |-> p]
MCFolders == {"d0", "d1", "d2", "d3", "d4"}

Disk == [d \in MCFolders |->
    CASE d = "d0" -> <<"d1", "f1", "f2">>
      [] d = "d1" -> <<"f3">>
      [] OTHER    -> <<>>]

FolderDisk == [d \in MCFolders |->
    CASE d = "d0" -> <<"d1", "f1", "d2", "f2", "d3">>
      [] d = "d1" -> <<"d4">>
      [] OTHER    -> <<>>]

Start(prog, by, t, ids) == [program |-> prog, caller |-> by, tree |-> t, wanted |-> ids]

MCStarts ==
    {Start("fetch", "extract", Disk, ids) :
         ids \in {<<"f3">>, <<"f1", "f2">>, <<NoId, "f1">>}}
    \cup {Start("fetch", "frs", Disk, <<"f3">>),
          Start("sync", "extract", Disk, <<NoId>>),
          Start("structs", "extract", FolderDisk, <<NoId>>)}
=============================================================================
