------------------------------ MODULE NetDisk ------------------------------
(***************************************************************************)
(* The three programs that list a net disk (internal/netdisk/export.go):   *)
(*   fetch    extract -fetch: list every file and store its metadata       *)
(*   sync     netdisk -sync: list every file and count it                  *)
(*   structs  netdisk -structs: list the folders and print them as a tree  *)
(*                                                                         *)
(* A folder is listed page by page over HTTP, its sub-folders afterwards,  *)
(* depth first.  A request can fail (no connection, a status other than    *)
(* 200, an empty body) or bring a body that is no listing: json.Unmarshal's*)
(* error is ignored, so that reads as an empty folder.  Users of the disk  *)
(* change it meanwhile, and the pages of the new listing shift.            *)
(*                                                                         *)
(* A file or folder is represented by its id; its virtual name is the path *)
(* of ids that leads to it.                                                *)
(***************************************************************************)
EXTENDS BatchQueue, FiniteSetsExt, SequencesExt

CONSTANTS
    Folders, Root,  (* ids of the folders, and of the one that is listed   *)
    FetchPage,      (* page size of FileAndFolderFetch                     *)
    FirstPage,      (* page size of FolderFetch: of the first request,     *)
    NextPage,       (* and of the further ones                             *)
    NoId,           (* the empty id: strings.Split("", ",") is one of them *)
    Starts,         (* [program, caller, tree, wanted]: what is run on what*)
    MaxFaults,      (* bound: requests that fail or are answered wrongly   *)
    MaxChanges      (* bound: changes of the disk while it is listed       *)

ASSUME NetDiskAssumption ==
    /\ Root \in Folders
    /\ Paths \cap Folders = {}
    /\ {FetchPage, FirstPage, NextPage} \subseteq Nat \ {0}
    /\ NextPage <= FirstPage
    /\ MaxFaults \in Nat /\ MaxChanges \in Nat

(* Ids are unique on a disk, and no folder contains the root.              *)
ASSUME StartsAssumption ==
    \A s \in Starts :
        /\ s.program \in {"fetch", "sync", "structs"} /\ s.caller \in {"frs", "extract"}
        /\ s.wanted \in Seq(Paths \cup {NoId})
        /\ s.tree \in [Folders -> Seq(Paths \cup Folders)]
        /\ \A c, d \in Folders : \A i \in DOMAIN s.tree[c], j \in DOMAIN s.tree[d] :
               /\ s.tree[c][i] = s.tree[d][j] => c = d /\ i = j
               /\ s.tree[c][i] # Root

VARIABLES
    program,
    caller,     (* "frs" or "extract": who starts extract -fetch           *)
    wanted,     (* the ids asked for on the command line                   *)
    tree,       (* the disk: the entries of each folder, in listing order  *)
    token,      (* the login gave a token                                  *)
    main,       (* "login", "listing", "sending", "returned", "crashed"    *)
    calls,      (* the active calls of the recursive listing, inner first  *)
    looking,    (* MD5 and permissions of a page's files are being fetched *)
    files,      (* FilesInfo: the files in the order they were listed      *)
    folders,    (* FoldersInfo: the folders, with path and id              *)
    missed,     (* pages whose entries were not read                       *)
    next,       (* the file the sender goroutine handles next              *)
    fileChan,   (* its channel to the one worker, of capacity one          *)
    count,      (* the atomic counter                                      *)
    nodes,      (* the printed tree: the key of the node at each path      *)
    faults, changes

diskVars == <<tree, changes>>
listVars == <<calls, looking, files, folders, missed>>
sendVars == <<next, fileChan, count>>
startVars == <<program, caller, wanted>>
ndVars == <<bqVars, startVars, diskVars, listVars, sendVars, token, main, nodes, faults>>

TypeOK ==
    /\ BatchTypeOK
    /\ program \in {"fetch", "sync", "structs"} /\ caller \in {"frs", "extract"}
    /\ wanted \in Seq(Paths \cup {NoId})
    /\ tree \in [Folders -> Seq(Paths \cup Folders)]
    /\ {token, looking} \subseteq BOOLEAN
    /\ main \in {"login", "listing", "sending", "returned", "crashed"}
    /\ calls \in Seq([folder : Folders, path : Seq(Folders), page : Nat \ {0}, last : Nat,
                      own : Seq(Folders)])
    /\ files \in Seq(Paths)
    /\ folders \in Seq([path : Seq(Folders), key : Folders])
    /\ missed \in SUBSET (Folders \X Nat)
    /\ next \in Nat \ {0} /\ count \in Nat
    /\ fileChan \in Seq(Paths) /\ Len(fileChan) <= 1
    /\ faults \in 0..MaxFaults /\ changes \in 0..MaxChanges

Call(folder, path) ==
    [folder |-> folder, path |-> path, page |-> 1, last |-> 1, own |-> <<>>]

Init ==
    /\ BatchInit
    /\ \E s \in Starts :
          program = s.program /\ caller = s.caller /\ tree = s.tree /\ wanted = s.wanted
    /\ token = FALSE
    /\ main = "login"
    /\ calls = <<Call(Root, <<Root>>)>>
    /\ looking = FALSE
    /\ files = <<>> /\ folders = <<>> /\ missed = {}
    /\ next = 1 /\ fileChan = <<>> /\ count = 0
    /\ nodes = <<>>
    /\ faults = 0 /\ changes = 0

-----------------------------------------------------------------------------
(* A child process logs in and prints the token; anything but one line of  *)
(* output leaves the token empty, and the listing goes on without one.     *)
RegretNetDiskWithToken ==
    /\ main = "login"
    /\ main' = "listing"
    /\ \/ token' = TRUE /\ UNCHANGED faults
       \/ token' = FALSE /\ faults < MaxFaults /\ faults' = faults + 1
    /\ UNCHANGED <<bqVars, startVars, diskVars, listVars, sendVars, nodes>>

-----------------------------------------------------------------------------
(* The listing.                                                            *)
Top == Head(calls)
PageSize == IF program # "structs" THEN FetchPage
            ELSE IF Top.page = 1 THEN FirstPage ELSE NextPage
LastPageSize == IF program = "structs" THEN FirstPage ELSE FetchPage

Ceil(a, b) == (a + b - 1) \div b
Page(entries, page, size) == SubSeq(entries, (page - 1) * size + 1,
                                    Min({Len(entries), page * size}))
Select(entries, S) ==
    LET Kept[k \in 0..Len(entries)] ==
            IF k = 0 THEN <<>>
            ELSE Kept[k - 1] \o (IF entries[k] \in S THEN <<entries[k]>> ELSE <<>>)
    IN  Kept[Len(entries)]
FoldersIn(entries) == Select(entries, Folders)
FilesIn(entries) == Select(entries, Paths)

(* One more page is asked for; off by one, all but the last.               *)
MorePagesButLast == Top.page < Top.last \/ Top.page = 1
MorePages == Top.page <= Top.last

(* The sub-folders first: what the nodes of the tree would be keyed by if  *)
(* a call put its own folders behind those of its sub-folders.             *)
ReadPageBehind(entries, last) ==
    LET own == FoldersIn(entries) IN
    /\ calls' = [calls EXCEPT ![1].page = @ + 1, ![1].last = last, ![1].own = @ \o own]
    /\ files' = files \o FilesIn(entries)
    /\ folders' = [i \in DOMAIN own |-> [path |-> Append(Top.path, own[i]), key |-> own[i]]]
                  \o folders

(* Append a page to the lists; resetVirtualName gives its folders their    *)
(* names from the path of the call.                                        *)
ReadPage(entries, last) ==
    LET own == FoldersIn(entries) IN
    /\ calls' = [calls EXCEPT ![1].page = @ + 1, ![1].last = last, ![1].own = @ \o own]
    /\ files' = files \o (IF program = "structs" THEN <<>> ELSE FilesIn(entries))
    /\ folders' = folders \o
           [i \in DOMAIN own |-> [path |-> Append(Top.path, own[i]), key |-> own[i]]]

Listing == main = "listing" /\ calls # <<>> /\ ~looking

(* GetFileAndFolderList answers with a listing; TotalCount counts all the  *)
(* entries of the folder, and is taken from the first page.                *)
PageArrives ==
    /\ Listing /\ MorePages /\ token
    /\ LET entries == Page(tree[Top.folder], Top.page, PageSize) IN
       /\ ReadPage(entries, IF Top.page > 1 THEN Top.last
                            ELSE Ceil(Len(tree[Top.folder]), LastPageSize))
       /\ looking' = (program # "structs" /\ FilesIn(entries) # <<>>)
    /\ UNCHANGED <<bqVars, startVars, diskVars, sendVars, missed, token, main, nodes, faults>>

(* A body that is no listing: no entry, and no further page.  Without a    *)
(* token the server has no other answer.                                   *)
OtherBody ==
    /\ Listing /\ MorePages
    /\ \/ ~token /\ UNCHANGED faults
       \/ token /\ faults < MaxFaults /\ faults' = faults + 1
    /\ ReadPage(<<>>, IF Top.page > 1 THEN Top.last ELSE 0)
    /\ missed' = missed \cup {<<Top.folder, Top.page>>}
    /\ UNCHANGED <<bqVars, startVars, diskVars, sendVars, looking, token, main, nodes>>

(* A failed request: log.Fatalf for the first page of a folder, `continue` *)
(* for a further one.                                                      *)
FirstPageFails ==
    /\ Listing /\ Top.page = 1
    /\ faults < MaxFaults /\ faults' = faults + 1
    /\ main' = "crashed"
    /\ UNCHANGED <<bqVars, startVars, diskVars, listVars, sendVars, token, nodes>>

PageSkipped ==
    /\ Listing /\ MorePages /\ Top.page > 1
    /\ faults < MaxFaults /\ faults' = faults + 1
    /\ ReadPage(<<>>, Top.last)
    /\ missed' = missed \cup {<<Top.folder, Top.page>>}
    /\ UNCHANGED <<bqVars, startVars, diskVars, sendVars, looking, token, main, nodes>>

(* resetVirtualName: two requests per file of the page, all at once, all   *)
(* awaited.  One that fails ends the process.                              *)
LookUp ==
    /\ main = "listing" /\ looking
    /\ \/ /\ looking' = FALSE
          /\ UNCHANGED <<main, faults>>
       \/ /\ faults < MaxFaults /\ faults' = faults + 1
          /\ main' = "crashed"
          /\ UNCHANGED looking
    /\ UNCHANGED <<bqVars, startVars, diskVars, calls, files, folders, missed, sendVars, token, nodes>>

(* The recursive call for the next sub-folder, once all pages are read.    *)
Descend ==
    /\ Listing /\ ~MorePages /\ Top.own # <<>>
    /\ LET d == Head(Top.own) IN
       calls' = <<Call(d, Append(Top.path, d)), [Top EXCEPT !.own = Tail(@)]>> \o Tail(calls)
    /\ UNCHANGED <<bqVars, startVars, diskVars, looking, files, folders, missed, sendVars, token,
                   main, nodes, faults>>

Ascend ==
    /\ Listing /\ ~MorePages /\ Top.own = <<>>
    /\ calls' = Tail(calls)
    /\ UNCHANGED <<bqVars, startVars, diskVars, looking, files, folders, missed, sendVars, token,
                   main, nodes, faults>>

-----------------------------------------------------------------------------
(* extract -fetch and netdisk -sync: sender, channel, worker.              *)

(* frs hands -folder and -id to its download child only.                   *)
Ids == IF caller = "frs" THEN <<NoId>> ELSE wanted

Chosen(f) ==
    \/ program = "sync"
    \/ Ids = <<>> \/ Ids = <<NoId>>
    \/ Ids[1] # NoId /\ f \in Range(Ids)

StartSending ==
    /\ main = "listing" /\ calls = <<>> /\ program # "structs"
    /\ main' = "sending"
    /\ UNCHANGED <<bqVars, startVars, diskVars, listVars, sendVars, token, nodes, faults>>

SendFile ==
    /\ main = "sending" /\ next <= Len(files)
    /\ IF Chosen(files[next])
       THEN /\ fileChan = <<>>
            /\ fileChan' = <<files[next]>>
            /\ count' = IF program = "sync" THEN count + 1 ELSE count
       ELSE UNCHANGED <<fileChan, count>>
    /\ next' = next + 1
    /\ UNCHANGED <<bqVars, startVars, diskVars, listVars, token, main, nodes, faults>>

WorkerStores ==
    /\ main = "sending" /\ fileChan # <<>> /\ program = "fetch"
    /\ WouldFlush => opened
    /\ count' = count + 1
    /\ Enqueue(fileChan[1])
    /\ fileChan' = <<>>
    /\ UNCHANGED <<opened, startVars, diskVars, listVars, next, token, main, nodes, faults>>

WorkerDrops ==
    /\ main = "sending" /\ fileChan # <<>> /\ program = "sync"
    /\ fileChan' = <<>>
    /\ UNCHANGED <<bqVars, startVars, diskVars, listVars, next, count, token, main, nodes, faults>>

WorkerPanics ==
    /\ main = "sending" /\ fileChan # <<>> /\ program = "fetch"
    /\ WouldFlush /\ ~opened
    /\ main' = "crashed"
    /\ UNCHANGED <<bqVars, startVars, diskVars, listVars, sendVars, token, nodes, faults>>

AllSent == main = "sending" /\ next > Len(files) /\ fileChan = <<>>

(* Returning with lines still in the queue.                                *)
FinishWithoutSave ==
    /\ AllSent
    /\ main' = "returned"
    /\ UNCHANGED <<bqVars, startVars, diskVars, listVars, sendVars, token, nodes, faults>>

(* The channel is closed and the worker gone: log out, save the rest of    *)
(* the queue, return the count.                                            *)
Finish ==
    /\ AllSent
    /\ \/ /\ program = "fetch" /\ opened
          /\ DrainAndSave
          /\ main' = "returned"
       \/ /\ program = "fetch" /\ ~opened
          /\ main' = "crashed"
          /\ UNCHANGED <<queue, db, old>>
       \/ /\ program = "sync"
          /\ main' = "returned"
          /\ UNCHANGED <<queue, db, old>>
    /\ UNCHANGED <<opened, startVars, diskVars, listVars, sendVars, token, nodes, faults>>

-----------------------------------------------------------------------------
(* netdisk -structs.                                                       *)

(* Walk down a path and create the nodes that are missing, each with the   *)
(* key of the whole path.                                                  *)
AddPathToTree(t, p) ==
    LET new == {q \in Prefixes(p.path) : q # <<>>} \ DOMAIN t
    IN  [q \in DOMAIN t \cup new |-> IF q \in DOMAIN t THEN t[q] ELSE p.key]

TreeOf(paths) ==
    LET Built[k \in 0..Len(paths)] ==
            IF k = 0 THEN <<>> ELSE AddPathToTree(Built[k - 1], paths[k])
    IN  Built[Len(paths)]

PrintTree ==
    /\ main = "listing" /\ calls = <<>> /\ program = "structs"
    /\ main' = "returned"
    /\ nodes' = TreeOf(<<[path |-> <<Root>>, key |-> Root]>> \o folders)
    /\ UNCHANGED <<bqVars, startVars, diskVars, listVars, sendVars, token, faults>>

-----------------------------------------------------------------------------
(* Users of the disk: a file is removed, or a new one shows up.            *)
Uploaded == UNION {Range(tree[d]) : d \in Folders}

DiskChanges ==
    /\ main = "listing" /\ changes < MaxChanges
    /\ changes' = changes + 1
    /\ \E d \in Folders :
          \/ \E i \in DOMAIN tree[d] :
                /\ tree[d][i] \in Paths
                /\ tree' = [tree EXCEPT ![d] = RemoveAt(@, i)]
          \/ \E f \in Paths \ Uploaded, i \in 1..(Len(tree[d]) + 1) :
                tree' = [tree EXCEPT ![d] = InsertAt(@, i, f)]
    /\ UNCHANGED <<bqVars, startVars, listVars, sendVars, token, main, nodes, faults>>

ListStep == PageArrives \/ OtherBody \/ FirstPageFails \/ PageSkipped \/ LookUp \/ Descend \/ Ascend
SendStep == StartSending \/ SendFile \/ WorkerStores \/ WorkerDrops \/ WorkerPanics \/ Finish

ProgramStep == RegretNetDiskWithToken \/ ListStep \/ SendStep \/ PrintTree

-----------------------------------------------------------------------------
(* What may be said of a listing when it is over.                          *)

PageRead(d, i, size) ==
    /\ <<d, 1>> \notin missed
    /\ <<d, Ceil(i, size)>> \notin missed

Listed(e) == e = Root \/ e \in Range(files) \/ \E x \in Range(folders) : x.key = e

(* While nobody changes the disk, a fetch or sync that returns has listed  *)
(* every entry of every folder it got to, once, except those of the pages  *)
(* that failed, whose loss it does not mention: FileAndFolderFetch skips a *)
(* failed page and takes any other body for an empty folder.  The count is *)
(* the number of chosen files, and each of them has its entry.             *)
FetchAccountsForLoss ==
    main = "returned" /\ program # "structs" /\ changes = 0 =>
        /\ \A d \in Folders : Listed(d) =>
              \A i \in DOMAIN tree[d] : Listed(tree[d][i]) <=> PageRead(d, i, FetchPage)
        /\ IsInjective(files)
        /\ count = Cardinality({f \in Range(files) : Chosen(f)})
        /\ program = "fetch" => db = KeysOf({f \in Range(files) : Chosen(f)})

(* The tree netdisk -structs prints: every node carries the id of its own  *)
(* folder although AddPathToTree gives missing nodes the key of the path   *)
(* that is added, because parents are listed before their children.  With  *)
(* no fault it still leaves out folders: FolderFetch computes the number   *)
(* of pages with one page size and asks for them with a smaller one, so it *)
(* gets what it already has and stops at this position in each folder:     *)
StructsReach(d) == Max({FirstPage, NextPage * Ceil(Len(tree[d]), FirstPage)})

StructsTree ==
    main = "returned" /\ program = "structs" =>
        /\ \A q \in DOMAIN nodes : nodes[q] = Last(q)
        /\ faults = 0 /\ changes = 0 =>
              \A d \in Folders : Listed(d) =>
                  \A i \in DOMAIN tree[d] :
                      tree[d][i] \in Folders =>
                          (Listed(tree[d][i]) <=> i <= StructsReach(d))

(* For frs a fetch is a collection like Origin: until the disk changes,    *)
(* every step of it is one that Collection allows.                         *)
Sent == {f \in Range(SubSeq(files, 1, next - 1)) : Chosen(f)}

Promise == INSTANCE Collection WITH
    visited <- Sent,
    number  <- Cardinality(Sent),
    stored  <- db,
    kept    <- old,
    outcome <- IF main \in {"returned", "crashed"} THEN main ELSE "running",
    total   <- IF main = "returned" THEN count ELSE 0

FetchImplementsCollection ==
    /\ Promise!Init
    /\ [][program = "fetch" /\ changes = 0 => Promise!Next]_(Promise!collectionVars)
=============================================================================
