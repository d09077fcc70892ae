------------------------------- MODULE Report -------------------------------
(***************************************************************************)
(* frs -report (cmd/frs.go): reads report.frs with a line scanner, sorts   *)
(* the lines with four goroutines, computes the scores and prints the      *)
(* result as JSON.  The counters are atomic; the lists that the lines'     *)
(* paths and counts are appended to are shared without a lock.             *)
(***************************************************************************)
EXTENDS Verdicts, Functions

CONSTANTS
    Trees,          (* the reports read: [root, files], what was scanned   *)
    Workers,        (* the goroutines that sort lines: four                *)
    Capacity,       (* of the channel of lines: five                       *)
    Garbage         (* an element of a list that two goroutines tore       *)

ASSUME ReportAssumption ==
    /\ Capacity \in Nat \ {0} /\ Workers # {} /\ Garbage \notin Files
    /\ \A f \in Files : /\ File[f].copies \in Nat \ {0}
                        /\ File[f].name \in Seq(Range(File[f].name))
    /\ filters \in Seq(Range(filters)) /\ \A t \in Range(filters) : t \in Seq(Range(t))
    /\ {DupThreshold, MaxToken} \subseteq Nat /\ Range(Numeral) \subseteq Int
    /\ \A t \in Trees : /\ t.files \subseteq Files /\ IsFiniteSet(t.files)
                         /\ t.root \in {"plain", "with :", "none"}
                         /\ Garbage \notin Range(ReportLines(t.root, t.files))

(* One counter and one list of files each.                                 *)
Sorts == {"file", "ransom", "777", "suid", "sgid", "oa", "pdf", "oaPwd", "pdfPwd", "zipPwd"}

(* Two of them have a second list, of what their lines say.                *)
Table == [s \in {"file", "ransom"} |->
            CASE s = "file" -> "fileDetection" [] s = "ransom" -> "ransomFileDetection"]
Lists == Sorts \cup Range(Table)

VARIABLES
    tree,           (* what was scanned                                    *)
    unread,         (* the lines the scanner has still to read             *)
    scanner,        (* "reading" or "ended": the channel is closed         *)
    lineChan,       (* the buffered channel of lines                       *)
    worker,         (* "idle", "append", "write" or "done"                 *)
    line,           (* the line each worker is busy with                   *)
    todo,           (* the lists it has still to append to                 *)
    snapshot,       (* the list it read and will append to                 *)
    FileCount,
    total,          (* the atomic counters                                 *)
    list,
    raced,          (* lists on which two appends overlapped               *)
    main,           (* "opening", "waiting", "printed", "failed",          *)
                    (* "panicked" or "crashed"                             *)
    output          (* nothing, or the weighted sum of the five scores     *)

chanVars == <<unread, scanner, lineChan>>
workerVars == <<worker, line, todo, snapshot>>
resultVars == <<FileCount, total, list, raced>>
vars == <<tree, chanVars, workerVars, resultVars, main, output>>

NoLine == Line("", <<>>, {}, 0)

TypeOK ==
    /\ tree \in Trees
    /\ scanner \in {"reading", "ended"} /\ Len(lineChan) <= Capacity
    /\ worker \in [Workers -> {"idle", "append", "write", "done"}]
    /\ todo \in [Workers -> SUBSET Lists]
    /\ FileCount \in Nat /\ total \in [Sorts -> Int]
    /\ DOMAIN list = Lists /\ \A s \in Sorts : list[s] \in Seq(Files \cup {Garbage})
    /\ raced \subseteq Lists
    /\ main \in {"opening", "waiting", "printed", "failed", "panicked", "crashed"}

Init ==
    /\ tree \in Trees
    /\ unread = ReportLines(tree.root, tree.files)
    /\ scanner = "reading" /\ lineChan = <<>>
    /\ worker = [w \in Workers |-> "idle"]
    /\ line = [w \in Workers |-> NoLine]
    /\ todo = [w \in Workers |-> {}]
    /\ snapshot = [w \in Workers |-> <<>>]
    /\ FileCount = 0
    /\ total = [s \in Sorts |-> 0] /\ list = [s \in Lists |-> <<>>]
    /\ raced = {}
    /\ main = "opening" /\ output = <<>>

-----------------------------------------------------------------------------
Open ==
    /\ main = "opening"
    /\ main' \in {"waiting", "failed"}
    /\ UNCHANGED <<tree, chanVars, workerVars, resultVars, output>>

(* A line that is too long ends the scan like the end of the file: the     *)
(* scanner's error is not asked for.                                       *)
Readable == unread # <<>> /\ ~Head(unread).long

Scan ==
    /\ main = "waiting" /\ scanner = "reading" /\ Readable
    /\ Len(lineChan) < Capacity
    /\ lineChan' = Append(lineChan, Head(unread))
    /\ unread' = Tail(unread)
    /\ UNCHANGED <<tree, scanner, workerVars, resultVars, main, output>>

(* The channel is closed only after the last line.                         *)
ScanEndsAtEOF ==
    /\ main = "waiting" /\ scanner = "reading" /\ unread = <<>>
    /\ scanner' = "ended"
    /\ UNCHANGED <<tree, unread, lineChan, workerVars, resultVars, main, output>>

ScanEnds ==
    /\ main = "waiting" /\ scanner = "reading" /\ ~Readable
    /\ scanner' = "ended"
    /\ UNCHANGED <<tree, unread, lineChan, workerVars, resultVars, main, output>>

-----------------------------------------------------------------------------
(* Which counters and lists a line belongs to, by what stands anywhere in  *)
(* it: in the tag, or in the name.                                         *)
Has(l, token) == Contains(l.text, token)
IsOffice(l) == Has(l, ".docx") \/ Has(l, ".xlsx") \/ Has(l, ".pptx")
IsPDF(l) == Has(l, ".pdf") /\ ~IsOffice(l)
IsArchive(l) ==
    /\ Has(l, ".zip") \/ \E i \in Positions(l.text, <<".tar", ".gz">>) : TRUE
    /\ ~IsOffice(l) /\ ~IsPDF(l)
Protected(l) == l.alias = "CONTENT" /\ Has(l, "true")
Mismatched(l) == l.alias = "CONTENT" /\ Has(l, "false") /\ Has(l, "unmatched-suffix-")

SortsOf(l) ==
    {s \in Sorts :
       CASE s = "file"   -> l.alias = "SUFFIX"
         [] s = "ransom" -> l.alias = "DUPLICATED"
         [] s = "777"    -> l.alias = "PERMISSION" /\ Has(l, "777=true")
         [] s = "suid"   -> l.alias = "PERMISSION" /\ Has(l, "suid=true")
         [] s = "sgid"   -> l.alias = "PERMISSION" /\ Has(l, "sgid=true")
         [] s = "oaPwd"  -> Protected(l) /\ IsOffice(l)
         [] s = "pdfPwd" -> Protected(l) /\ IsPDF(l)
         [] s = "zipPwd" -> Protected(l) /\ IsArchive(l)
         [] s = "oa"     -> Mismatched(l) /\ IsOffice(l)
         [] s = "pdf"    -> Mismatched(l) /\ IsPDF(l)}

(* With the lists chosen by "else if": one of them for each line.          *)
WithTables(S) == S \cup {Table[s] : s \in S \cap DOMAIN Table}
OneListOf(l) ==
    IF SortsOf(l) = {} THEN {} ELSE WithTables({CHOOSE s \in SortsOf(l) : TRUE})
ListsOf(l) == WithTables(SortsOf(l))

(* To a list of files a line adds its paths, to a table itself.            *)
ItemsFor(s, l) == IF s \in Sorts THEN SetToSeq(l.files) ELSE <<l>>

(* A worker takes a line, splits it at ": " and adds to the counters.  A   *)
(* line that does not split is an index out of range, which ends the       *)
(* process.                                                                *)
TakeLine(w) ==
    /\ main = "waiting" /\ worker[w] = "idle" /\ lineChan # <<>>
    /\ lineChan' = Tail(lineChan)
    /\ LET l == Head(lineChan) IN
       IF ~l.splits
       THEN main' = "panicked" /\ UNCHANGED <<workerVars, FileCount, total>>
       ELSE /\ FileCount' = IF l.alias = "FileCount" THEN l.count ELSE FileCount
            /\ total' = [s \in Sorts |-> IF s \in SortsOf(l) THEN total[s] + l.count ELSE total[s]]
            /\ todo' = [todo EXCEPT ![w] = ListsOf(l)]
            /\ line' = [line EXCEPT ![w] = IF ListsOf(l) = {} THEN NoLine ELSE l]
            /\ worker' = [worker EXCEPT ![w] = IF ListsOf(l) = {} THEN "idle" ELSE "append"]
            /\ UNCHANGED <<snapshot, main>>
    /\ UNCHANGED <<tree, unread, scanner, list, raced, output>>

(* append(list, detail...): the list is read, a new one written; a table   *)
(* before the list of the same line.  When the append of another worker to *)
(* the same list overlaps, the later write may undo the earlier, or what   *)
(* was read is torn.                                                       *)
NextList(w) == CHOOSE s \in todo[w] : s \in Sorts => todo[w] \subseteq Sorts
Appending(s) == {w \in Workers : worker[w] = "write" /\ s = NextList(w)}

ReadList(w) ==
    /\ main = "waiting" /\ worker[w] = "append"
    /\ worker' = [worker EXCEPT ![w] = "write"]
    /\ snapshot' = [snapshot EXCEPT ![w] = list[NextList(w)]]
    /\ UNCHANGED <<tree, chanVars, line, todo, resultVars, main, output>>

WriteList(w) ==
    /\ main = "waiting" /\ worker[w] = "write"
    /\ LET s == NextList(w)
           race == Appending(s) # {w} \/ list[s] # snapshot[w]
           rest == todo[w] \ {s}
       IN  /\ \E new \in {snapshot[w] \o ItemsFor(s, line[w])}
                         \cup IF race THEN {Append(list[s], Garbage)} ELSE {} :
                 list' = [list EXCEPT ![s] = new]
           /\ raced' = IF race THEN raced \cup {s} ELSE raced
           /\ todo' = [todo EXCEPT ![w] = rest]
           /\ worker' = [worker EXCEPT ![w] = IF rest = {} THEN "idle" ELSE "append"]
           /\ line' = [line EXCEPT ![w] = IF rest = {} THEN NoLine ELSE @]
           /\ snapshot' = [snapshot EXCEPT ![w] = <<>>]
    /\ UNCHANGED <<tree, chanVars, FileCount, total, main, output>>

WorkerDone(w) ==
    /\ main = "waiting" /\ worker[w] = "idle" /\ lineChan = <<>> /\ scanner = "ended"
    /\ worker' = [worker EXCEPT ![w] = "done"]
    /\ UNCHANGED <<tree, chanVars, line, todo, snapshot, resultVars, main, output>>

-----------------------------------------------------------------------------
Ceil(a, b) == (a + b - 1) \div b
wrapperLessZero(score) == Max({score, 0})
NotANumber == -1

(* 0/0 is not a number, n/0 is infinite.                                   *)
FileScore ==
    IF FileCount = 0 THEN IF total["file"] <= 0 THEN NotANumber ELSE 0
    ELSE wrapperLessZero(100 - Ceil(total["file"], FileCount))

EigenvalueScore ==
    LET n == total["oa"] + total["pdf"] IN
    wrapperLessZero((IF n > 0 THEN 90 ELSE 100) - n)

(* The same, but rounded down.                                             *)
ScoreRoundedDown(n, divisor) == wrapperLessZero(100 - n \div divisor)
Score(n, divisor) == wrapperLessZero(100 - Ceil(n, divisor))

(* In tenths of a point: the weights are 0.5, 0.2, and 0.1 three times.    *)
HealthScore ==
    5 * FileScore + 2 * EigenvalueScore + Score(total["ransom"], 10)
    + Score(total["777"] + total["suid"] + total["sgid"], 100)
    + Score(total["oaPwd"] + total["pdfPwd"] + total["zipPwd"], 10)

(* json.Marshal fails on what is not a number, its error is dropped, and   *)
(* an empty line is printed.  A torn list may end the process instead.     *)
PrintReport ==
    /\ main = "waiting" /\ \A w \in Workers : worker[w] = "done"
    /\ \/ main' = "printed" /\ output' = IF FileScore = NotANumber THEN <<>> ELSE <<HealthScore>>
       \/ (\E s \in Lists : Garbage \in Range(list[s])) /\ main' = "crashed" /\ UNCHANGED output
    /\ UNCHANGED <<tree, chanVars, workerVars, resultVars>>

Ended == main \in {"printed", "failed", "panicked", "crashed"}
Terminated == Ended /\ UNCHANGED vars

Worker(w) == TakeLine(w) \/ ReadList(w) \/ WriteList(w) \/ WorkerDone(w)

Next ==
    \/ Open \/ Scan \/ ScanEnds \/ PrintReport
    \/ \E w \in Workers : Worker(w)
    \/ Terminated

Spec == Init /\ [][Next]_vars

(* The Go scheduler runs every goroutine that can run.                     *)
FairSpec ==
    /\ Spec
    /\ WF_vars(Open) /\ WF_vars(Scan \/ ScanEnds) /\ WF_vars(PrintReport)
    /\ \A w \in Workers : WF_vars(Worker(w))

-----------------------------------------------------------------------------
(* What the counters should be, from the files alone.                      *)

(* What a wildcard means: any characters, none included.  The first j      *)
(* tokens of the filter stand for the first k of the name, for each k in   *)
(* reach[j].                                                               *)
Glob(fileName, target) ==
    LET n == Len(fileName)
        reach[j \in 0..Len(target)] ==
            IF j = 0 THEN {0}
            ELSE IF target[j] = "*" THEN {k \in 0..n : \E i \in reach[j - 1] : i <= k}
            ELSE {k \in 1..n : fileName[k] = target[j] /\ k - 1 \in reach[j - 1]}
    IN  n \in reach[Len(target)]

Named(f, tokens) == Range(File[f].name) \cap tokens # {}
OfficeNames == {".docx", ".xlsx", ".pptx"}
RightExtension(f) == check(f).matched

Belongs(s, f) ==
    LET office == Named(f, OfficeNames)
        pdf == Named(f, {".pdf"}) /\ ~office
        secret == check(f).encrypted
        strange == ~secret /\ ~RightExtension(f) /\ check(f).kind # {}
    IN CASE s = "file"   -> \E i \in DOMAIN filters : Glob(File[f].name, filters[i])
         [] s = "ransom" -> ~File[f].big /\ DupThreshold <
                              Copies({g \in tree.files : /\ ~File[g].big
                                                         /\ File[g].md5 = File[f].md5
                                                         /\ File[g].name = File[f].name})
         [] s = "777"    -> File[f].all777
         [] s = "suid"   -> File[f].suid
         [] s = "sgid"   -> File[f].sgid
         [] s = "oaPwd"  -> secret /\ office
         [] s = "pdfPwd" -> secret /\ pdf
         [] s = "zipPwd" -> secret /\ ~office /\ ~pdf
                            /\ (Named(f, {".zip"}) \/ Positions(File[f].name, <<".tar", ".gz">>) # {})
         [] s = "oa"     -> strange /\ office
         [] s = "pdf"    -> strange /\ pdf

(* A filter with a wildcard inside can be misread: every part of it occurs *)
(* in the name, but the name is not what it stands for; or the last part   *)
(* occurs at two places, of which the first is tested.                     *)
Misread(fileName, target) ==
    LET parts == Split(target)
        places(i) == Positions(fileName, parts[i])
    IN  /\ \E i \in Stars(target) : 1 < i /\ i < Len(target)
        /\ \A i \in DOMAIN parts : parts[i] = <<>> \/ places(i) # {}
        /\ \/ ~Glob(fileName, target)
           \/ Last(parts) # <<>> /\ \E i, j \in places(Len(parts)) : i # j

(* Names that cannot be written on one line, or that read like a tag; and  *)
(* those that a filter misreads.                                           *)
Awkward ==
    {f \in Files :
       \/ Named(f, {"\n", ":", "true", "false", "unmatched-suffix-",
                    "777=true", "suid=true", "sgid=true"})
       \/ \E i \in DOMAIN filters : Misread(File[f].name, filters[i])}

(* The first line of a name is read as the number of its files.            *)
Numbered ==
    \E f \in tree.files :
        LET text == Value(File[f].name)
        IN  Breaks(text) # {} /\ Number(FirstLine(text)) # 0

Share(s) == {f \in tree.files : Belongs(s, f)}
TooLong == unread # <<>>

(* Whatever the interleaving, no counter misses a file or counts one twice *)
(* or under another heading, except files with awkward names, which may be *)
(* missed or miscounted; behind a line that is too long all are missed.    *)
(* A name whose first line is a number can change a counter by any amount. *)
TotalsExact ==
    main = "printed" /\ ~Numbered => \A s \in Sorts :
        LET good == Share(s) \ Awkward
            odd  == tree.files \cap Awkward
        IN  /\ total[s] <= Copies(good) + Copies(odd)
            /\ TooLong \/ total[s] >= Copies(good)

(* A list that no two workers appended to at once holds each file of the   *)
(* counter's once, a table a row for each of its lines; the counter is the *)
(* number of their copies.  Only a race loses elements, and only it can    *)
(* end the process.                                                        *)
ListsAgree ==
    /\ main \in {"printed", "crashed"} =>
          /\ \A s \in Sorts \ raced :
                /\ Numbered \/ Copies(Range(list[s])) = total[s]
                /\ Cardinality(Range(list[s])) = Len(list[s])
          /\ \A s \in DOMAIN Table :
                Table[s] \in raced \/ Numbered
                \/ Copies(UNION {l.files : l \in Range(list[Table[s]])}) = total[s]
    /\ main = "crashed" => raced # {}

(* A full score is no accident of rounding: it says that nothing was       *)
(* counted.  Then every file that belongs to a counter has an awkward name *)
(* or stands behind a line that was too long.  Scores stay between 0 and   *)
(* 100, and nothing is printed only for a tree of no file, or one whose    *)
(* root cannot be told from its count.                                     *)
FullScore ==
    main = "printed" /\ ~Numbered =>
        IF output = <<>>
        THEN Copies(tree.files) = 0 \/ tree.root = "with :"
        ELSE /\ output[1] \in 0..1000
             /\ output[1] = 1000 =>
                   TooLong \/ \A s \in Sorts, f \in tree.files : Belongs(s, f) => f \in Awkward

(* The reader ends, with a result or without.                              *)
ReportEnds == <>Ended
=============================================================================
