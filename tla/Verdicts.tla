------------------------------ MODULE Verdicts ------------------------------
(***************************************************************************)
(* What the scan phases decide about one file, and the lines of report.frs *)
(* they make of it (internal/extract/extract.go): the file-name filters    *)
(* with a wildcard, the cascade of file-format checks, the tags, and the   *)
(* grouping by tag and name.                                               *)
(*                                                                         *)
(* A file name is a sequence of tokens (".docx", "true", ":", "\n", ...),  *)
(* so is a filter, where "*" is the wildcard; a text contains a string of  *)
(* the code when it contains that token.  A file is a class of equal files *)
(* in different directories; copies says how many there are.  What a file  *)
(* holds is given by the facts that the checks tell apart.                 *)
(***************************************************************************)
EXTENDS Integers, Sequences, FiniteSets, FiniteSetsExt, SequencesExt

CONSTANTS
    File,           (* [name, copies, big, md5, all777, suid, sgid, format]*)
    filters,        (* the list of file-name filters of constant.go        *)
    DupThreshold,   (* a larger group of duplicates is reported: 9         *)
    MaxToken,       (* paths that fit in a line the Scanner can read       *)
    Numeral         (* the tokens that Atoi can read, and their numbers    *)

Files == DOMAIN File
CopiesOf(f) == {f} \X (1..File[f].copies)
Copies(S) == Cardinality(UNION {CopiesOf(f) : f \in S})

-----------------------------------------------------------------------------
(* The file-name filters.                                                  *)
Stars(s) == {i \in DOMAIN s : s[i] = "*"}

(* How many wildcards, and whether one is first, in the middle or last: in *)
(* this order.                                                             *)
countAndPositions(s) ==
    <<Cardinality(Stars(s)), 1 \in Stars(s),
      \E i \in Stars(s) : 1 < i /\ i < Len(s), Len(s) \in Stars(s) \ {1}>>

Positions(s, part) ==
    {i \in 1..Len(s) - Len(part) + 1 : SubSeq(s, i, i + Len(part) - 1) = part}

(* strings.Split(target, "*"): what stands between two cuts.               *)
Split(target) ==
    LET cuts == {0, Len(target) + 1} \cup Stars(target)
        nth(k) == CHOOSE c \in cuts : Cardinality({d \in cuts : d <= c}) = k
    IN  [k \in 1..Cardinality(cuts) - 1 |-> SubSeq(target, nth(k) + 1, nth(k + 1) - 1)]

(* Nothing but repetitions of part from position i on: what is left when   *)
(* all of them are deleted is as long as what stands before the first.     *)
OnlyRepeated(s, part, i) ==
    \E n \in 1..Len(s) : SubSeq(s, i, Len(s)) = FlattenSeq([k \in 1..n |-> part])

(* Every part must occur, in whatever order; of the first and last one's   *)
(* places only what is tested last counts.                                 *)
MatchParts(fileName, parts) ==
    LET tested == {i \in DOMAIN parts : parts[i] # <<>>}
        at(i)  == Min(Positions(fileName, parts[i]))
        final  == Max(tested)
    IN  /\ \A i \in tested : Positions(fileName, parts[i]) # {}
        /\ tested # {} =>
              /\ final = 1 => at(1) = 1
              /\ final = Len(parts) => OnlyRepeated(fileName, parts[final], at(final))

(* The positions taken as their names say: a filter with a wildcard only   *)
(* inside goes to the case of one at the end.                              *)
matchSuffixAsNamed(fileName, target) ==
    LET at == countAndPositions(target)
        isAtStart == at[2]
        isAtMiddle == at[3]
        isAtEnd == at[4]
    IN  CASE isAtStart /\ ~isAtEnd /\ ~isAtMiddle  -> IsSuffix(Tail(target), fileName)
          [] ~isAtStart /\ ~isAtEnd /\ isAtMiddle  -> IsPrefix(Front(target), fileName)
          [] ~isAtStart /\ ~isAtEnd /\ ~isAtMiddle -> fileName = target
          [] OTHER -> MatchParts(fileName, Split(target))

(* The positions under the names that the code gives them: isAtEnd is the  *)
(* one in the middle, isAtMiddle the last.  So the second case is that of  *)
(* one wildcard, at the end, as its comment says; one inside, and any      *)
(* several, are compared by parts.                                         *)
matchSuffix(fileName, target) ==
    LET at == countAndPositions(target)
        isAtStart == at[2]
        isAtEnd == at[3]
        isAtMiddle == at[4]
    IN  CASE isAtStart /\ ~isAtEnd /\ ~isAtMiddle  -> IsSuffix(Tail(target), fileName)
          [] ~isAtStart /\ ~isAtEnd /\ isAtMiddle  -> IsPrefix(Front(target), fileName)
          [] ~isAtStart /\ ~isAtEnd /\ ~isAtMiddle -> fileName = target
          [] OTHER -> MatchParts(fileName, Split(target))

-----------------------------------------------------------------------------
(* The format checks.  Each tells whether the file has the format and is   *)
(* encrypted; a file that cannot be opened or is too short has none.       *)
No == [is |-> FALSE, encrypted |-> FALSE]
Yes(encrypted) == [is |-> TRUE, encrypted |-> encrypted]

(* Three known headers per kind of document, or its main part's name in    *)
(* the tail of 960 or 512 bytes.  When the first header does not match, a  *)
(* second stretch of 560 bytes from 1024 on is looked at: if it is not     *)
(* there the other headers are not tried.  An encrypted package of any     *)
(* kind is taken for the kind that is asked first.                         *)
Office(m, kind) ==
    LET tail == IF kind = "docx" THEN 960 ELSE 512
        named == kind \in m.tails
    IN  IF ~m.readable \/ m.bytes < Max({512, tail}) THEN No
        ELSE IF named \/ <<kind, 1>> \in m.heads THEN Yes(m.encryptTail)
        ELSE IF m.bytes < 1024 + 560 THEN No
        ELSE IF m.package THEN Yes(TRUE)
        ELSE IF \E i \in {2, 3} : <<kind, i>> \in m.heads THEN Yes(m.encryptTail)
        ELSE No

PDF(m) ==
    IF ~m.readable \/ m.bytes < 10 \/ m.head # "PDF" THEN No
    ELSE Yes(m.bytes >= 512 /\ m.encryptTail)

ZIP(m) ==
    IF ~m.readable \/ m.bytes < 32 \/ m.head \notin {"zip", "zip encrypted"} THEN No
    ELSE Yes(m.head = "zip encrypted")

GZIP(m) ==
    IF ~m.readable \/ m.bytes < 10 \/ m.head \notin {"gzip", "salted"} THEN No
    ELSE Yes(m.head = "salted")

XML(m) == IF m.readable /\ m.head = "xml" THEN Yes(FALSE) ELSE No

Formats == <<"docx", "xlsx", "pptx", "pdf", "zip", "gzip", "xml">>
Extensions == <<".docx", ".xlsx", ".pptx", ".pdf", ".zip", ".gz", ".xml">>

Detect(m, i) ==
    CASE i \in 1..3 -> Office(m, Formats[i])
      [] i = 4 -> PDF(m)
      [] i = 5 -> ZIP(m)
      [] i = 6 -> GZIP(m)
      [] i = 7 -> XML(m)

(* The format found first, and whether the extension is the one it goes    *)
(* by; without a format, the one that the extension announces.             *)
check(f) ==
    LET m == File[f].format
        name == File[f].name
        announced == {i \in DOMAIN Extensions : name # <<>> /\ Last(name) = Extensions[i]}
        found == {i \in DOMAIN Formats : Detect(m, i).is}
    IN  IF found # {}
        THEN [encrypted |-> Detect(m, Min(found)).encrypted,
              matched |-> Min(found) \in announced, kind |-> {Min(found)}]
        ELSE [encrypted |-> FALSE, matched |-> FALSE, kind |-> announced]

-----------------------------------------------------------------------------
(* The phases' verdicts: flagged or not, and the tag as tokens.            *)
Duplicated(f) == [hit |-> ~File[f].big, tag |-> <<File[f].md5>>]

Permissions(f) ==
    [hit |-> File[f].all777 \/ File[f].suid \/ File[f].sgid,
     tag |-> <<IF File[f].all777 THEN "777=true" ELSE "777=false",
               IF File[f].suid THEN "suid=true" ELSE "suid=false",
               IF File[f].sgid THEN "sgid=true" ELSE "sgid=false">>]

Suffix(f) ==
    LET hits == {i \in DOMAIN filters : matchSuffix(File[f].name, filters[i])} IN
    IF hits = {} THEN [hit |-> FALSE, tag |-> <<>>] ELSE [hit |-> TRUE, tag |-> filters[Min(hits)]]

Content(f) ==
    LET c == check(f) IN
    [hit |-> c.encrypted \/ ~c.matched,
     tag |-> <<IF c.encrypted THEN "true" ELSE "false",
               IF c.matched THEN "matched-suffix-"
               ELSE IF c.kind = {} THEN "unmatched-suffix" ELSE "unmatched-suffix-">>
             \o IF c.kind = {} THEN <<>> ELSE <<Formats[Min(c.kind)]>>]

Verdict(alias, f) ==
    CASE alias = "DUPLICATED" -> Duplicated(f)
      [] alias = "PERMISSION" -> Permissions(f)
      [] alias = "SUFFIX"     -> Suffix(f)
      [] alias = "CONTENT"    -> Content(f)

(* Flagged files are grouped by tag and name.                              *)
Groups(alias, S) ==
    LET hits == {f \in S : Verdict(alias, f).hit} IN
    {{g \in hits : /\ Verdict(alias, g).tag = Verdict(alias, f).tag
                   /\ File[g].name = File[f].name} : f \in hits}

-----------------------------------------------------------------------------
(* A line of the report, as frs -report reads it back: the alias, if the   *)
(* line has it; what else stands before the count; the files of the group; *)
(* whether it can be split at ": "; whether the Scanner can read it.       *)
Line(alias, text, files, count) ==
    [alias |-> alias, text |-> text, files |-> files, count |-> count,
     splits |-> TRUE, long |-> Cardinality(files) > 0 /\ count > MaxToken]

(* A name is printed up to its first ":".                                  *)
Value(name) ==
    LET colons == {i \in DOMAIN name : name[i] = ":"} IN
    IF colons = {} THEN name ELSE SubSeq(name, 1, Min(colons) - 1)

Breaks(text) == {i \in DOMAIN text : text[i] = "\n"}
FirstLine(text) == SubSeq(text, 1, Min(Breaks(text)) - 1)

(* What stands before the first "(", as a number; 0 if it is none.         *)
Number(text) ==
    LET open == {i \in DOMAIN text : text[i] = "("}
        digits == IF open = {} THEN text ELSE SubSeq(text, 1, Min(open) - 1)
    IN  IF Len(digits) = 1 /\ Last(digits) \in DOMAIN Numeral THEN Numeral[Last(digits)] ELSE 0

(* A name with line breaks leaves its alias on the first line, where the   *)
(* count is read from the name; its tag, count and paths on the last; and  *)
(* lines without ": " between them.                                        *)
GroupLines(alias, g) ==
    LET f == CHOOSE f \in g : TRUE
        text == Value(File[f].name)
        first == FirstLine(text)
        last == SubSeq(text, Max({0} \cup Breaks(text)) + 1, Len(text)) \o Verdict(alias, f).tag
    IN  IF Breaks(text) = {} THEN <<Line(alias, last, g, Copies(g))>>
        ELSE <<Line(alias, first, {}, Number(first))>>
             \o [i \in 1..Cardinality(Breaks(text)) - 1 |->
                    [Line("", <<>>, {}, 0) EXCEPT !.splits = FALSE]]
             \o <<Line("", last, g, Copies(g))>>

Threshold(alias) == IF alias = "DUPLICATED" THEN DupThreshold ELSE 0

(* The groups that are large enough, one section per phase.                *)
generateReportContent(alias, S) ==
    FlattenSeq(SetToSeq({GroupLines(alias, g) :
                            g \in {h \in Groups(alias, S) : Copies(h) > Threshold(alias)}}))

(* The first line has the root as its tag and the count as its value; both *)
(* come from one string that is split at ":".  Without a root there is no  *)
(* tag to look for.                                                        *)
FileCountLine(root, S) ==
    [Line("FileCount", <<>>, {}, IF root = "with :" THEN 0 ELSE Copies(S))
        EXCEPT !.splits = root # "none"]

ScanAliases == <<"DUPLICATED", "PERMISSION", "SUFFIX", "CONTENT">>

ReportLines(root, S) ==
    <<FileCountLine(root, S)>>
    \o FlattenSeq([i \in DOMAIN ScanAliases |-> generateReportContent(ScanAliases[i], S)])
=============================================================================
