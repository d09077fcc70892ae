----------------------------- MODULE ScanPhase ------------------------------
(***************************************************************************)
(* One scan phase of the extract program (internal/extract/extract.go,     *)
(* Duplicated, Permissions, Suffix, Content and Download).  The five share *)
(* their goroutines and differ in the verdict they pass on an entry:       *)
(*                                                                         *)
(*   reader    -- fileChan -->  workers  -- results, num -->  collector    *)
(*                                                            -- done -->  *)
(*                                                               main      *)
(*                                                                         *)
(* The reader iterates over the database in key order.  A worker passes a  *)
(* verdict on an entry, sends a result if the entry is flagged, and then   *)
(* counts the entry over num.  The collector files the results and, when   *)
(* the number of counted entries is the number given as -count, tells the  *)
(* main goroutine, which writes the report, closes the database and exits. *)
(* Nobody closes fileChan and no worker ever leaves.                       *)
(*                                                                         *)
(* Entries are numbered in key order.  results, num and done are           *)
(* unbuffered, so a send and its receive are one step.  Cutting a group's  *)
(* key at ":" when the report is printed, and the printing itself, are     *)
(* left out.                                                               *)
(***************************************************************************)
EXTENDS Integers, Sequences, FiniteSets, Functions

CONSTANTS
    Entries,        (* the entries of the task's database                  *)
    Meta,           (* what a verdict depends on, for each entry           *)
    BaseName,       (* the last component of each entry's path             *)
    NoFilter,       (* no file-name filter matches                         *)
    CPUs,           (* the CPU counts the program may find                 *)
    DupThreshold,   (* a larger group of duplicates is reported; 9         *)
    None            (* no entry                                            *)

Phases == {"download", "duplicate", "permissions", "suffix", "content"}

(* runtime.NumCPU() / 3, and 1 on a small machine.                         *)
SystemMaxConcurrency(numCPU) == IF numCPU <= 4 THEN 1 ELSE numCPU \div 3

(* Downloads always go one at a time.                                      *)
MaxConcurrency(phase, numCPU) ==
    IF phase = "download" THEN 2 ELSE SystemMaxConcurrency(numCPU)

(* A scan is a phase and, for a download, what the net disk delivers.      *)
Jobs == [phase : Phases, fetched : SUBSET Entries]

ASSUME ScanAssumption ==
    /\ Entries \subseteq Nat /\ IsFiniteSet(Entries)
    /\ CPUs \subseteq Nat \ {0} /\ CPUs # {}
    /\ DupThreshold \in Nat
    /\ None \notin Entries

VARIABLES
    job,            (* the phase of this process, and the files fetched    *)
    cpus,           (* the number of CPUs                                  *)
    expected,       (* the -count argument                                 *)
    unreadable,     (* entries whose value the iterator fails to read      *)
    unread,         (* entries the reader has still to reach               *)
    fileChan,       (* the buffered channel of entries                     *)
    reader,         (* "reading", "committing" its batch, or "ended"       *)
    worker,         (* "receiving", "flag" a result, "num", or "absent"    *)
    held,           (* the entry each worker is busy with                  *)
    found,          (* entries filed by the collector (duplicateMap)       *)
    counted,        (* entries counted; atomicCount is how many they are   *)
    countNum,       (* the number the phase returns                        *)
    report,         (* the groups written to report.frs                    *)
    database,       (* "open", "closed", or "nil" when it failed to open   *)
    main            (* "waiting", "reporting", "closing", "exiting",       *)
                    (* "exited" or "panicked"                              *)

config == <<job, cpus, expected, unreadable>>
readerVars == <<unread, reader>>
workerVars == <<worker, held>>
collectorVars == <<found, counted, countNum>>
vars == <<config, readerVars, fileChan, workerVars, collectorVars,
          report, database, main>>

(* Worker goroutines for the largest machine; the others are absent.       *)
Workers == UNION {1 .. MaxConcurrency(p, n) - 1 : p \in Phases, n \in CPUs}

Capacity == MaxConcurrency(job.phase, cpus)

Present == 1 .. Capacity - 1

atomicCount == Cardinality(counted)

Alive == main \notin {"exited", "panicked"}

-----------------------------------------------------------------------------
(* The verdict of each phase: is the entry flagged, and under which tag.   *)
DuplicateVerdict(m) ==
    [hit |-> m.size = "below 1 GiB", tag |-> m.md5]

PermissionVerdict(m) ==
    [hit |-> m.all777 \/ m.suid \/ m.sgid,
     tag |-> <<m.all777, m.suid, m.sgid>>]

SuffixVerdict(m) ==
    [hit |-> m.filter # NoFilter, tag |-> m.filter]

ContentVerdict(m) ==
    [hit |-> m.encrypted \/ m.unmatched, tag |-> <<m.encrypted, m.unmatched>>]

DownloadVerdict(fetched, e) == [hit |-> e \in fetched, tag |-> "synced"]

Verdict(j, e) ==
    CASE j.phase = "duplicate"   -> DuplicateVerdict(Meta[e])
      [] j.phase = "permissions" -> PermissionVerdict(Meta[e])
      [] j.phase = "suffix"      -> SuffixVerdict(Meta[e])
      [] j.phase = "content"     -> ContentVerdict(Meta[e])
      [] j.phase = "download"    -> DownloadVerdict(j.fetched, e)

Flagged(j, S) == {e \in S : Verdict(j, e).hit}

(* Flagged entries are grouped by tag and file name.                       *)
Group(j, e, S) ==
    {f \in S : /\ Verdict(j, f).tag = Verdict(j, e).tag
               /\ BaseName[f] = BaseName[e]}

Groups(j, S) == {Group(j, e, S) : e \in S}

Threshold(j) == IF j.phase = "duplicate" THEN DupThreshold ELSE 0

(* The groups that are written: those above the threshold; a download      *)
(* writes no report.                                                       *)
ReportOf(j, S) ==
    {g \in Groups(j, S) : j.phase # "download" /\ Cardinality(g) > Threshold(j)}

-----------------------------------------------------------------------------
TypeOK ==
    /\ job \in Jobs /\ cpus \in CPUs /\ expected \in Nat
    /\ unreadable \subseteq Entries
    /\ unread \subseteq Entries
    /\ fileChan \in Seq(Entries) /\ Len(fileChan) <= Capacity
    /\ reader \in {"reading", "committing", "ended"}
    /\ worker \in [Workers -> {"receiving", "flag", "num", "absent"}]
    /\ held \in [Workers -> Entries \cup {None}]
    /\ found \subseteq Entries /\ counted \subseteq Entries
    /\ countNum \in Nat
    /\ report \subseteq SUBSET Entries
    /\ database \in {"open", "closed", "nil"}
    /\ main \in {"waiting", "reporting", "closing", "exiting",
                 "exited", "panicked"}

(* A task's count may be anything from 0, the default, to more than the    *)
(* database holds, when two of the files counted share a key.              *)
Init ==
    /\ job \in Jobs
    /\ cpus \in CPUs
    /\ expected \in 0 .. Cardinality(Entries) + 1
    /\ unreadable \in {{}} \cup {{e} : e \in Entries}
    /\ job.phase # "download" => job.fetched = {}
    /\ unread = Entries
    /\ fileChan = <<>>
    /\ reader = "reading"
    /\ worker = [w \in Workers |-> IF w \in Present THEN "receiving" ELSE "absent"]
    /\ held = [w \in Workers |-> None]
    /\ found = {} /\ counted = {} /\ countNum = 0
    /\ report = {}
    /\ database \in {"open", "nil"}
    /\ main = "waiting"

-----------------------------------------------------------------------------
(* NewIndexedBatch on the nil handle of a database that did not open.      *)
ReaderPanics ==
    /\ Alive
    /\ reader = "reading"
    /\ database = "nil"
    /\ main' = "panicked"
    /\ UNCHANGED <<config, readerVars, fileChan, workerVars, collectorVars,
                   report, database>>

NextKey(e) == e \in unread /\ \A f \in unread : e <= f

(* An entry whose value cannot be read is passed over, and not counted.    *)
SkipEntry(e) ==
    /\ Alive
    /\ reader = "reading" /\ database # "nil"
    /\ NextKey(e)
    /\ e \in unreadable
    /\ unread' = unread \ {e}
    /\ UNCHANGED <<config, reader, fileChan, workerVars, collectorVars,
                   report, database, main>>

(* A reader that does not wait for room in the channel.                    *)
ReadAhead(e) ==
    /\ Alive
    /\ reader = "reading" /\ database # "nil"
    /\ NextKey(e)
    /\ e \notin unreadable
    /\ fileChan' = Append(fileChan, e)
    /\ unread' = unread \ {e}
    /\ UNCHANGED <<config, reader, workerVars, collectorVars, report,
                   database, main>>

ReadEntry(e) ==
    /\ Alive
    /\ reader = "reading" /\ database # "nil"
    /\ NextKey(e)
    /\ e \notin unreadable
    /\ Len(fileChan) < Capacity
    /\ fileChan' = Append(fileChan, e)
    /\ unread' = unread \ {e}
    /\ UNCHANGED <<config, reader, workerVars, collectorVars, report,
                   database, main>>

EndOfKeys ==
    /\ Alive
    /\ reader = "reading" /\ database # "nil"
    /\ unread = {}
    /\ reader' = "committing"
    /\ UNCHANGED <<config, unread, fileChan, workerVars, collectorVars,
                   report, database, main>>

(* The reader commits its batch, although it wrote nothing: on a database  *)
(* that the main goroutine has closed meanwhile, Commit panics.            *)
CommitBatch ==
    /\ Alive
    /\ reader = "committing"
    /\ reader' = "ended"
    /\ main' = IF database = "closed" THEN "panicked" ELSE main
    /\ UNCHANGED <<config, unread, fileChan, workerVars, collectorVars,
                   report, database>>

-----------------------------------------------------------------------------
(* A worker takes an entry and passes its verdict on it.                   *)
ReceiveEntry(w) ==
    /\ Alive
    /\ worker[w] = "receiving"
    /\ fileChan # <<>>
    /\ fileChan' = Tail(fileChan)
    /\ held' = [held EXCEPT ![w] = Head(fileChan)]
    /\ worker' = [worker EXCEPT ![w] =
                     IF Verdict(job, Head(fileChan)).hit THEN "flag" ELSE "num"]
    /\ UNCHANGED <<config, readerVars, collectorVars, report, database, main>>

(* The worker that files a result goes straight back for another entry.    *)
ResultOnly(w) ==
    /\ main = "waiting"
    /\ worker[w] = "flag"
    /\ found' = found \cup {held[w]}
    /\ worker' = [worker EXCEPT ![w] = "receiving"]
    /\ UNCHANGED <<config, readerVars, fileChan, held, counted, countNum,
                   report, database, main>>

(* Every result counts, whatever the size of its group.                    *)
CountEvery(w) ==
    /\ main = "waiting"
    /\ worker[w] = "flag"
    /\ found' = found \cup {held[w]}
    /\ countNum' = countNum + 1
    /\ worker' = [worker EXCEPT ![w] = "num"]
    /\ UNCHANGED <<config, readerVars, fileChan, held, counted, report,
                   database, main>>

(* A collector that goes on filing results after its done.                 *)
TakeResultLate(w) ==
    /\ Alive
    /\ worker[w] = "flag"
    /\ found' = found \cup {held[w]}
    /\ countNum' = countNum + 1
    /\ worker' = [worker EXCEPT ![w] = "num"]
    /\ UNCHANGED <<config, readerVars, fileChan, held, counted, report,
                   database, main>>

(* The collector files a result under its group, and counts it if the      *)
(* group has outgrown the threshold with it.                               *)
TakeResult(w) ==
    /\ main = "waiting"
    /\ worker[w] = "flag"
    /\ found' = found \cup {held[w]}
    /\ countNum' = countNum +
           IF Cardinality(Group(job, held[w], found')) > Threshold(job) THEN 1 ELSE 0
    /\ worker' = [worker EXCEPT ![w] = "num"]
    /\ UNCHANGED <<config, readerVars, fileChan, held, counted, report,
                   database, main>>


TakeNumAtLeast(w) ==
    /\ main = "waiting"
    /\ worker[w] = "num"
    /\ counted' = counted \cup {held[w]}
    /\ held' = [held EXCEPT ![w] = None]
    /\ worker' = [worker EXCEPT ![w] = "receiving"]
    /\ main' = IF expected <= atomicCount + 1 THEN "reporting" ELSE main
    /\ UNCHANGED <<config, readerVars, fileChan, found, countNum, report,
                   database>>

TakeNumFirst(w) ==
    /\ main = "waiting"
    /\ worker[w] \in {"flag", "num"}
    /\ counted' = counted \cup {held[w]}
    /\ held' = [held EXCEPT ![w] = None]
    /\ worker' = [worker EXCEPT ![w] = "receiving"]
    /\ main' = IF expected = Cardinality(counted') THEN "reporting" ELSE main
    /\ UNCHANGED <<config, readerVars, fileChan, found, countNum, report,
                   database>>

(* The collector counts the entry, and leaves when it has all.             *)
TakeNum(w) ==
    /\ main = "waiting"
    /\ worker[w] = "num"
    /\ counted' = counted \cup {held[w]}
    /\ held' = [held EXCEPT ![w] = None]
    /\ worker' = [worker EXCEPT ![w] = "receiving"]
    /\ main' = IF expected = Cardinality(counted') THEN "reporting" ELSE main
    /\ UNCHANGED <<config, readerVars, fileChan, found, countNum, report,
                   database>>

-----------------------------------------------------------------------------
(* The database is closed before the report is written.                    *)
CloseEarly ==
    /\ main = "reporting"
    /\ database' = "closed"
    /\ UNCHANGED <<config, readerVars, fileChan, workerVars, collectorVars,
                   report, main>>

WriteReport ==
    /\ main = "reporting"
    /\ report' = ReportOf(job, found)
    /\ main' = "closing"
    /\ UNCHANGED <<config, readerVars, fileChan, workerVars, collectorVars,
                   database>>

CloseDatabase ==
    /\ main = "closing"
    /\ database' = "closed"
    /\ main' = "exiting"
    /\ UNCHANGED <<config, readerVars, fileChan, workerVars, collectorVars,
                   report>>

(* The main function returns, and the goroutines still running with it.    *)
Exit ==
    /\ main = "exiting"
    /\ main' = "exited"
    /\ UNCHANGED <<config, readerVars, fileChan, workerVars, collectorVars,
                   report, database>>

(* The collector polls: its default case spins for ever when nothing comes,*)
(* and the runtime does not see a deadlock.                                *)
Spin == UNCHANGED vars

ReaderStep ==
    \/ ReaderPanics
    \/ \E e \in Entries : SkipEntry(e) \/ ReadEntry(e)
    \/ EndOfKeys
    \/ CommitBatch

WorkerStep(w) == ReceiveEntry(w) \/ TakeResult(w) \/ TakeNum(w)

MainStep == WriteReport \/ CloseDatabase \/ Exit

Next ==
    \/ ReaderStep
    \/ \E w \in Workers : WorkerStep(w)
    \/ MainStep
    \/ Spin

Spec == Init /\ [][Next]_vars

(* Every goroutine that can run is run, and a select with a ready case     *)
(* takes it.                                                               *)
FairSpec ==
    /\ Spec
    /\ WF_vars(ReaderStep)
    /\ \A w \in Workers : WF_vars(WorkerStep(w))
    /\ WF_vars(MainStep)

-----------------------------------------------------------------------------
Written == main \in {"closing", "exiting", "exited"}

(* The result of an entry is filed before the entry is counted, although   *)
(* they come over two channels to a collector that polls both: no flagged  *)
(* entry is counted and missing from the map.                              *)
ResultsBeforeCount ==
    /\ Flagged(job, counted) \subseteq found
    /\ found \subseteq
           Flagged(job, counted \cup {held[w] : w \in {v \in Workers : worker[v] = "num"}})

(* A phase that was given the number of entries in the database, all of    *)
(* them readable, reports each entry that belongs in a report, and no      *)
(* other, for any number of workers.                                       *)
ReportComplete ==
    Written /\ expected = Cardinality(Entries) /\ job.phase # "download" =>
        \A e \in Entries :
            e \in UNION report <=>
                /\ Verdict(job, e).hit
                /\ Cardinality(Group(job, e, Flagged(job, Entries))) > Threshold(job)

(* The number a phase returns is what its report holds beyond the          *)
(* threshold of each group; it is 0 exactly for an empty report.           *)
CountNumAgrees ==
    main # "waiting" /\ job.phase # "download" =>
        /\ countNum = Cardinality(
               {gi \in ReportOf(job, found) \X (1 .. Cardinality(Entries)) :
                    gi[2] <= Cardinality(gi[1]) - Threshold(job)})
        /\ Written => (countNum = 0 <=> report = {})

(* A phase ends by itself only with a count it can reach: never with the   *)
(* default 0, nor with one above the number of readable entries, as left   *)
(* behind by two files that share a key, nor on a machine of at most five  *)
(* processors, where it has no worker.                                     *)
EndsOnlyOnCount ==
    main \in {"reporting", "closing", "exiting", "exited"} =>
        /\ expected \in 1 .. Cardinality(Entries \ unreadable)
        /\ atomicCount = expected
        /\ job.phase # "download" => cpus >= 6

(* Once the collector has left, late results of the other workers change   *)
(* neither the map that the report is written from nor the returned count. *)
FrozenAfterDone ==
    [][main # "waiting" => UNCHANGED <<found, counted, countNum>>]_vars

(* The batch of the reader can be committed on a closed database; the      *)
(* panic comes after the report, or before any entry was looked at.        *)
PanicSparesReport ==
    main = "panicked" =>
        \/ database = "nil" /\ counted = {} /\ found = {}
        \/ report = ReportOf(job, found)

Reachable ==
    /\ expected \in 1 .. Cardinality(Entries \ unreadable)
    /\ Present # {}


(* cmd/extract.go describes -count as "0 is unlimited": a scan without a   *)
(* limit of a database it can open and read ends like any other.           *)
UnlimitedScanEnds ==
    expected = 0 /\ database = "open" /\ Present # {} /\ unreadable = {} ~> ~Alive

Judged == counted \cup found

PhaseState ==
    IF main \in {"waiting", "reporting"} THEN "scanning"
    ELSE IF main \in {"closing", "exiting"} THEN "written"
    ELSE main

Contract == INSTANCE PhaseContract WITH
    ReportOn   <- LAMBDA j, S : ReportOf(j, Flagged(j, S)),
    task       <- job,
    quota      <- expected,
    judged     <- Judged,
    amount     <- Cardinality(Judged),
    written    <- report,
    phaseState <- PhaseState

(* The goroutines together implement the contract of a scan child: what a  *)
(* report is made of was judged, and nothing is judged once it is written. *)
ImplementsContract == Contract!Spec
=============================================================================
