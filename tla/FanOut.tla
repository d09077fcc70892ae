------------------------------- MODULE FanOut -------------------------------
(***************************************************************************)
(* Three programs that hand one job each to goroutines and wait for them:  *)
(*   md5        cmd/md5.go: hash the files named in a list and group them  *)
(*   walker     main.go: compare the extension of every file of a disk     *)
(*   collector  cmd/collector.go: download log files and put them in a zip *)
(* They differ in how the end is recognised: by counting what was hashed   *)
(* or not found; by a signal of every worker; by a wait group.             *)
(*                                                                         *)
(* A job is represented by what becomes of it:                             *)
(*   md5        "good", "missing" (cannot be opened), "broken" (cannot be  *)
(*              read to its end), "long" (a line no Scanner reads)         *)
(*   walker     "file", "dir", "vanished" (listed, then not found)         *)
(*   collector  "ok", "refused" (an error, no body, or a status), and      *)
(*              "malformed" (a log without "-", a body without a status)   *)
(***************************************************************************)
EXTENDS Integers, Sequences, FiniteSets

CONSTANTS
    Starts,         (* [program, jobs]                                     *)
    Workers,        (* of md5 (four) and of the walker (ten)               *)
    Capacity        (* of the channel of md5: five                         *)

JobKinds == {"good", "missing", "broken", "long", "file", "dir", "vanished",
             "ok", "refused", "malformed"}

ASSUME FanOutAssumption ==
    /\ Capacity \in Nat \ {0}
    /\ IsFiniteSet(Workers) /\ Workers # {}
    /\ \A s \in Starts : s.program \in {"md5", "walker", "collector"} /\ s.jobs \in Seq(JobKinds)

VARIABLES
    program, jobs,
    next,           (* the job that the reader or walker comes to next     *)
    fileChan,       (* the channel of jobs; that of the walker holds none  *)
    closed,         (* it is closed                                        *)
    worker,         (* what each goroutine does; by job for the collector  *)
    job,            (* the job it has                                      *)
    wg,             (* the counter of the wait group                       *)
    notFoundPathCount, checkedCount,
    count,          (* the value of checkedCount in a worker's message     *)
    filed,          (* jobs hashed and received, compared, or downloaded   *)
    signals,        (* workers of the walker that have signalled           *)
    received,       (* the value in the message that the consumer has      *)
    main            (* "start", "wait", "waiting", "woken", "consume",     *)
                    (* "compare", "reply", "panicked", "deadlock", "hung", *)
                    (* "failed", "ended"                                   *)

jobVars == <<next, fileChan, closed>>
workVars == <<worker, job, count>>
sumVars == <<wg, notFoundPathCount, checkedCount, filed, signals, received>>
vars == <<program, jobs, jobVars, workVars, sumVars, main>>

Range_(s) == {s[i] : i \in DOMAIN s}
Goroutines == IF program = "collector" THEN DOMAIN jobs ELSE Workers
AllGoroutines == Workers \cup UNION {DOMAIN s.jobs : s \in Starts}

TypeOK ==
    /\ next \in Nat \ {0} /\ Len(fileChan) <= Capacity /\ closed \in BOOLEAN
    /\ worker \in [AllGoroutines ->
                     {"idle", "add", "open", "hashed", "counted", "send", "done", "gone"}]
    /\ {wg, notFoundPathCount, checkedCount, signals, received} \subseteq Nat
    /\ filed \subseteq DOMAIN jobs

Init ==
    /\ \E s \in Starts : program = s.program /\ jobs = s.jobs
    /\ next = 1 /\ fileChan = <<>> /\ closed = FALSE
    /\ worker = [w \in AllGoroutines |-> "idle"]
    /\ job = [w \in AllGoroutines |-> 0]
    /\ wg = 0 /\ notFoundPathCount = 0 /\ checkedCount = 0
    /\ count = [w \in AllGoroutines |-> 0]
    /\ filed = {} /\ signals = 0 /\ received = 0
    /\ main = "start"

Running == main \notin {"start", "panicked", "deadlock", "hung", "failed", "ended"}
At(w, p, here) == program = p /\ Running /\ w \in Goroutines /\ worker[w] = here
Go(w, there) == worker' = [worker EXCEPT ![w] = there]

-----------------------------------------------------------------------------
(* md5.  The lines are counted first; a line that is too long ends it.     *)
countLines ==
    /\ program = "md5" /\ main = "start"
    /\ main' = IF "long" \in Range_(jobs) THEN "failed" ELSE "wait"
    /\ UNCHANGED <<program, jobs, jobVars, workVars, sumVars>>

ReadLine ==
    /\ program = "md5" /\ Running /\ ~closed
    /\ IF next > Len(jobs)
       THEN closed' = TRUE /\ UNCHANGED <<next, fileChan>>
       ELSE /\ Len(fileChan) < Capacity
            /\ fileChan' = Append(fileChan, next) /\ next' = next + 1
            /\ UNCHANGED closed
    /\ UNCHANGED <<program, jobs, workVars, sumVars, main>>

TakeLine(w) ==
    /\ At(w, "md5", "idle") /\ fileChan # <<>>
    /\ fileChan' = Tail(fileChan)
    /\ job' = [job EXCEPT ![w] = Head(fileChan)]
    /\ Go(w, "add")
    /\ UNCHANGED <<program, jobs, next, closed, count, sumVars, main>>

(* The worker itself adds to the wait group, after it has its line.        *)
AddWorker(w) ==
    /\ At(w, "md5", "add")
    /\ wg' = wg + 1
    /\ Go(w, "open")
    /\ UNCHANGED <<program, jobs, jobVars, job, count, notFoundPathCount, checkedCount, filed,
                   signals, main, received>>

(* calculateMD5: a file that cannot be hashed is in neither counter.       *)
OpenFile(w) ==
    /\ At(w, "md5", "open")
    /\ Go(w, IF jobs[job[w]] = "good" THEN "hashed" ELSE "done")
    /\ notFoundPathCount' = notFoundPathCount + IF jobs[job[w]] = "missing" THEN 1 ELSE 0
    /\ UNCHANGED <<program, jobs, jobVars, job, count, wg, checkedCount, filed, signals, main, received>>

CountFile(w) ==
    /\ At(w, "md5", "hashed")
    /\ checkedCount' = checkedCount + 1
    /\ Go(w, "counted")
    /\ UNCHANGED <<program, jobs, jobVars, job, count, wg, notFoundPathCount, filed, signals, main, received>>

(* The counter is read again for the message: others may have raised it.   *)
MakeMessage(w) ==
    /\ At(w, "md5", "counted")
    /\ count' = [count EXCEPT ![w] = checkedCount]
    /\ Go(w, "send")
    /\ UNCHANGED <<program, jobs, jobVars, job, sumVars, main>>

(* The end of all lines, and one before it.                                *)
AlmostAllCounted(n) == n + notFoundPathCount >= Len(jobs) - 1
AllCounted(n) == n + notFoundPathCount = Len(jobs)

(* The consumer, once it runs, receives a message; the worker goes on.     *)
ReceiveMD5(w) ==
    /\ At(w, "md5", "send") /\ main = "consume"
    /\ filed' = filed \cup {job[w]}
    /\ received' = count[w]
    /\ main' = "compare"
    /\ Go(w, "done")
    /\ UNCHANGED <<program, jobs, jobVars, job, count, wg, notFoundPathCount, checkedCount, signals>>

(* It then reads the counter of the missing files, as it is by now.  When  *)
(* the two make up the list, main writes what has been received, whoever   *)
(* else is sending.                                                        *)
CompareCount ==
    /\ program = "md5" /\ main = "compare"
    /\ main' = IF AllCounted(received) THEN "reply" ELSE "consume"
    /\ received' = 0
    /\ UNCHANGED <<program, jobs, jobVars, workVars, wg, notFoundPathCount, checkedCount, filed, signals>>

(* The deferred Done; the last one wakes a main that waits.                *)
DoneWorker(w) ==
    /\ At(w, "md5", "done")
    /\ wg' = wg - 1
    /\ main' = IF main = "waiting" /\ wg' = 0 THEN "woken" ELSE main
    /\ Go(w, "idle")
    /\ job' = [job EXCEPT ![w] = 0] /\ count' = [count EXCEPT ![w] = 0]
    /\ UNCHANGED <<program, jobs, jobVars, notFoundPathCount, checkedCount, filed, signals, received>>

(* main waits for the workers before it starts the consumer.  It gets past *)
(* that when no worker has added itself yet, or when those that have found *)
(* no file; woken too late, the wait group panics.                         *)
Wait ==
    /\ program = "md5" /\ main = "wait"
    /\ main' = IF wg = 0 THEN "consume" ELSE "waiting"
    /\ UNCHANGED <<program, jobs, jobVars, workVars, sumVars>>

WaitReturns ==
    /\ program = "md5" /\ main = "woken"
    /\ main' = IF wg = 0 THEN "consume" ELSE "panicked"
    /\ UNCHANGED <<program, jobs, jobVars, workVars, sumVars>>

(* Every goroutine blocked.  The runtime of a build without cgo sees it    *)
(* and ends the program; with cgo it does not look, and md5 sleeps on.     *)
AllAsleep ==
    /\ program = "md5" /\ main = "waiting"
    /\ \A w \in Workers : \/ worker[w] = "send"
                          \/ (worker[w] = "idle" /\ fileChan = <<>>)
    /\ closed \/ (next <= Len(jobs) /\ Len(fileChan) = Capacity)
    /\ main' \in {"deadlock", "hung"}
    /\ UNCHANGED <<program, jobs, jobVars, workVars, sumVars>>

WriteReport ==
    /\ program = "md5" /\ main = "reply"
    /\ main' \in {"ended", "failed"}
    /\ UNCHANGED <<program, jobs, jobVars, workVars, sumVars>>

(* The consumer polls.                                                     *)
Poll == program = "md5" /\ main = "consume" /\ UNCHANGED vars

-----------------------------------------------------------------------------
(* The walker.  The channel of files is unbuffered.                        *)
StartWalk ==
    /\ program = "walker" /\ main = "start"
    /\ main' = "consume"
    /\ UNCHANGED <<program, jobs, jobVars, workVars, sumVars>>

(* What has vanished is reported without information about it, which is    *)
(* asked for nevertheless: a nil pointer.                                  *)
Walk ==
    /\ program = "walker" /\ Running /\ ~closed /\ next <= Len(jobs)
    /\ next' = next + 1
    /\ \/ /\ jobs[next] = "dir"
          /\ UNCHANGED <<workVars, main>>
       \/ /\ jobs[next] = "vanished"
          /\ main' = "panicked"
          /\ UNCHANGED workVars
       \/ /\ jobs[next] = "file"
          /\ \E w \in Workers :
                /\ At(w, "walker", "idle")
                /\ job' = [job EXCEPT ![w] = next]
                /\ Go(w, "open")
          /\ UNCHANGED <<count, main>>
    /\ UNCHANGED <<program, jobs, fileChan, closed, sumVars>>

CloseFiles ==
    /\ program = "walker" /\ Running /\ ~closed /\ next > Len(jobs)
    /\ closed' = TRUE
    /\ UNCHANGED <<program, jobs, next, fileChan, workVars, sumVars, main>>

CompareExtension(w) ==
    /\ At(w, "walker", "open")
    /\ filed' = filed \cup {job[w]}
    /\ job' = [job EXCEPT ![w] = 0]
    /\ Go(w, "idle")
    /\ UNCHANGED <<program, jobs, jobVars, count, wg, notFoundPathCount, checkedCount, signals, main, received>>

(* main takes as many signals as there are workers; or waits for one more. *)
SignalOneMore(w) ==
    /\ At(w, "walker", "idle") /\ closed
    /\ Go(w, "gone")
    /\ signals' = signals + 1
    /\ main' = IF signals' > Cardinality(Workers) THEN "ended" ELSE main
    /\ UNCHANGED <<program, jobs, jobVars, job, count, wg, notFoundPathCount, checkedCount, filed, received>>

Signal(w) ==
    /\ At(w, "walker", "idle") /\ closed
    /\ Go(w, "gone")
    /\ signals' = signals + 1
    /\ main' = IF signals' = Cardinality(Workers) THEN "ended" ELSE main
    /\ UNCHANGED <<program, jobs, jobVars, job, count, wg, notFoundPathCount, checkedCount, filed, received>>

-----------------------------------------------------------------------------
(* The collector: one goroutine per log, a buffered channel of results.    *)
sendLogCollect ==
    /\ program = "collector" /\ main = "start"
    /\ \/ main' = "failed" /\ UNCHANGED wg
       \/ main' = "wait" /\ wg' = Len(jobs)
    /\ UNCHANGED <<program, jobs, jobVars, workVars, notFoundPathCount, checkedCount, filed, signals, received>>

(* A body came back, and it says that the file has been fetched.           *)
Answered(i) == jobs[i] = "ok"

(* A result, or the error that the archive will lack; nothing recovers a   *)
(* panic here.                                                             *)
downloadRequest(w) ==
    /\ At(w, "collector", "idle")
    /\ Go(w, "gone")
    /\ filed' = IF Answered(w) THEN filed \cup {w} ELSE filed
    /\ main' = IF jobs[w] = "malformed" THEN "panicked" ELSE main
    /\ wg' = wg - 1
    /\ UNCHANGED <<program, jobs, jobVars, job, count, notFoundPathCount, checkedCount, signals, received>>

(* All have ended: the results are drained and zipped.                     *)
zipFiles ==
    /\ program = "collector" /\ main = "wait" /\ wg = 0
    /\ main' \in {"ended", "failed"}
    /\ UNCHANGED <<program, jobs, jobVars, workVars, sumVars>>

-----------------------------------------------------------------------------
Ended == main \in {"panicked", "deadlock", "failed", "ended"}
Over == Ended \/ main = "hung"
Terminated == Over /\ UNCHANGED vars

MainStep ==
    \/ countLines \/ ReadLine \/ Wait \/ WaitReturns \/ CompareCount \/ AllAsleep \/ WriteReport
    \/ StartWalk \/ Walk \/ CloseFiles
    \/ sendLogCollect \/ zipFiles

WorkerStep(w) ==
    \/ TakeLine(w) \/ AddWorker(w) \/ OpenFile(w) \/ CountFile(w) \/ MakeMessage(w)
    \/ ReceiveMD5(w) \/ DoneWorker(w)
    \/ CompareExtension(w) \/ Signal(w)
    \/ downloadRequest(w)

Step == MainStep \/ \E w \in AllGoroutines : WorkerStep(w)

Next == Step \/ Poll \/ Terminated

Spec == Init /\ [][Next]_vars

(* The consumer of md5 polls, but not so as to keep every other goroutine  *)
(* from running.  The Go scheduler gives more, a turn to each of them; no  *)
(* more is needed, for only the polls can be repeated without end.         *)
FairSpec == Spec /\ WF_vars(Step)

-----------------------------------------------------------------------------
Of(kind) == {i \in DOMAIN jobs : jobs[i] = kind}

(* What the output covers.  The walker has compared every file and the     *)
(* archive of the collector holds every log that could be downloaded.  The *)
(* groups of md5 may lack files: whoever counts last may be received       *)
(* before those that counted earlier.  But they lack one file fewer than   *)
(* there are workers, at most.                                             *)
Accounted ==
    main = "ended" =>
        CASE program = "walker"    -> filed = Of("file")
          [] program = "collector" -> filed = Of("ok")
          [] program = "md5"       -> /\ filed # {} /\ filed \subseteq Of("good")
                                      /\ Cardinality(Of("good") \ filed) < Cardinality(Workers)

(* The walker and the collector end.  md5, when its list names at least    *)
(* one file and every file can be hashed, writes its report or comes to    *)
(* where all its goroutines sleep; it never polls for ever.                *)
EndsOrSleeps ==
    \/ program = "md5" /\ (jobs = <<>> \/ Range_(jobs) \cap {"missing", "broken"} # {})
    \/ program = "md5" /\ <>Over
    \/ program # "md5" /\ <>Ended
=============================================================================
