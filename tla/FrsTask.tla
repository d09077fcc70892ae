------------------------------ MODULE FrsTask -------------------------------
(***************************************************************************)
(* frs -scan (cmd/frs.go): one scan task.  frs runs the extract program    *)
(* once per operation, one after the other -- a collection (origin, or     *)
(* fetch and download for a net disk) and then the four scan phases -- and *)
(* registers the status of the task with every master before and after     *)
(* each of them.                                                           *)
(*                                                                         *)
(* The children are taken by their contracts (Collection, PhaseContract):  *)
(* a collection adds entries to the task's database and prints a count; a  *)
(* scan phase ends only if it is given a count between 1 and the number of *)
(* all entries of the database and has a worker, and its section of the    *)
(* report is complete if the count is that number.  A child may also die.  *)
(*                                                                         *)
(* The directory of the task may hold the database and the report of an    *)
(* earlier task of the same name, and frs does not look whether it could   *)
(* remove them.  The report is opened for appending: lines that are there  *)
(* stay in front of the sections this task writes, and are left out here.  *)
(*                                                                         *)
(* frs holds both ends of two pipes.  It reads the child's stdout to its   *)
(* end before it starts on stderr, which takes PipeCapacity units and then *)
(* blocks the child.                                                       *)
(***************************************************************************)
EXTENDS Integers, SequencesExt

CONSTANTS
    MasterList,     (* the masters of server.yml, a sequence               *)
    MaxFiles,       (* bound: files a collection may meet                  *)
    MaxLeft,        (* bound: entries that an earlier task may have left   *)
    PipeCapacity,   (* units of log that fit into the stderr pipe          *)
    MaxLog          (* bound: units of log a child writes                  *)

ASSUME FrsAssumption ==
    /\ MaxFiles \in Nat /\ MaxLeft \in Nat /\ PipeCapacity \in Nat /\ MaxLog \in Nat
    /\ MasterList \in Seq(Range(MasterList))

Collections == {"origin", "fetch"}

ScanPhases == {"duplicate", "permissions", "suffix", "content"}

Operations == Collections \cup {"download"} \cup ScanPhases

ScanOrder == <<"duplicate", "permissions", "suffix", "content">>

(* The operations of a task, in the order they are run.                    *)
Plan(netdisk) ==
    (IF netdisk THEN <<"fetch", "download">> ELSE <<"origin">>) \o ScanOrder

(* Statuses registered with the masters.                                   *)
Status ==
    ({"task"} \cup Operations) \X {"running", "successfully", "failed"}

Nothing == <<"task", "unknown">>

NoCount == -1

VARIABLES
    netdisk,        (* the -netdisk flag                                   *)
    pathExists,     (* the scanned path is there                           *)
    masters,        (* masters configured; none if server.yml is unreadable*)
    hasWorkers,     (* the machine is large enough for scan workers        *)
    frs,            (* where the frs process is                            *)
    plan,           (* operations still to run; the first is the current   *)
    status,         (* the status being registered                         *)
    toTell,         (* masters that have still to be told                  *)
    resume,         (* where frs goes on when all are                      *)
    view,           (* the last status each master has received            *)
    taskCount,      (* taskInfo.Count, the -count of the next child        *)
    count,          (* the count RunCommand has read; 0 between two calls  *)
    child,          (* "none", "running", "succeeded" or "failed"          *)
    logsLeft,       (* units of log the child has still to write           *)
    stderr,         (* units of log in the pipe                            *)
    printed,        (* the number on the Count line in the stdout pipe     *)
    entries,        (* entries that this task's collection has saved       *)
    left,           (* entries of an earlier task that are still there     *)
    section,        (* this task's section: "none", "partial", "complete"  *)
    ended           (* how the child of each operation ended: "failed" or, *)
                    (* when its result was out already, "failed late"      *)

config == <<netdisk, pathExists, masters, hasWorkers>>
tellVars == <<status, toTell, resume, view>>
childVars == <<child, logsLeft, stderr, printed>>
taskDir == <<entries, left, section>>
vars == <<config, frs, plan, tellVars, taskCount, count, childVars,
          taskDir, ended>>

Ended == frs \in {"finished", "rejected", "panicked", "fatal"}

Operation == Head(plan)

(* What a phase finds in the database.                                     *)
Stored == entries + left

TypeOK ==
    /\ netdisk \in BOOLEAN /\ pathExists \in BOOLEAN /\ hasWorkers \in BOOLEAN
    /\ masters \in {<<>>, MasterList}
    /\ frs \in {"check", "remove", "telling", "start", "stdout", "stderr",
                "wait", "return", "finished", "rejected", "panicked", "fatal"}
    /\ IsSuffix(plan, Plan(netdisk))
    /\ status \in Status /\ IsSuffix(toTell, masters)
    /\ resume \in {"check", "start", "stdout", "return", "finished", "rejected"}
    /\ view \in [Range(MasterList) -> Status \cup {Nothing}]
    /\ taskCount \in 0 .. MaxFiles /\ count \in 0 .. MaxFiles
    /\ child \in {"none", "running", "succeeded", "failed"}
    /\ logsLeft \in 0 .. MaxLog /\ stderr \in 0 .. PipeCapacity
    /\ printed \in NoCount .. MaxFiles
    /\ entries \in 0 .. MaxFiles /\ left \in 0 .. MaxLeft
    /\ section \in [ScanPhases -> {"none", "partial", "complete"}]
    /\ ended \in [Operations -> {"none", "succeeded", "failed", "failed late"}]

(* The path of a net disk is no path of this machine.  The task directory  *)
(* may hold what an earlier task of the name left.                         *)
Init ==
    /\ netdisk \in BOOLEAN /\ pathExists \in BOOLEAN /\ hasWorkers \in BOOLEAN
    /\ netdisk => ~pathExists
    /\ masters \in {<<>>, MasterList}
    /\ frs = "check"
    /\ plan = Plan(netdisk)
    /\ status = <<"task", "running">> /\ toTell = <<>> /\ resume = "check"
    /\ view = [m \in Range(MasterList) |-> Nothing]
    /\ taskCount = 0 /\ count = 0
    /\ child = "none" /\ logsLeft = 0 /\ stderr = 0 /\ printed = NoCount
    /\ entries = 0 /\ left \in 0 .. MaxLeft
    /\ section = [p \in ScanPhases |-> "none"]
    /\ ended = [o \in Operations |-> "none"]

-----------------------------------------------------------------------------
(* PhaseStatus and its Register calls: tell every master, then go on.      *)
Tell(s, next) ==
    /\ status' = s
    /\ toTell' = masters
    /\ resume' = next
    /\ frs' = "telling"
    /\ UNCHANGED view

(* The masters are told from the last to the first.                        *)
RegisteredLast ==
    /\ frs = "telling"
    /\ toTell # <<>>
    /\ view' = [view EXCEPT ![Last(toTell)] = status]
    /\ toTell' = Front(toTell)
    /\ UNCHANGED <<config, frs, plan, status, resume, taskCount, count,
                   childVars, taskDir, ended>>

Registered ==
    /\ frs = "telling"
    /\ toTell # <<>>
    /\ view' = [view EXCEPT ![Head(toTell)] = status]
    /\ toTell' = Tail(toTell)
    /\ UNCHANGED <<config, frs, plan, status, resume, taskCount, count,
                   childVars, taskDir, ended>>

(* The master cannot be reached: Register closes the body of a response    *)
(* that is nil, whatever else frs still had to do.                         *)
RegisterPanics ==
    /\ frs = "telling"
    /\ toTell # <<>>
    /\ frs' = "panicked"
    /\ UNCHANGED <<config, plan, tellVars, taskCount, count, childVars,
                   taskDir, ended>>

AllTold ==
    /\ frs = "telling"
    /\ toTell = <<>>
    /\ frs' = resume
    /\ UNCHANGED <<config, plan, tellVars, taskCount, count, childVars,
                   taskDir, ended>>

-----------------------------------------------------------------------------
(* Only a path that is not on a net disk has to exist.                     *)
PathMissing ==
    /\ frs = "check"
    /\ ~netdisk /\ ~pathExists
    /\ Tell(<<"task", "failed">>, "rejected")
    /\ UNCHANGED <<config, plan, taskCount, count, childVars, taskDir, ended>>

PathAccepted ==
    /\ frs = "check"
    /\ netdisk \/ pathExists
    /\ frs' = "remove"
    /\ UNCHANGED <<config, plan, tellVars, taskCount, count, childVars,
                   taskDir, ended>>

(* The error of os.RemoveAll is dropped: what it could not remove stays,   *)
(* and the task goes on.                                                   *)
RemoveTaskDirectory ==
    /\ frs = "remove"
    /\ left' \in 0 .. left
    /\ Tell(<<"task", "running">>, "start")
    /\ UNCHANGED <<config, plan, taskCount, count, childVars, entries, section,
                   ended>>

-----------------------------------------------------------------------------
(* RunCommand: start the child and tell the masters that it runs.          *)
StartChild ==
    /\ frs = "start"
    /\ plan # <<>>
    /\ child' = "running"
    /\ logsLeft' \in 0 .. MaxLog
    /\ stderr' = 0
    /\ printed' = NoCount
    /\ Tell(<<Operation, "running">>, "stdout")
    /\ UNCHANGED <<config, plan, taskCount, count, taskDir, ended>>

(* log.Fatalf: the masters are left with the status they have.             *)
StartFails ==
    /\ frs = "start"
    /\ plan # <<>>
    /\ frs' = "fatal"
    /\ UNCHANGED <<config, plan, tellVars, taskCount, count, childVars,
                   taskDir, ended>>

(* A missing Count line is not noticed.                                    *)
DrainStdoutRaw ==
    /\ frs = "stdout"
    /\ child # "running"
    /\ count' = printed
    /\ frs' = "stderr"
    /\ UNCHANGED <<config, plan, tellVars, taskCount, childVars, taskDir, ended>>

(* stdout ends with the child; with no Count line, the count is 0.         *)
DrainStdout ==
    /\ frs = "stdout"
    /\ child # "running"
    /\ count' = IF printed = NoCount THEN 0 ELSE printed
    /\ printed' = NoCount
    /\ frs' = "stderr"
    /\ UNCHANGED <<config, plan, tellVars, taskCount, child, logsLeft, stderr,
                   taskDir, ended>>

DrainStderr ==
    /\ frs = "stderr"
    /\ child # "running"
    /\ stderr' = 0
    /\ frs' = "wait"
    /\ UNCHANGED <<config, plan, tellVars, taskCount, count, child, logsLeft,
                   printed, taskDir, ended>>

(* Done is called for a child that failed as well.                         *)
WaitAlwaysSucceeds ==
    /\ frs = "wait"
    /\ child \in {"succeeded", "failed"}
    /\ Tell(<<Operation, "successfully">>, "return")
    /\ UNCHANGED <<config, plan, taskCount, count, childVars, taskDir, ended>>

WaitSucceeds ==
    /\ frs = "wait"
    /\ child = "succeeded"
    /\ Tell(<<Operation, "successfully">>, "return")
    /\ UNCHANGED <<config, plan, taskCount, count, childVars, taskDir, ended>>

(* The child's exit status is an ExitError: RunCommand returns without     *)
(* calling failed, and nobody looks at the error it returns.               *)
WaitExitError ==
    /\ frs = "wait"
    /\ child = "failed"
    /\ frs' = "return"
    /\ UNCHANGED <<config, plan, tellVars, taskCount, count, childVars,
                   taskDir, ended>>

(* Wait itself fails: the one case in which failed is called.              *)
WaitFails ==
    /\ frs = "wait"
    /\ Tell(<<Operation, "failed">>, "return")
    /\ UNCHANGED <<config, plan, taskCount, count, childVars, taskDir, ended>>

(* The same operation again and again.                                     *)
SameOperation ==
    /\ frs = "return"
    /\ taskCount' = IF Operation \in ScanPhases THEN taskCount ELSE count
    /\ count' = 0
    /\ frs' = "start"
    /\ UNCHANGED <<config, plan, tellVars, childVars, taskDir, ended>>

(* The count of a collection or a download is that of the next children.   *)
NextOperation ==
    /\ frs = "return"
    /\ taskCount' = IF Operation \in ScanPhases THEN taskCount ELSE count
    /\ plan' = Tail(plan)
    /\ count' = 0
    /\ frs' = "start"
    /\ UNCHANGED <<config, tellVars, childVars, taskDir, ended>>

ProcessFinished ==
    /\ frs = "start"
    /\ plan = <<>>
    /\ Tell(<<"task", "successfully">>, "finished")
    /\ UNCHANGED <<config, plan, taskCount, count, childVars, taskDir, ended>>

-----------------------------------------------------------------------------
(* The children.  What they are doing when frs is gone does not matter.    *)
Running(ops) ==
    /\ ~Ended
    /\ child = "running"
    /\ Operation \in ops

ChildEnds(outcome) ==
    /\ child' = IF outcome = "succeeded" THEN "succeeded" ELSE "failed"
    /\ ended' = [ended EXCEPT ![Operation] = outcome]
    /\ logsLeft' = 0
    /\ UNCHANGED <<config, frs, plan, tellVars, taskCount, count, stderr>>

(* A child that has printed its count and written its report has still to  *)
(* close the database, and may die of that.                                *)
Outcomes == {"succeeded", "failed late"}

ChildLogs ==
    /\ Running(Operations)
    /\ logsLeft > 0
    /\ stderr < PipeCapacity
    /\ logsLeft' = logsLeft - 1
    /\ stderr' = stderr + 1
    /\ UNCHANGED <<config, frs, plan, tellVars, taskCount, count, child,
                   printed, taskDir, ended>>

(* A collection saves n entries.  Those with the key of an entry that an   *)
(* earlier task left take its place.                                       *)
Saves(n) ==
    /\ entries' = n
    /\ left' \in 0 .. left
    /\ left - left' <= n
    /\ UNCHANGED section

(* n files are counted; those that share a database key give one entry.    *)
CollectionEnds(outcome) ==
    /\ Running(Collections)
    /\ logsLeft = 0
    /\ \E n \in 0 .. MaxFiles :
           /\ printed' = n
           /\ \E e \in 0 .. n : (e = 0 <=> n = 0) /\ Saves(e)
    /\ ChildEnds(outcome)

(* The error of a walk, or of a request to the net disk, is printed with   *)
(* no newline in front of the Count line, which Atoi then refuses: frs     *)
(* reads a count of 0.                                                     *)
PrintedErrorEnds(outcome) ==
    /\ Running(Collections)
    /\ logsLeft = 0
    /\ \E e \in 0 .. MaxFiles : Saves(e)
    /\ printed' = 0
    /\ ChildEnds(outcome)

DownloadEnds(outcome) ==
    /\ Running({"download"})
    /\ logsLeft = 0
    /\ taskCount \in 1 .. Stored
    /\ printed' \in 0 .. taskCount
    /\ UNCHANGED taskDir
    /\ ChildEnds(outcome)

(* A phase that takes a count of 0 for no limit.                           *)
ScanEndsUnlimited(outcome) ==
    /\ Running(ScanPhases)
    /\ logsLeft = 0
    /\ hasWorkers
    /\ taskCount \in 0 .. Stored
    /\ section' = [section EXCEPT ![Operation] =
                      IF taskCount = Stored THEN "complete" ELSE "partial"]
    /\ UNCHANGED <<entries, left, printed>>
    /\ ChildEnds(outcome)

ScanEnds(outcome) ==
    /\ Running(ScanPhases)
    /\ logsLeft = 0
    /\ hasWorkers
    /\ taskCount \in 1 .. Stored
    /\ section' = [section EXCEPT ![Operation] =
                      IF taskCount = Stored THEN "complete" ELSE "partial"]
    /\ UNCHANGED <<entries, left, printed>>
    /\ ChildEnds(outcome)

(* Killed, log.Fatal, a panic: with none or part of its work done.         *)
ChildDies ==
    /\ Running(Operations)
    /\ \/ Operation \in Collections /\ \E e \in 0 .. MaxFiles : Saves(e)
       \/ /\ Operation \in ScanPhases
          /\ section' = [section EXCEPT ![Operation] = "partial"]
          /\ UNCHANGED <<entries, left>>
       \/ UNCHANGED taskDir
    /\ UNCHANGED printed
    /\ ChildEnds("failed")

Terminated == Ended /\ UNCHANGED vars

FrsStep ==
    \/ Registered \/ RegisterPanics \/ AllTold
    \/ PathMissing \/ PathAccepted \/ RemoveTaskDirectory
    \/ StartChild \/ StartFails
    \/ DrainStdout \/ DrainStderr
    \/ WaitSucceeds \/ WaitExitError \/ WaitFails
    \/ NextOperation \/ ProcessFinished

ChildResult(outcome) ==
    \/ CollectionEnds(outcome)
    \/ PrintedErrorEnds(outcome)
    \/ DownloadEnds(outcome)
    \/ ScanEnds(outcome)

ChildStep == ChildLogs \/ \E o \in Outcomes : ChildResult(o)

Next == FrsStep \/ ChildStep \/ ChildDies \/ Terminated

Spec == Init /\ [][Next]_vars

(* Both processes are scheduled, and nothing makes a child die.  Every     *)
(* request has a time limit, except those of a download.                   *)
FairSpec ==
    /\ Spec
    /\ WF_vars(FrsStep)
    /\ WF_vars(ChildStep /\ Operation # "download")

-----------------------------------------------------------------------------
Told(s) == \E m \in Range(MasterList) : view[m] = s

(* Masters are told one after the other: at any moment the ones that know  *)
(* the status being registered come before the ones that know the previous *)
(* one, and they all agree between two statuses, unless frs has panicked.  *)
MastersInStep ==
    \A i, j \in DOMAIN masters : i < j =>
        \/ view[masters[i]] = view[masters[j]]
        \/ frs \in {"telling", "panicked"} /\ view[masters[i]] = status

(* No master hears that an operation was successful unless its child ended *)
(* with exit status 0, and the last word, "successfully", comes only after *)
(* the child of every operation has ended.                                 *)
SuccessTruthful ==
    /\ \A o \in Operations : Told(<<o, "successfully">>) => ended[o] = "succeeded"
    /\ Told(<<"task", "successfully">>) => \A o \in Range(Plan(netdisk)) : ended[o] # "none"

(* A section of a local task's report that was written by a phase that got *)
(* to its end is complete, even if the phase died of closing its database: *)
(* the count handed on from the collection is that of the database, or the *)
(* phase does not end.  The one way to a section that lacks entries is a   *)
(* directory that was not cleared, whose entries were not counted.         *)
SectionsComplete ==
    \A p \in ScanPhases :
        ~netdisk /\ ended[p] \in Outcomes => section[p] = "complete" \/ left > 0

(* A collection, or a download, that failed before it printed its count    *)
(* gives no result at all: frs goes on with a count of 0, and no later     *)
(* phase gets to its end on that.                                          *)
NoResultWithoutCollection ==
    \A c \in Collections \cup {"download"}, p \in ScanPhases :
        ended[c] = "failed" => ended[p] \notin Outcomes

(* A task comes to its end, or its current child waits for ever: for room  *)
(* in the pipe of a stderr that is read too late, for a count that it      *)
(* cannot reach, for a worker, or, as a download, for the file server.     *)
Stalled ==
    /\ child = "running"
    /\ \/ logsLeft > 0 /\ stderr = PipeCapacity
       \/ Operation = "download"
       \/ Operation \in ScanPhases /\ taskCount \notin 1 .. Stored
       \/ Operation \in ScanPhases /\ ~hasWorkers

EndsUnlessStalled == <>Ended \/ <>[]Stalled

(* RunCommand takes a callback for the case that the operation failed, and *)
(* each caller passes one that registers "<operation> failed": when        *)
(* RunCommand returns after a child that failed, the masters know.         *)
FailureReported ==
    frs = "return" /\ child = "failed" =>
        \A m \in Range(masters) : view[m] = <<Operation, "failed">>
=============================================================================
