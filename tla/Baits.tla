------------------------------- MODULE Baits --------------------------------
(***************************************************************************)
(* The bait files and the processes that watch them (cmd/baits.go,         *)
(* internal/common.go).                                                    *)
(*                                                                         *)
(*   baits -install -target P       writes the four bait files             *)
(*   baits -uninstall -target P     removes them                           *)
(*   baits -watch -target P         a wrapper: starts the child "bait -m", *)
(*                                  registers it with the agent, reads its *)
(*                                  output until it ends                   *)
(*   baits -unwatch -target P [-f]  kills the child, kills the wrapper,    *)
(*                                  erases the registration                *)
(*   baits -watched-list            a monitor: sends the agent the status  *)
(*                                  of every registered directory          *)
(*                                                                         *)
(* Processes are looked up with ps and grep.  A directory's name also      *)
(* finds the processes of every directory whose name contains it.  The     *)
(* agent, which is not in this repository, keeps the registrations.  Every *)
(* call of it that gets no response reads the body of a nil response and   *)
(* panics.                                                                 *)
(***************************************************************************)
EXTENDS Integers, Sequences, FiniteSets, FiniteSetsExt, Functions

CONSTANTS
    Paths,          (* directories                                         *)
    Containing,     (* for each directory, those whose name contains its   *)
    FILES,          (* the names of the bait files                         *)
    Unwatchers, Monitors,
    Forces,         (* whether -unwatch is given -f                        *)
    MaxPid,         (* bound: processes of watches ever started            *)
    MaxFaults       (* bound: stops of the agent or of a child, and writes *)
                    (* that fail                                           *)

ASSUME BaitsAssumption ==
    /\ Containing \in [Paths -> SUBSET Paths] /\ \A p \in Paths : p \in Containing[p]
    /\ Paths # {} /\ FILES # {} /\ MaxPid \in Nat /\ MaxFaults \in Nat
    /\ Forces \subseteq BOOLEAN

VARIABLES
    baits,          (* the bait files that exist in each directory         *)
    proc,           (* wrappers and children; the index is the pid         *)
    agent,          (* the agent answers                                   *)
    startup,        (* its registrations: the child's pid by directory     *)
    liveStatus,     (* the status it was sent last: 0 alive, 1 not, -1 none*)
    unwatch,        (* the runs of -unwatch                                *)
    monitor,        (* the runs of -watched-list                           *)
    faults

vars == <<baits, proc, agent, startup, liveStatus, unwatch, monitor, faults>>

Process == [kind : {"wrapper", "child"}, path : Paths, child : Nat,
            at : {"registering", "reading", "running", "exited"}]

NoPid == 0
NoKey == CHOOSE p \in Paths : TRUE
Unwatch == [at : {"off", "find child", "kill child", "find wrapper", "kill wrapper", "erase"},
            path : Paths, force : BOOLEAN, pid : 0..MaxPid, begin : SUBSET (1..MaxPid)]
NoUnwatch == [at |-> "off", path |-> NoKey, force |-> FALSE, pid |-> NoPid, begin |-> {}]

Monitor == [at : {"off", "starting", "list", "detect", "send", "stuck"}, parent : BOOLEAN,
            todo : SUBSET Paths, key : Paths, status : {0, 1}]

TypeOK ==
    /\ baits \in [Paths -> SUBSET FILES]
    /\ proc \in Seq(Process) /\ Len(proc) <= MaxPid
    /\ agent \in BOOLEAN
    /\ DOMAIN startup \subseteq Paths /\ Range(startup) \subseteq 1..MaxPid
    /\ liveStatus \in [Paths -> {-1, 0, 1}]
    /\ unwatch \in [Unwatchers -> Unwatch]
    /\ monitor \in [Monitors -> Monitor]
    /\ faults \in 0..MaxFaults

Init ==
    /\ baits = [p \in Paths |-> {}]
    /\ proc = <<>>
    /\ agent = TRUE
    /\ startup = <<>>
    /\ liveStatus = [p \in Paths |-> -1]
    /\ unwatch = [u \in Unwatchers |-> NoUnwatch]
    /\ monitor = [m \in Monitors |->
           [at |-> "off", parent |-> FALSE, todo |-> {}, key |-> NoKey, status |-> 0]]
    /\ faults = 0

Fault == faults < MaxFaults /\ faults' = faults + 1

-----------------------------------------------------------------------------
(* Installing and removing (which no longer matters when no other watch    *)
(* can be started).                                                        *)

(* Every file that can be created is written whole.                        *)
Install(p) ==
    /\ Len(proc) + 2 <= MaxPid
    /\ \/ baits' = [baits EXCEPT ![p] = FILES] /\ UNCHANGED faults
       \/ Fault /\ \E f \in FILES : baits' = [baits EXCEPT ![p] = @ \cup (FILES \ {f})]
    /\ UNCHANGED <<proc, agent, startup, liveStatus, unwatch, monitor>>

Uninstall(p) ==
    /\ Len(proc) + 2 <= MaxPid
    /\ baits[p] # {}
    /\ baits' = [baits EXCEPT ![p] = {}]
    /\ UNCHANGED <<proc, agent, startup, liveStatus, unwatch, monitor, faults>>

-----------------------------------------------------------------------------
(* The watch: a wrapper and its child.  No other watch of the directory is *)
(* looked for.                                                             *)
Alive(pid) == pid \in DOMAIN proc /\ proc[pid].at # "exited"
Exit(pids) ==
    [i \in DOMAIN proc |-> IF i \in pids THEN [proc[i] EXCEPT !.at = "exited"] ELSE proc[i]]

StartWatch(p) ==
    /\ baits[p] = FILES
    /\ Len(proc) + 2 <= MaxPid
    /\ LET child == Len(proc) + 2 IN
       proc' = proc \o
           <<[kind |-> "wrapper", path |-> p, child |-> child, at |-> "registering"],
             [kind |-> "child", path |-> p, child |-> NoPid, at |-> "running"]>>
    /\ UNCHANGED <<baits, agent, startup, liveStatus, unwatch, monitor, faults>>

(* The registration, and from then on the reading of the child's output.   *)
(* Without the agent the wrapper dies and leaves the child behind.         *)
Register(w) ==
    /\ Alive(w) /\ proc[w].at = "registering"
    /\ IF agent
       THEN /\ startup' = [q \in DOMAIN startup \cup {proc[w].path} |->
                              IF q = proc[w].path THEN proc[w].child ELSE startup[q]]
            /\ proc' = [proc EXCEPT ![w].at = "reading"]
       ELSE /\ UNCHANGED startup
            /\ proc' = Exit({w})
    /\ UNCHANGED <<baits, agent, liveStatus, unwatch, monitor, faults>>

(* The child reports a bait that was touched; the wrapper passes it on.    *)
SendState(w) ==
    /\ Alive(w) /\ proc[w].at = "reading" /\ Alive(proc[w].child)
    /\ ~agent
    /\ proc' = Exit({w})
    /\ UNCHANGED <<baits, agent, startup, liveStatus, unwatch, monitor, faults>>

(* Both pipes are at their end, and the child is waited for.               *)
WrapperReturns(w) ==
    /\ Alive(w) /\ proc[w].at = "reading" /\ ~Alive(proc[w].child)
    /\ proc' = Exit({w})
    /\ UNCHANGED <<baits, agent, startup, liveStatus, unwatch, monitor, faults>>

ChildDies(c) ==
    /\ Alive(c) /\ proc[c].kind = "child"
    /\ Fault
    /\ proc' = Exit({c})
    /\ UNCHANGED <<baits, agent, startup, liveStatus, unwatch, monitor>>

AgentStopsOrStarts ==
    /\ IF agent THEN Fault ELSE UNCHANGED faults
    /\ agent' = ~agent
    /\ UNCHANGED <<baits, proc, startup, liveStatus, unwatch, monitor>>

-----------------------------------------------------------------------------
(* ps -ef | grep 'baits -watch ' (or 'bait -m ') | grep P, in pid order.   *)
Found(kind, p) ==
    {i \in DOMAIN proc : Alive(i) /\ proc[i].kind = kind /\ proc[i].path \in Containing[p]}

RunProcessDetect(p) == Found("wrapper", p)
RunSubProcessDetect(p) == Found("child", p)

(* Of several processes the last one, or the first one.                    *)
LastResult(pids) == Max(pids)
FirstResult(pids) == Min(pids)

StartUnwatch(u, p) ==
    /\ unwatch[u].at = "off"
    /\ \E force \in Forces :
          unwatch' = [unwatch EXCEPT ![u] =
              [at |-> "find child", path |-> p, force |-> force, pid |-> NoPid,
               begin |-> RunProcessDetect(p) \cup RunSubProcessDetect(p)]]
    /\ UNCHANGED <<baits, proc, agent, startup, liveStatus, monitor, faults>>

(* Without a process it is refused; with -f its pid is the number of an    *)
(* empty string, 0, and signalling that kills the own process group.       *)
FindProcess(u, at, next, found) ==
    /\ unwatch[u].at = at
    /\ unwatch' = [unwatch EXCEPT
           ![u] = IF found = {} THEN NoUnwatch
                  ELSE [@ EXCEPT !.at = next, !.pid = FirstResult(found)]]
    /\ UNCHANGED <<baits, proc, agent, startup, liveStatus, monitor, faults>>

(* Signalling a process that has gone fails, unless nobody has waited for  *)
(* it yet.                                                                 *)
KillProcess(u, at, next) ==
    /\ unwatch[u].at = at
    /\ \/ unwatch' = [unwatch EXCEPT ![u].at = next] /\ proc' = Exit({unwatch[u].pid})
       \/ /\ ~Alive(unwatch[u].pid)
          /\ unwatch' = [unwatch EXCEPT ![u] = NoUnwatch] /\ UNCHANGED proc
    /\ UNCHANGED <<baits, agent, startup, liveStatus, monitor, faults>>

Erase(u) ==
    /\ unwatch[u].at = "erase"
    /\ unwatch' = [unwatch EXCEPT ![u] = NoUnwatch]
    /\ startup' = IF agent THEN Restrict(startup, DOMAIN startup \ {unwatch[u].path}) ELSE startup
    /\ UNCHANGED <<baits, proc, agent, liveStatus, monitor, faults>>

FindChild(u) ==
    FindProcess(u, "find child", "kill child", RunSubProcessDetect(unwatch[u].path))
KillChild(u) == KillProcess(u, "kill child", "find wrapper")
FindWrapper(u) ==
    FindProcess(u, "find wrapper", "kill wrapper", RunProcessDetect(unwatch[u].path))
KillWrapper(u) == KillProcess(u, "kill wrapper", "erase")

-----------------------------------------------------------------------------
(* The monitor.  With -d a parent starts it and exits.                     *)
StartMonitor(m) ==
    /\ monitor[m].at = "off" /\ ~monitor[m].parent
    /\ \E daemon \in BOOLEAN :
          monitor' = [monitor EXCEPT ![m].at = "starting", ![m].parent = daemon]
    /\ UNCHANGED <<baits, proc, agent, startup, liveStatus, unwatch, faults>>

ParentExits(m) ==
    /\ monitor[m].parent
    /\ monitor' = [monitor EXCEPT ![m].parent = FALSE]
    /\ UNCHANGED <<baits, proc, agent, startup, liveStatus, unwatch, faults>>

(* 'baits -watched-list' finds the monitors, itself included, and a parent *)
(* that has not exited yet: two of them are one too many.                  *)
RunProcessWatching(m) ==
    /\ monitor[m].at = "starting"
    /\ LET running == Cardinality({k \in Monitors : monitor[k].at # "off"})
                      + Cardinality({k \in Monitors : monitor[k].parent})
       IN monitor' = [monitor EXCEPT ![m].at = IF running >= 2 THEN "off" ELSE "list"]
    /\ UNCHANGED <<baits, proc, agent, startup, liveStatus, unwatch, faults>>

(* The list is asked for; when it is empty the loop ends, and main waits   *)
(* in an empty select.                                                     *)
List(m) ==
    /\ monitor[m].at = "list"
    /\ monitor' = [monitor EXCEPT
           ![m].at = IF ~agent THEN "off" ELSE IF DOMAIN startup = {} THEN "stuck" ELSE "detect",
           ![m].todo = IF agent THEN DOMAIN startup ELSE {}]
    /\ UNCHANGED <<baits, proc, agent, startup, liveStatus, unwatch, faults>>

(* strings.Split always gives one piece more than there are lines.         *)
AliveByLength(lines) == lines + 1 >= 1
AliveByLines(lines) == lines + 1 > 1

DetectStatus(m) ==
    /\ monitor[m].at = "detect"
    /\ \E key \in monitor[m].todo :
          monitor' = [monitor EXCEPT
              ![m].at = "send", ![m].key = key, ![m].todo = @ \ {key},
              ![m].status = IF AliveByLines(Cardinality(RunProcessDetect(key))) THEN 0 ELSE 1]
    /\ UNCHANGED <<baits, proc, agent, startup, liveStatus, unwatch, faults>>

(* After the last directory the monitor sleeps for ten seconds.            *)
SendStatus(m) ==
    /\ monitor[m].at = "send"
    /\ liveStatus' = IF agent THEN [liveStatus EXCEPT ![monitor[m].key] = monitor[m].status]
                     ELSE liveStatus
    /\ monitor' = [monitor EXCEPT
           ![m].at = IF ~agent THEN "off" ELSE IF monitor[m].todo = {} THEN "list" ELSE "detect",
           ![m].todo = IF agent THEN @ ELSE {}, ![m].key = NoKey, ![m].status = 0]
    /\ UNCHANGED <<baits, proc, agent, startup, unwatch, faults>>

-----------------------------------------------------------------------------
WatchStep(w) == Register(w) \/ SendState(w) \/ WrapperReturns(w)
UnwatchStep(u) == FindChild(u) \/ KillChild(u) \/ FindWrapper(u) \/ KillWrapper(u) \/ Erase(u)
MonitorStep(m) == RunProcessWatching(m) \/ List(m) \/ DetectStatus(m) \/ SendStatus(m)

Next ==
    \/ \E p \in Paths :
          \/ Install(p) \/ Uninstall(p) \/ StartWatch(p)
          \/ \E u \in Unwatchers : StartUnwatch(u, p)
    \/ \E i \in DOMAIN proc : WatchStep(i) \/ ChildDies(i)
    \/ \E u \in Unwatchers : UnwatchStep(u)
    \/ \E m \in Monitors : StartMonitor(m) \/ ParentExits(m) \/ MonitorStep(m)
    \/ AgentStopsOrStarts

Spec == Init /\ [][Next]_vars

(* Processes run; their calls of ps and of the agent return.               *)
FairSpec ==
    /\ Spec
    /\ \A i \in 1..MaxPid : WF_vars(i \in DOMAIN proc /\ WatchStep(i))
    /\ \A u \in Unwatchers : WF_vars(UnwatchStep(u))
    /\ \A m \in Monitors : WF_vars(MonitorStep(m)) /\ WF_vars(ParentExits(m))

-----------------------------------------------------------------------------
(* When -unwatch erases a registration, the watch it found when it began   *)
(* has stopped, wrapper and child, whatever was started, died or was       *)
(* unwatched meanwhile: unless it had found several processes of a kind,   *)
(* of which it kills only the first.                                       *)
EraseMeansStopped ==
    [][\A u \in Unwatchers :
          unwatch[u].at = "erase" /\ unwatch'[u].at = "off" /\ agent =>
              \/ \E i, j \in unwatch[u].begin : i # j /\ proc[i].kind = proc[j].kind
              \/ \A i \in unwatch[u].begin : ~Alive(i)]_vars

Looping(m) == monitor[m].at \in {"list", "detect", "send"}

(* As long as a monitor loops, the status of a registered directory        *)
(* settles: to 1 when no watch is found by its name any more, to 0 when one*)
(* is found (be it another directory's).                                   *)
StatusSettles ==
    \A p \in Paths :
        /\ <>[]((\E m \in Monitors : Looping(m)) /\ p \in DOMAIN startup /\ Found("wrapper", p) = {})
              => <>[](liveStatus[p] = 1)
        /\ <>[]((\E m \in Monitors : Looping(m)) /\ p \in DOMAIN startup /\ Found("wrapper", p) # {})
              => <>[](liveStatus[p] = 0)

(* A forced unwatch that comes to its end has erased the registration.     *)
ForceErases ==
    [][\A u \in Unwatchers :
          unwatch[u].force /\ unwatch[u].at # "off" /\ unwatch'[u].at = "off" /\ agent =>
              unwatch[u].path \notin DOMAIN startup']_vars
=============================================================================
