---------------------------- MODULE BaitsProofs -----------------------------
(***************************************************************************)
(* What a run of baits -unwatch that erases a registration has stopped,    *)
(* for any directories, any number of unwatches and any number of          *)
(* processes.                                                              *)
(*                                                                         *)
(* An unwatch kills the first process it finds, and processes come and go  *)
(* between its two searches.  New processes get higher pids and those that *)
(* have ended do not come back: therefore a process found that is not      *)
(* above one of those it began with is one of those itself.                *)
(***************************************************************************)
EXTENDS Baits, FiniteSetTheorems, SequenceTheorems, WellFoundedInduction, TLAPS

(* The types, in parts.                                                    *)
ProcType ==
    /\ proc \in Seq(Process) /\ Len(proc) <= MaxPid
    /\ \A i \in DOMAIN proc :
          /\ proc[i].kind = "wrapper" => proc[i].child \in DOMAIN proc
          /\ proc[i].kind = "child" => proc[i].at \in {"running", "exited"}
(* The registrations.                                                      *)
StartupType == DOMAIN startup \subseteq Paths /\ Range(startup) \subseteq 1..MaxPid
(* The agent and the statuses it was sent.                                 *)
AgentType == agent \in BOOLEAN /\ liveStatus \in [Paths -> {-1, 0, 1}]
(* The runs of the commands.                                               *)
RunType == unwatch \in [Unwatchers -> Unwatch] /\ monitor \in [Monitors -> Monitor]
(* The bait files and the bound.                                           *)
RestType == baits \in [Paths -> SUBSET FILES] /\ faults \in 0..MaxFaults
(* All of them.                                                            *)
TypeInv == ProcType /\ StartupType /\ AgentType /\ RunType /\ RestType

-----------------------------------------------------------------------------
(* The unwatch found one process of each kind when it began.               *)
OneEach(u) ==
    \A i, j \in unwatch[u].begin : proc[i].kind = proc[j].kind => i = j

(* What it goes to kill is the one of this kind it began with, if that is  *)
(* still alive.                                                            *)
Chases(u, kind) ==
    \A i \in unwatch[u].begin : proc[i].kind = kind /\ Alive(i) => i = unwatch[u].pid

(* The one of this kind it began with has ended.                           *)
Gone(u, kind) ==
    \A i \in unwatch[u].begin : proc[i].kind = kind => ~Alive(i)

(* It began with the processes that it can find up to a pid, and has dealt *)
(* with them as far as it got.                                             *)
Begun(u) ==
    /\ unwatch[u].begin \subseteq DOMAIN proc
    /\ \A i \in unwatch[u].begin : proc[i].path \in Containing[unwatch[u].path]
    /\ \A i \in DOMAIN proc, j \in unwatch[u].begin :
          i <= j /\ Alive(i) /\ proc[i].path \in Containing[unwatch[u].path]
              => i \in unwatch[u].begin
    /\ OneEach(u) =>
          /\ unwatch[u].at = "kill child" => Chases(u, "child")
          /\ unwatch[u].at \in {"find wrapper", "kill wrapper", "erase"} => Gone(u, "child")
          /\ unwatch[u].at = "kill wrapper" => Chases(u, "wrapper")
          /\ unwatch[u].at = "erase" => Gone(u, "wrapper")

(* Every unwatch under way.                                                *)
UnwatchInv == \A u \in Unwatchers : unwatch[u].at # "off" => Begun(u)

(* The inductive invariant.                                                *)
IInv == TypeInv /\ UnwatchInv

-----------------------------------------------------------------------------
(* A non-empty set of numbers up to n has a least member.  It rests on the *)
(* order of the finite sets 0..k, and stands in for the induction theorems *)
(* of the library, which take an operator and cannot be cited here.        *)
LEMMA LeastMember ==
  ASSUME NEW n \in Nat, NEW B, B \subseteq 0..n, B # {}
  PROVE  \E k \in B : \A j \in B : k <= j
<1> DEFINE S == 0..n
           R == StrictSubsetOrdering(S)
           T == {0..k : k \in B}
<1>1. IsWellFoundedOn(R, FiniteSubsetsOf(S))
  BY FS_StrictSubsetOrderingWellFounded
<1>2. T \subseteq FiniteSubsetsOf(S) 
  <2> SUFFICES ASSUME NEW k \in B PROVE 0..k \in SUBSET S /\ IsFiniteSet(0..k)
    BY DEF FiniteSubsetsOf
  <2>1. k \in 0..n
    OBVIOUS
  <2> QED BY <2>1, FS_Interval
<1>3. T # {}
  OBVIOUS
<1> HIDE DEF R, T
<1>4. PICK x \in T : \A y \in T : ~(<<y, x>> \in R)
  BY <1>1, <1>2, <1>3, WFMin
<1>5. PICK k \in B : x = 0..k
  BY <1>4 DEF T
<1>6. ASSUME NEW j \in B, j < k PROVE FALSE
  <2> DEFINE p == <<0..j, 0..k>>
  <2>1. /\ 0..j \in T /\ 0..j \subseteq 0..k
        /\ k \notin 0..j /\ k \in 0..k
        /\ 0..j \in SUBSET S /\ 0..k \in SUBSET S
    BY <1>6 DEF T
  <2>2. 0..j # 0..k
    BY <2>1
  <2>3. p \in (SUBSET S) \X (SUBSET S) /\ p[1] \subseteq p[2] /\ p[1] # p[2]
    BY <2>1, <2>2
  <2> HIDE DEF p, S
  <2>4. p \in R
    BY <2>3 DEF R, StrictSubsetOrdering
  <2> QED BY <2>1, <2>4, <1>4, <1>5 DEF p
<1> QED BY <1>6

(* Min of a non-empty set of naturals is its least member.                 *)
LEMMA MinOfSet ==
  ASSUME NEW B, B \subseteq Nat, B # {}
  PROVE  Min(B) \in B /\ \A j \in B : Min(B) <= j
<1>1. PICK n \in B : TRUE
  OBVIOUS
<1>2. PICK k \in B \cap 0..n : \A j \in B \cap 0..n : k <= j
  <2>1. n \in Nat /\ n \in B \cap 0..n /\ B \cap 0..n \subseteq 0..n
    BY <1>1
  <2> QED BY <2>1, LeastMember
<1>3. \A j \in B : k <= j
  <2> SUFFICES ASSUME NEW j \in B, ~(k <= j) PROVE FALSE
    OBVIOUS
  <2>1. j \in 0..n
    OBVIOUS
  <2> QED BY <2>1, <1>2
<1> QED BY <1>2, <1>3 DEF Min

(* The constants.                                                          *)
LEMMA ConstantTypes ==
  /\ NoKey \in Paths /\ MaxPid \in Nat /\ MaxFaults \in Nat /\ Forces \subseteq BOOLEAN
  /\ \A p \in Paths : p \in Containing[p] /\ Containing[p] \subseteq Paths
BY BaitsAssumption DEF NoKey, BaitsAssumption

(* Pids are numbers from 1, of which those above are free.                 *)
LEMMA Pids ==
  ASSUME TypeInv
  PROVE  /\ DOMAIN proc = 1..Len(proc) /\ Len(proc) \in 0..MaxPid
         /\ DOMAIN proc \subseteq 1..MaxPid
         /\ \A i \in DOMAIN proc : proc[i] \in Process
BY ConstantTypes DEF TypeInv, ProcType

(* What a search finds, and the process that is chosen from it.            *)
LEMMA FoundFacts ==
  ASSUME TypeInv, NEW kind, NEW p \in Paths
  PROVE  /\ Found(kind, p) \subseteq DOMAIN proc
         /\ \A i \in Found(kind, p) :
               Alive(i) /\ proc[i].kind = kind /\ proc[i].path \in Containing[p]
         /\ Found(kind, p) # {} =>
               /\ FirstResult(Found(kind, p)) \in Found(kind, p)
               /\ \A i \in Found(kind, p) : FirstResult(Found(kind, p)) <= i
<1>1. Found(kind, p) \subseteq DOMAIN proc /\ DOMAIN proc \subseteq Nat
  BY Pids DEF Found
<1>2. Found(kind, p) # {} =>
               /\ FirstResult(Found(kind, p)) \in Found(kind, p)
               /\ \A i \in Found(kind, p) : FirstResult(Found(kind, p)) <= i
  BY <1>1, MinOfSet DEF FirstResult
<1> QED BY <1>1, <1>2 DEF Found

(* Processes that exit are processes still.                                *)
LEMMA ExitFacts ==
  ASSUME TypeInv, NEW pids, proc' = Exit(pids)
  PROVE  /\ ProcType' /\ DOMAIN proc' = DOMAIN proc
         /\ \A i \in DOMAIN proc : /\ proc'[i].kind = proc[i].kind
                                   /\ proc'[i].path = proc[i].path
                                   /\ Alive(i)' => Alive(i) /\ i \notin pids
<1>1. DOMAIN proc = 1..Len(proc) /\ Len(proc) \in Nat /\ Len(proc) <= MaxPid
      /\ \A i \in DOMAIN proc : proc[i] \in Process
  BY Pids DEF TypeInv, ProcType
<1> DEFINE e(i) == IF i \in pids THEN [proc[i] EXCEPT !.at = "exited"] ELSE proc[i]
<1>2. proc' = [i \in 1..Len(proc) |-> e(i)]
  BY <1>1 DEF Exit
<1>3. \A i \in 1..Len(proc) : e(i) \in Process /\ e(i).kind = proc[i].kind
         /\ e(i).path = proc[i].path /\ e(i).child = proc[i].child
         /\ (e(i).at = proc[i].at \/ e(i).at = "exited")
         /\ (e(i).at # "exited" => proc[i].at # "exited" /\ i \notin pids)
  BY <1>1 DEF Process
<1> HIDE DEF e
<1>4. proc' \in Seq(Process)
  <2>1. \A i \in 1..Len(proc) : e(i) \in Process
    BY <1>3
  <2> QED BY <1>1, <1>2, <2>1, IsASeq
<1>5. DOMAIN proc' = DOMAIN proc /\ \A i \in DOMAIN proc : proc'[i] = e(i)
  BY <1>1, <1>2
<1>6. Len(proc') = Len(proc)
  BY <1>1, <1>4, <1>5
<1>7. ProcType'
  BY <1>1, <1>3, <1>4, <1>5, <1>6 DEF TypeInv, ProcType
<1> QED BY <1>1, <1>3, <1>5, <1>7 DEF Alive

(* One that goes on to another of its steps is a process still.            *)
LEMMA GoOnFacts ==
  ASSUME TypeInv, NEW w \in DOMAIN proc, proc[w].at = "registering",
         proc' = [proc EXCEPT ![w].at = "reading"]
  PROVE  /\ ProcType' /\ DOMAIN proc' = DOMAIN proc
         /\ \A i \in DOMAIN proc : /\ proc'[i].kind = proc[i].kind
                                   /\ proc'[i].path = proc[i].path
                                   /\ Alive(i)' => Alive(i)
<1> DEFINE e == [proc[w] EXCEPT !.at = "reading"]
<1>1. DOMAIN proc = 1..Len(proc) /\ Len(proc) \in Nat /\ Len(proc) <= MaxPid
      /\ proc \in Seq(Process) /\ proc[w] \in Process
  BY Pids DEF TypeInv, ProcType
<1>2. e \in Process /\ e.kind = proc[w].kind /\ e.path = proc[w].path /\ e.child = proc[w].child
  BY <1>1 DEF Process
<1>3. proc' = [proc EXCEPT ![w] = e]
  OBVIOUS
<1> HIDE DEF e
<1>4. /\ proc' \in Seq(Process) /\ Len(proc') = Len(proc) /\ DOMAIN proc' = DOMAIN proc
      /\ \A i \in DOMAIN proc : proc'[i] = IF i = w THEN e ELSE proc[i]
  BY <1>1, <1>2, <1>3, ExceptSeq
<1>5. ProcType'
  <2>1. proc[w].kind # "child"
    BY <1>1 DEF TypeInv, ProcType
  <2> QED BY <2>1, <1>1, <1>2, <1>4 DEF TypeInv, ProcType
<1> QED BY <1>1, <1>2, <1>4, <1>5 DEF Alive

(* Two elements behind a sequence.                                         *)
LEMMA TwoMore ==
  ASSUME NEW S, NEW s \in Seq(S), NEW t \in Seq(S), Len(t) = 2
  PROVE  /\ s \o t \in Seq(S) /\ Len(s \o t) = Len(s) + 2
         /\ \A i \in 1..(Len(s) + 2) : (s \o t)[i] = IF i <= Len(s) THEN s[i] ELSE t[i - Len(s)]
<1>1. /\ s \o t \in Seq(S) /\ Len(s \o t) = Len(s) + Len(t)
      /\ \A i \in 1..(Len(s) + Len(t)) : (s \o t)[i] = IF i <= Len(s) THEN s[i] ELSE t[i - Len(s)]
  BY ConcatProperties
<1> QED BY <1>1

(* A watch adds a wrapper and a child behind the processes there are.      *)
LEMMA StartFacts ==
  ASSUME TypeInv, NEW p \in Paths, StartWatch(p)
  PROVE  /\ ProcType' /\ DOMAIN proc \subseteq DOMAIN proc'
         /\ \A i \in DOMAIN proc : proc'[i] = proc[i]
<1> DEFINE n == Len(proc)
           a == [kind |-> "wrapper", path |-> p, child |-> n + 2, at |-> "registering"]
           b == [kind |-> "child", path |-> p, child |-> NoPid, at |-> "running"]
           t == <<a, b>>
<1>1. /\ proc \in Seq(Process) /\ n \in Nat /\ DOMAIN proc = 1..n
      /\ \A i \in 1..n : /\ proc[i].kind = "wrapper" => proc[i].child \in 1..n
                         /\ proc[i].kind = "child" => proc[i].at \in {"running", "exited"}
  BY Pids DEF TypeInv, ProcType
<1>2. proc' = proc \o t /\ n + 2 <= MaxPid
  BY DEF StartWatch
<1>3. a \in Process /\ b \in Process /\ b.kind # "wrapper" /\ a.child = n + 2
      /\ a.kind # "child" /\ b.at = "running"
  BY <1>1 DEF Process, NoPid
<1>4. t \in Seq(Process) /\ Len(t) = 2 /\ t[1] = a /\ t[2] = b
  BY <1>3
<1> HIDE DEF n, a, b, t
<1>5. /\ proc' \in Seq(Process) /\ Len(proc') = n + 2
      /\ \A i \in 1..(n + 2) : proc'[i] = IF i <= n THEN proc[i] ELSE t[i - n]
  BY <1>1, <1>2, <1>4, TwoMore DEF n
<1>6. DOMAIN proc' = 1..(n + 2)
  BY <1>1, <1>5
<1>7. /\ \A i \in 1..n : proc'[i] = proc[i]
      /\ proc'[n + 1] = a /\ proc'[n + 2] = b
  BY <1>1, <1>4, <1>5
<1>8. ProcType'
  <2>1. ASSUME NEW i \in DOMAIN proc'
        PROVE  /\ proc'[i].kind = "wrapper" => proc'[i].child \in DOMAIN proc'
               /\ proc'[i].kind = "child" => proc'[i].at \in {"running", "exited"}
    <3>1. i \in 1..n \/ i = n + 1 \/ i = n + 2
      BY <1>1, <1>6
    <3> QED BY <3>1, <2>1, <1>1, <1>3, <1>6, <1>7
  <2> QED BY <2>1, <1>2, <1>5 DEF ProcType
<1> QED BY <1>1, <1>6, <1>7, <1>8

-----------------------------------------------------------------------------
(* What every step leaves of the processes: kinds and directories stay,    *)
(* new pids are higher, and what has exited stays so.                      *)
ProcessesAge ==
    /\ ProcType'
    /\ DOMAIN proc \subseteq DOMAIN proc'
    /\ \A i \in DOMAIN proc' : i \notin DOMAIN proc => \A j \in DOMAIN proc : j < i
    /\ \A i \in DOMAIN proc : /\ proc'[i].kind = proc[i].kind
                              /\ proc'[i].path = proc[i].path
                              /\ Alive(i)' => Alive(i)

(* The steps of the processes.                                             *)
LEMMA WatchAges ==
  ASSUME TypeInv, NEW i \in DOMAIN proc, WatchStep(i) \/ ChildDies(i)
  PROVE  ProcessesAge
<1>1. \/ proc' = Exit({i})
      \/ proc[i].at = "registering" /\ proc' = [proc EXCEPT ![i].at = "reading"]
  BY DEF WatchStep, Register, SendState, WrapperReturns, ChildDies
<1>2. CASE proc' = Exit({i})
  BY <1>2, ExitFacts DEF ProcessesAge
<1>3. CASE proc[i].at = "registering" /\ proc' = [proc EXCEPT ![i].at = "reading"]
  BY <1>3, GoOnFacts DEF ProcessesAge
<1> QED BY <1>1, <1>2, <1>3

(* Every step.                                                             *)
LEMMA StepAges ==
  ASSUME TypeInv, [Next]_vars
  PROVE  ProcessesAge
<1>1. CASE UNCHANGED proc
  <2>1. ProcType'
    BY <1>1 DEF TypeInv, ProcType
  <2> QED BY <1>1, <2>1, Pids DEF ProcessesAge, Alive
<1>2. ASSUME NEW p \in Paths, StartWatch(p) PROVE ProcessesAge
  <2>1. ProcType' /\ DOMAIN proc \subseteq DOMAIN proc' /\ \A i \in DOMAIN proc : proc'[i] = proc[i]
    BY <1>2, StartFacts
  <2>2. DOMAIN proc = 1..Len(proc) /\ DOMAIN proc' = 1..Len(proc') /\ Len(proc) \in Nat /\ Len(proc') \in Nat
    BY <2>1, Pids DEF ProcType
  <2> QED BY <2>1, <2>2 DEF ProcessesAge, Alive
<1>3. ASSUME NEW i \in DOMAIN proc, WatchStep(i) \/ ChildDies(i) PROVE ProcessesAge
  BY <1>3, WatchAges
<1>4. ASSUME NEW u \in Unwatchers, NEW at, NEW next, KillProcess(u, at, next) PROVE ProcessesAge
  <2>1. UNCHANGED proc \/ proc' = Exit({unwatch[u].pid})
    BY <1>4 DEF KillProcess
  <2>2. CASE proc' = Exit({unwatch[u].pid})
    BY <2>2, ExitFacts DEF ProcessesAge
  <2> QED BY <2>1, <2>2, <1>1
<1>5. ASSUME NEW u \in Unwatchers, UnwatchStep(u) PROVE ProcessesAge
  <2>1. KillChild(u) \/ KillWrapper(u) \/ UNCHANGED proc
    BY <1>5 DEF UnwatchStep, FindChild, FindWrapper, FindProcess, Erase
  <2> QED BY <2>1, <1>1, <1>4 DEF KillChild, KillWrapper
<1>6. ASSUME NEW p \in Paths, Install(p) \/ Uninstall(p) \/ \E u \in Unwatchers : StartUnwatch(u, p)
      PROVE  UNCHANGED proc
  BY <1>6 DEF Install, Uninstall, StartUnwatch
<1>7. ASSUME NEW m \in Monitors, StartMonitor(m) \/ ParentExits(m) \/ MonitorStep(m)
      PROVE  UNCHANGED proc
  BY <1>7 DEF StartMonitor, ParentExits, MonitorStep, RunProcessWatching, List, DetectStatus, SendStatus
<1>8. CASE AgentStopsOrStarts \/ UNCHANGED vars
  BY <1>8, <1>1 DEF AgentStopsOrStarts, vars
<1> QED BY <1>1, <1>2, <1>3, <1>5, <1>6, <1>7, <1>8 DEF Next

-----------------------------------------------------------------------------
(* The types of the runs and of the registrations.                         *)
LEMMA InitInv ==
  ASSUME Init
  PROVE  IInv
<1>1. ProcType
  <2>1. <<>> \in Seq(Process) /\ Len(<<>>) = 0 /\ DOMAIN <<>> = {}
    OBVIOUS
  <2> QED BY <2>1, ConstantTypes DEF Init, ProcType
<1>2. StartupType
  BY DEF Init, StartupType, Range
<1>3. AgentType
  BY DEF Init, AgentType
<1>4. RunType
  <2>1. NoUnwatch \in Unwatch
    BY ConstantTypes DEF NoUnwatch, Unwatch, NoPid
  <2>2. [at |-> "off", parent |-> FALSE, todo |-> {}, key |-> NoKey, status |-> 0] \in Monitor
    BY ConstantTypes DEF Monitor
  <2> QED BY <2>1, <2>2 DEF Init, RunType
<1>5. RestType
  BY ConstantTypes DEF Init, RestType
<1>6. UnwatchInv
  BY DEF Init, UnwatchInv, NoUnwatch
<1> QED BY <1>1, <1>2, <1>3, <1>4, <1>5, <1>6 DEF IInv, TypeInv

(* The registrations: a wrapper registers the pid of its child.            *)
LEMMA StartupTyped ==
  ASSUME TypeInv, [Next]_vars
  PROVE  StartupType'
<1>1. ASSUME UNCHANGED startup PROVE StartupType'
  BY <1>1 DEF TypeInv, StartupType, Range
<1>2. ASSUME NEW w \in DOMAIN proc, Register(w) PROVE StartupType'
  <2>1. CASE agent
    <3>1. startup' = [q \in DOMAIN startup \cup {proc[w].path} |->
                        IF q = proc[w].path THEN proc[w].child ELSE startup[q]]
          /\ DOMAIN proc' = DOMAIN proc
      BY <1>2, <2>1 DEF Register
    <3>2. proc[w].path \in Paths
      BY Pids DEF Process
    <3>3. proc[w].child \in 1..MaxPid
      <4>1. proc[w].kind = "wrapper"
        BY <1>2, Pids DEF Register, TypeInv, ProcType, Process
      <4> QED BY <4>1, Pids DEF TypeInv, ProcType
    <3> QED BY <3>1, <3>2, <3>3 DEF TypeInv, StartupType, Range
  <2>2. CASE ~agent
    BY <1>1, <1>2, <2>2 DEF Register
  <2> QED BY <2>1, <2>2
<1>3. ASSUME NEW u \in Unwatchers, Erase(u) PROVE StartupType'
  <2>1. UNCHANGED startup \/ startup' = Restrict(startup, DOMAIN startup \ {unwatch[u].path})
    BY <1>3 DEF Erase
  <2>2. CASE startup' = Restrict(startup, DOMAIN startup \ {unwatch[u].path})
    BY <2>2 DEF TypeInv, StartupType, Restrict, Range
  <2> QED BY <2>1, <2>2, <1>1
<1>4. ASSUME NEW i \in DOMAIN proc, WatchStep(i) \/ ChildDies(i) PROVE StartupType'
  BY <1>4, <1>1, <1>2 DEF WatchStep, SendState, WrapperReturns, ChildDies
<1>5. ASSUME NEW u \in Unwatchers, UnwatchStep(u) PROVE StartupType'
  BY <1>5, <1>1, <1>3 DEF UnwatchStep, FindChild, FindWrapper, FindProcess, KillChild, KillWrapper, KillProcess
<1>6. ASSUME NEW p \in Paths,
             Install(p) \/ Uninstall(p) \/ StartWatch(p) \/ \E u \in Unwatchers : StartUnwatch(u, p)
      PROVE  UNCHANGED startup
  BY <1>6 DEF Install, Uninstall, StartWatch, StartUnwatch
<1>7. ASSUME NEW m \in Monitors, StartMonitor(m) \/ ParentExits(m) \/ MonitorStep(m)
      PROVE  UNCHANGED startup
  BY <1>7 DEF StartMonitor, ParentExits, MonitorStep, RunProcessWatching, List, DetectStatus, SendStatus
<1>8. CASE AgentStopsOrStarts \/ UNCHANGED vars
  BY <1>8, <1>1 DEF AgentStopsOrStarts, vars
<1> QED BY <1>1, <1>4, <1>5, <1>6, <1>7, <1>8 DEF Next

(* A pid that was found is one that can be kept.                           *)
LEMMA InRange ==
  ASSUME NEW n \in Nat, NEW B, B \subseteq 1..n, NEW f, f \in B
  PROVE  f \in 0..n
OBVIOUS

(* The fields of an unwatch and of a monitor.                              *)
LEMMA RunFacts ==
  ASSUME TypeInv
  PROVE  /\ \A u \in Unwatchers : unwatch[u] \in Unwatch
         /\ \A m \in Monitors : monitor[m] \in Monitor
         /\ NoUnwatch \in Unwatch
<1>1. NoUnwatch \in Unwatch
  BY ConstantTypes DEF NoUnwatch, Unwatch, NoPid
<1> QED BY <1>1 DEF TypeInv, RunType

(* An unwatch moves from record to record.                                 *)
LEMMA UnwatchTyped ==
  ASSUME TypeInv, [Next]_vars
  PROVE  unwatch' \in [Unwatchers -> Unwatch]
<1> DEFINE Goal == unwatch' \in [Unwatchers -> Unwatch]
<1>0. unwatch \in [Unwatchers -> Unwatch]
  BY DEF TypeInv, RunType
<1>1. ASSUME NEW u \in Unwatchers, NEW e \in Unwatch, unwatch' = [unwatch EXCEPT ![u] = e]
      PROVE  Goal
  BY <1>0, <1>1
<1>2. ASSUME UNCHANGED unwatch PROVE Goal
  BY <1>0, <1>2
<1>3. ASSUME NEW p \in Paths, NEW u \in Unwatchers, StartUnwatch(u, p) PROVE Goal
  <2>1. PICK force \in Forces : unwatch' = [unwatch EXCEPT ![u] =
              [at |-> "find child", path |-> p, force |-> force, pid |-> NoPid,
               begin |-> RunProcessDetect(p) \cup RunSubProcessDetect(p)]]
    BY <1>3 DEF StartUnwatch
  <2>2. RunProcessDetect(p) \cup RunSubProcessDetect(p) \subseteq 1..MaxPid
    BY FoundFacts, Pids DEF RunProcessDetect, RunSubProcessDetect
  <2>3. force \in BOOLEAN /\ NoPid \in 0..MaxPid
    BY ConstantTypes DEF NoPid
  <2>4. [at |-> "find child", path |-> p, force |-> force, pid |-> NoPid,
         begin |-> RunProcessDetect(p) \cup RunSubProcessDetect(p)] \in Unwatch
    BY <2>2, <2>3 DEF Unwatch
  <2> QED BY <2>1, <2>4, <1>1
<1>4. ASSUME NEW u \in Unwatchers, NEW at, NEW next \in {"kill child", "kill wrapper"},
             NEW kind, FindProcess(u, at, next, Found(kind, unwatch[u].path))
      PROVE  Goal
  <2> DEFINE found == Found(kind, unwatch[u].path)
             e == IF found = {} THEN NoUnwatch
                  ELSE [unwatch[u] EXCEPT !.at = next, !.pid = FirstResult(found)]
  <2>1. unwatch[u] \in Unwatch /\ unwatch[u].path \in Paths
    BY RunFacts DEF Unwatch
  <2>2. found # {} => FirstResult(found) \in 0..MaxPid
    <3>1. found # {} => FirstResult(found) \in found
      BY <2>1, FoundFacts
    <3>2. found \subseteq 1..MaxPid /\ MaxPid \in Nat
      BY <2>1, FoundFacts, Pids, ConstantTypes
    <3> HIDE DEF found
    <3> QED BY <3>1, <3>2, InRange
  <2>3. unwatch' = [unwatch EXCEPT ![u] = e]
    BY <1>4, <1>0 DEF FindProcess
  <2> HIDE DEF found
  <2>4. e \in Unwatch
    BY <2>1, <2>2, RunFacts DEF Unwatch
  <2> HIDE DEF e
  <2> QED BY <2>3, <2>4, <1>1
<1>5. ASSUME NEW u \in Unwatchers, KillChild(u) \/ KillWrapper(u) \/ Erase(u) PROVE Goal
  <2>1. unwatch[u] \in Unwatch
    BY RunFacts
  <2>2. PICK e : /\ \/ e = NoUnwatch
                    \/ e = [unwatch[u] EXCEPT !.at = "find wrapper"]
                    \/ e = [unwatch[u] EXCEPT !.at = "erase"]
                 /\ unwatch' = [unwatch EXCEPT ![u] = e]
    <3>1. CASE unwatch' = [unwatch EXCEPT ![u].at = "find wrapper"]
      BY <3>1
    <3>2. CASE unwatch' = [unwatch EXCEPT ![u].at = "erase"]
      BY <3>2
    <3>3. CASE unwatch' = [unwatch EXCEPT ![u] = NoUnwatch]
      BY <3>3
    <3> QED BY <1>5, <3>1, <3>2, <3>3 DEF KillChild, KillWrapper, KillProcess, Erase
  <2>3. e \in Unwatch
    BY <2>1, <2>2, RunFacts DEF Unwatch
  <2> QED BY <2>2, <2>3, <1>1
<1>6. ASSUME NEW i \in DOMAIN proc, WatchStep(i) \/ ChildDies(i) PROVE UNCHANGED unwatch
  BY <1>6 DEF WatchStep, Register, SendState, WrapperReturns, ChildDies
<1>7. ASSUME NEW p \in Paths, Install(p) \/ Uninstall(p) \/ StartWatch(p) PROVE UNCHANGED unwatch
  BY <1>7 DEF Install, Uninstall, StartWatch
<1>8. ASSUME NEW m \in Monitors, StartMonitor(m) \/ ParentExits(m) \/ MonitorStep(m)
      PROVE  UNCHANGED unwatch
  BY <1>8 DEF StartMonitor, ParentExits, MonitorStep, RunProcessWatching, List, DetectStatus, SendStatus
<1>9. CASE AgentStopsOrStarts \/ UNCHANGED vars
  BY <1>9, <1>2 DEF AgentStopsOrStarts, vars
<1>10. ASSUME NEW u \in Unwatchers, UnwatchStep(u) PROVE Goal
  <2>1. CASE FindChild(u) \/ FindWrapper(u)
    BY <2>1, <1>4 DEF FindChild, FindWrapper, RunSubProcessDetect, RunProcessDetect
  <2> QED BY <1>5, <1>10, <2>1 DEF UnwatchStep
<1> QED BY <1>2, <1>3, <1>6, <1>7, <1>8, <1>9, <1>10 DEF Next

(* So does a monitor.                                                      *)
LEMMA MonitorTyped ==
  ASSUME TypeInv, [Next]_vars
  PROVE  monitor' \in [Monitors -> Monitor] /\ liveStatus' \in [Paths -> {-1, 0, 1}]
<1> DEFINE Goal == monitor' \in [Monitors -> Monitor] /\ liveStatus' \in [Paths -> {-1, 0, 1}]
<1>0. /\ monitor \in [Monitors -> Monitor] /\ liveStatus \in [Paths -> {-1, 0, 1}]
      /\ agent \in BOOLEAN /\ DOMAIN startup \subseteq Paths
  BY DEF TypeInv, RunType, AgentType, StartupType
<1>1. ASSUME UNCHANGED <<monitor, liveStatus>> PROVE Goal
  BY <1>0, <1>1
<1>2. ASSUME NEW m \in Monitors, StartMonitor(m) PROVE Goal
  <2>1. PICK daemon \in BOOLEAN : 
          monitor' = [monitor EXCEPT ![m].at = "starting", ![m].parent = daemon]
    BY <1>2 DEF StartMonitor
  <2>2. monitor[m] \in Monitor /\ UNCHANGED liveStatus
    BY <1>0, <1>2 DEF StartMonitor
  <2> QED BY <2>1, <2>2, <1>0 DEF Monitor
<1>3. ASSUME NEW m \in Monitors, ParentExits(m) PROVE Goal
  BY <1>0, <1>3 DEF ParentExits, Monitor
<1>4. ASSUME NEW m \in Monitors, RunProcessWatching(m) PROVE Goal
  <2>1. monitor' = [monitor EXCEPT ![m].at = "off"] \/ monitor' = [monitor EXCEPT ![m].at = "list"]
    BY <1>4 DEF RunProcessWatching
  <2> QED BY <1>0, <1>4, <2>1 DEF RunProcessWatching, Monitor
<1>5. ASSUME NEW m \in Monitors, List(m) PROVE Goal
  <2>1. PICK at \in {"off", "stuck", "detect"}, todo \in SUBSET Paths :
          monitor' = [monitor EXCEPT ![m].at = at, ![m].todo = todo]
    <3> DEFINE at == IF ~agent THEN "off" ELSE IF DOMAIN startup = {} THEN "stuck" ELSE "detect"
               todo == IF agent THEN DOMAIN startup ELSE {}
    <3>1. at \in {"off", "stuck", "detect"} /\ todo \in SUBSET Paths
      BY <1>0
    <3> QED BY <1>5, <3>1 DEF List
  <2>2. monitor[m] \in Monitor /\ UNCHANGED liveStatus
    BY <1>0, <1>5 DEF List
  <2>3. [monitor[m] EXCEPT !.at = at, !.todo = todo] \in Monitor
    BY <2>2 DEF Monitor
  <2> QED BY <1>0, <2>1, <2>2, <2>3
<1>6. ASSUME NEW m \in Monitors, DetectStatus(m) PROVE Goal
  <2>1. PICK key \in monitor[m].todo, status \in {0, 1} :
          monitor' = [monitor EXCEPT ![m].at = "send", ![m].key = key, ![m].todo = @ \ {key},
                                     ![m].status = status]
    BY <1>6 DEF DetectStatus
  <2>2. monitor[m] \in Monitor /\ key \in Paths
    BY <1>0, <2>1 DEF Monitor
  <2> QED BY <1>0, <1>6, <2>1, <2>2 DEF DetectStatus, Monitor
<1>7. ASSUME NEW m \in Monitors, SendStatus(m) PROVE Goal
  <2>1. monitor[m] \in Monitor
    BY <1>0
  <2>2. PICK at \in {"off", "list", "detect"}, todo \in SUBSET Paths :
          monitor' = [monitor EXCEPT ![m].at = at, ![m].todo = todo, ![m].key = NoKey, ![m].status = 0]
    <3> DEFINE at == IF ~agent THEN "off" ELSE IF monitor[m].todo = {} THEN "list" ELSE "detect"
               todo == IF agent THEN monitor[m].todo ELSE {}
    <3>1. at \in {"off", "list", "detect"} /\ todo \in SUBSET Paths
      BY <2>1 DEF Monitor
    <3> QED BY <1>7, <3>1 DEF SendStatus
  <2>3. liveStatus' \in [Paths -> {-1, 0, 1}]
    <3>1. monitor[m].status \in {-1, 0, 1}
      BY <2>1 DEF Monitor
    <3>2. liveStatus' = [liveStatus EXCEPT ![monitor[m].key] = monitor[m].status]
          \/ liveStatus' = liveStatus
      BY <1>7 DEF SendStatus
    <3> QED BY <1>0, <3>1, <3>2
  <2> QED BY <1>0, <2>1, <2>2, <2>3, ConstantTypes DEF Monitor
<1>8. ASSUME NEW i \in DOMAIN proc, WatchStep(i) \/ ChildDies(i) PROVE UNCHANGED <<monitor, liveStatus>>
  BY <1>8 DEF WatchStep, Register, SendState, WrapperReturns, ChildDies
<1>9. ASSUME NEW p \in Paths, 
             Install(p) \/ Uninstall(p) \/ StartWatch(p) \/ \E u \in Unwatchers : StartUnwatch(u, p)
      PROVE UNCHANGED <<monitor, liveStatus>>
  BY <1>9 DEF Install, Uninstall, StartWatch, StartUnwatch
<1>10. ASSUME NEW u \in Unwatchers, UnwatchStep(u) PROVE UNCHANGED <<monitor, liveStatus>>
  BY <1>10 DEF UnwatchStep, FindChild, FindWrapper, FindProcess, KillChild, KillWrapper, KillProcess, Erase
<1>11. CASE AgentStopsOrStarts \/ UNCHANGED vars
  BY <1>11, <1>1 DEF AgentStopsOrStarts, vars
<1>12. ASSUME NEW m \in Monitors, StartMonitor(m) \/ ParentExits(m) \/ MonitorStep(m) PROVE Goal
  BY <1>12, <1>2, <1>3, <1>4, <1>5, <1>6, <1>7 DEF MonitorStep
<1>13. CASE Next
  <2>1. ASSUME NEW p \in Paths,
               \/ Install(p) \/ Uninstall(p) \/ StartWatch(p)
               \/ \E u \in Unwatchers : StartUnwatch(u, p)
        PROVE  Goal
    BY <2>1, <1>1, <1>9
  <2>2. ASSUME NEW i \in DOMAIN proc, WatchStep(i) \/ ChildDies(i) PROVE Goal
    BY <2>2, <1>1, <1>8
  <2>3. ASSUME NEW u \in Unwatchers, UnwatchStep(u) PROVE Goal
    BY <2>3, <1>1, <1>10
  <2> QED BY <1>13, <1>11, <1>12, <2>1, <2>2, <2>3 DEF Next
<1> QED BY <1>11, <1>13

(* The agent, the bait files and the bound.                                *)
LEMMA RestTyped ==
  ASSUME TypeInv, [Next]_vars
  PROVE  agent' \in BOOLEAN /\ RestType'
<1>0. /\ agent \in BOOLEAN /\ baits \in [Paths -> SUBSET FILES] /\ faults \in 0..MaxFaults
  BY DEF TypeInv, AgentType, RestType
<1>1. ASSUME UNCHANGED <<agent, baits, faults>> PROVE agent' \in BOOLEAN /\ RestType'
  BY <1>0, <1>1 DEF RestType
<1>2. Fault => faults' \in 0..MaxFaults
  BY <1>0, ConstantTypes DEF Fault
<1>3. ASSUME NEW p \in Paths, Install(p) PROVE agent' \in BOOLEAN /\ RestType'
  <2>1. PICK s \in SUBSET FILES : baits' = [baits EXCEPT ![p] = s]
    <3>1. CASE baits' = [baits EXCEPT ![p] = FILES]
      BY <3>1
    <3>2. CASE \E f \in FILES : baits' = [baits EXCEPT ![p] = @ \cup (FILES \ {f})]
      BY <3>2, <1>0
    <3> QED BY <1>3, <3>1, <3>2 DEF Install
  <2>2. UNCHANGED agent /\ faults' \in 0..MaxFaults
    BY <1>0, <1>2, <1>3 DEF Install
  <2> QED BY <1>0, <2>1, <2>2 DEF RestType
<1>4. ASSUME NEW p \in Paths, Uninstall(p) PROVE agent' \in BOOLEAN /\ RestType'
  BY <1>0, <1>4 DEF Uninstall, RestType
<1>5. ASSUME NEW i \in DOMAIN proc, ChildDies(i) PROVE agent' \in BOOLEAN /\ RestType'
  BY <1>0, <1>2, <1>5 DEF ChildDies, RestType
<1>6. ASSUME AgentStopsOrStarts PROVE agent' \in BOOLEAN /\ RestType'
  <2>1. agent' = ~agent /\ UNCHANGED baits
    BY <1>6 DEF AgentStopsOrStarts
  <2>2. faults' \in 0..MaxFaults
    BY <1>0, <1>2, <1>6 DEF AgentStopsOrStarts
  <2> QED BY <1>0, <2>1, <2>2 DEF RestType
<1>7. ASSUME NEW i \in DOMAIN proc, WatchStep(i) PROVE UNCHANGED <<agent, baits, faults>>
  BY <1>7 DEF WatchStep, Register, SendState, WrapperReturns
<1>8. ASSUME NEW p \in Paths, StartWatch(p) \/ \E u \in Unwatchers : StartUnwatch(u, p)
      PROVE UNCHANGED <<agent, baits, faults>>
  BY <1>8 DEF StartWatch, StartUnwatch
<1>9. ASSUME NEW u \in Unwatchers, UnwatchStep(u) PROVE UNCHANGED <<agent, baits, faults>>
  BY <1>9 DEF UnwatchStep, FindChild, FindWrapper, FindProcess, KillChild, KillWrapper, KillProcess, Erase
<1>10. ASSUME NEW m \in Monitors, StartMonitor(m) \/ ParentExits(m) \/ MonitorStep(m)
       PROVE  UNCHANGED <<agent, baits, faults>>
  BY <1>10 DEF StartMonitor, ParentExits, MonitorStep, RunProcessWatching, List, DetectStatus, SendStatus
<1>11. CASE UNCHANGED vars
  BY <1>11, <1>1 DEF vars
<1> QED BY <1>1, <1>3, <1>4, <1>5, <1>6, <1>7, <1>8, <1>9, <1>10, <1>11 DEF Next

(* Every step keeps the types.                                             *)
LEMMA StepTyped ==
  ASSUME TypeInv, [Next]_vars
  PROVE  TypeInv'
BY StepAges, StartupTyped, UnwatchTyped, MonitorTyped, RestTyped
   DEF ProcessesAge, TypeInv, AgentType, RunType

-----------------------------------------------------------------------------
(* An unwatch that does not move keeps what it has: the processes it began *)
(* with age, and no new one is below them.                                 *)
LEMMA BegunAges ==
  ASSUME TypeInv, ProcessesAge, NEW u \in Unwatchers, Begun(u), unwatch'[u] = unwatch[u]
  PROVE  Begun(u)'
<1> DEFINE b == unwatch[u].begin
           p == unwatch[u].path
<1>1. /\ b \subseteq DOMAIN proc /\ DOMAIN proc \subseteq Nat /\ DOMAIN proc \subseteq DOMAIN proc'
      /\ \A i \in DOMAIN proc' : i \notin DOMAIN proc => \A j \in DOMAIN proc : j < i
      /\ \A i \in DOMAIN proc : /\ proc'[i].kind = proc[i].kind
                                /\ proc'[i].path = proc[i].path
                                /\ Alive(i)' => Alive(i)
  <2>1. DOMAIN proc \subseteq Nat
    BY Pids
  <2>2. b \subseteq DOMAIN proc
    BY DEF Begun
  <2> QED BY <2>1, <2>2 DEF ProcessesAge
<1>2. DOMAIN proc' \subseteq Nat
  <2>1. proc' \in Seq(Process)
    BY DEF ProcessesAge, ProcType
  <2> QED BY <2>1
<1>3. \A i \in b : proc'[i].path \in Containing[p]
  BY <1>1 DEF Begun
<1>4. \A i \in DOMAIN proc', j \in b :
          i <= j /\ Alive(i)' /\ proc'[i].path \in Containing[p] => i \in b
  <2> SUFFICES ASSUME NEW i \in DOMAIN proc', NEW j \in b,
                      i <= j, Alive(i)', proc'[i].path \in Containing[p]
               PROVE  i \in b
    OBVIOUS
  <2>1. i \in DOMAIN proc
    BY <1>1, <1>2
  <2> QED BY <2>1, <1>1 DEF Begun
<1>5. OneEach(u)' => OneEach(u)
  BY <1>1 DEF OneEach
<1>6. ASSUME NEW kind, Gone(u, kind) PROVE Gone(u, kind)'
  BY <1>1, <1>6 DEF Gone
<1>7. ASSUME NEW kind, Chases(u, kind) PROVE Chases(u, kind)'
  BY <1>1, <1>7 DEF Chases
<1> QED BY <1>1, <1>3, <1>4, <1>5, <1>6, <1>7 DEF Begun

(* When it starts it has found all there is.                               *)
LEMMA StartBegins ==
  ASSUME TypeInv, NEW p \in Paths, NEW u \in Unwatchers, StartUnwatch(u, p)
  PROVE  Begun(u)'
<1> DEFINE b == RunProcessDetect(p) \cup RunSubProcessDetect(p)
<1>1. unwatch'[u].at = "find child" /\ unwatch'[u].path = p /\ unwatch'[u].begin = b
  <2>1. PICK force \in Forces : unwatch' = [unwatch EXCEPT ![u] =
              [at |-> "find child", path |-> p, force |-> force, pid |-> NoPid, begin |-> b]]
    BY DEF StartUnwatch
  <2> HIDE DEF b
  <2> QED BY <2>1 DEF TypeInv, RunType
<1>2. UNCHANGED proc
  BY DEF StartUnwatch
<1>3. /\ b \subseteq DOMAIN proc
      /\ \A i \in b : proc[i].path \in Containing[p]
      /\ \A i \in DOMAIN proc : Alive(i) /\ proc[i].path \in Containing[p] => i \in b
  <2>1. \A i \in DOMAIN proc : proc[i].kind \in {"wrapper", "child"}
    BY Pids DEF Process
  <2> QED BY <2>1 DEF RunProcessDetect, RunSubProcessDetect, Found
<1> HIDE DEF b
<1> QED BY <1>1, <1>2, <1>3 DEF Begun, Alive

(* It chooses the first process of a kind: of those it began with, the one *)
(* that is alive.                                                          *)
LEMMA FindChases ==
  ASSUME TypeInv, NEW u \in Unwatchers, Begun(u), OneEach(u), NEW kind,
         Found(kind, unwatch[u].path) # {},
         NEW i \in unwatch[u].begin, proc[i].kind = kind, Alive(i)
  PROVE  i = FirstResult(Found(kind, unwatch[u].path))
<1> DEFINE p == unwatch[u].path
           f == FirstResult(Found(kind, p))
<1>1. p \in Paths
  BY RunFacts DEF Unwatch
<1>2. /\ f \in DOMAIN proc /\ Alive(f) /\ proc[f].kind = kind /\ proc[f].path \in Containing[p]
      /\ \A j \in Found(kind, p) : f <= j
  BY <1>1, FoundFacts
<1>3. i \in Found(kind, p)
  BY DEF Begun, Found
<1> HIDE DEF f, p
<1>4. f \in unwatch[u].begin
  BY <1>2, <1>3 DEF Begun, p
<1>5. f = i
  BY <1>2, <1>4 DEF OneEach
<1> QED BY <1>5 DEF f, p

(* The search leaves the processes alone.                                  *)
LEMMA FindBegun ==
  ASSUME TypeInv, NEW u \in Unwatchers, Begun(u), unwatch[u].at # "off",
         FindChild(u) \/ FindWrapper(u)
  PROVE  unwatch'[u].at # "off" => Begun(u)'
<1> SUFFICES ASSUME unwatch'[u].at # "off" PROVE Begun(u)'
  OBVIOUS
<1>1. PICK kind, next :
         /\ \/ kind = "child" /\ next = "kill child" /\ unwatch[u].at = "find child"
            \/ kind = "wrapper" /\ next = "kill wrapper" /\ unwatch[u].at = "find wrapper"
         /\ FindProcess(u, unwatch[u].at, next, Found(kind, unwatch[u].path))
  <2>1. CASE FindChild(u)
    BY <2>1 DEF FindChild, FindProcess, RunSubProcessDetect
  <2>2. CASE FindWrapper(u)
    BY <2>2 DEF FindWrapper, FindProcess, RunProcessDetect
  <2> QED BY <2>1, <2>2
<1> DEFINE found == Found(kind, unwatch[u].path)
<1>2. unwatch[u] \in Unwatch /\ unwatch \in [Unwatchers -> Unwatch] /\ UNCHANGED proc
  BY <1>1, RunFacts DEF TypeInv, RunType, FindProcess
<1>3. unwatch' = [unwatch EXCEPT ![u] = IF found = {} THEN NoUnwatch
                  ELSE [@ EXCEPT !.at = next, !.pid = FirstResult(found)]]
  BY <1>1 DEF FindProcess
<1>4. found # {}
  <2> SUFFICES ASSUME found = {} PROVE FALSE
    OBVIOUS
  <2>1. unwatch'[u] = NoUnwatch
    BY <1>2, <1>3
  <2> QED BY <2>1 DEF NoUnwatch
<1>5. unwatch'[u] = [unwatch[u] EXCEPT !.at = next, !.pid = FirstResult(found)]
  BY <1>2, <1>3, <1>4
<1>6. /\ unwatch'[u].at = next /\ unwatch'[u].pid = FirstResult(found)
      /\ unwatch'[u].begin = unwatch[u].begin /\ unwatch'[u].path = unwatch[u].path
  BY <1>2, <1>5 DEF Unwatch
<1>7. \A i \in unwatch[u].begin :
         OneEach(u) /\ proc[i].kind = kind /\ Alive(i) => i = FirstResult(found)
  BY <1>4, FindChases
<1>8. (OneEach(u)' <=> OneEach(u)) /\ \A i : Alive(i)' <=> Alive(i)
  BY <1>2, <1>6 DEF OneEach, Alive
<1> HIDE DEF found
<1>9. OneEach(u)' => Chases(u, kind)'
  BY <1>2, <1>6, <1>7, <1>8 DEF Chases
<1>10. OneEach(u)' /\ kind = "wrapper" => Gone(u, "child")'
  BY <1>1, <1>2, <1>6, <1>8 DEF Gone, Begun
<1>11. /\ unwatch[u].begin \subseteq DOMAIN proc
       /\ \A i \in unwatch[u].begin : proc[i].path \in Containing[unwatch[u].path]
       /\ \A i \in DOMAIN proc, j \in unwatch[u].begin :
             i <= j /\ Alive(i) /\ proc[i].path \in Containing[unwatch[u].path]
                 => i \in unwatch[u].begin
  BY DEF Begun
<1>12. CASE kind = "child" /\ next = "kill child"
  BY <1>12, <1>2, <1>6, <1>8, <1>9, <1>11 DEF Begun
<1>13. CASE kind = "wrapper" /\ next = "kill wrapper"
  BY <1>13, <1>2, <1>6, <1>8, <1>9, <1>10, <1>11 DEF Begun
<1> QED BY <1>1, <1>12, <1>13

(* What is killed is gone, or was already.                                 *)
LEMMA KillBegun ==
  ASSUME TypeInv, ProcessesAge, NEW u \in Unwatchers, Begun(u), KillChild(u) \/ KillWrapper(u)
  PROVE  unwatch'[u].at # "off" => Begun(u)'
<1> SUFFICES ASSUME unwatch'[u].at # "off" PROVE Begun(u)'
  OBVIOUS
<1>1. PICK kind, next :
         /\ \/ kind = "child" /\ next = "find wrapper" /\ unwatch[u].at = "kill child"
            \/ kind = "wrapper" /\ next = "erase" /\ unwatch[u].at = "kill wrapper"
         /\ KillProcess(u, unwatch[u].at, next)
  <2>1. CASE KillChild(u)
    BY <2>1 DEF KillChild, KillProcess
  <2>2. CASE KillWrapper(u)
    BY <2>2 DEF KillWrapper, KillProcess
  <2> QED BY <2>1, <2>2
<1>2. unwatch[u] \in Unwatch /\ unwatch \in [Unwatchers -> Unwatch]
  BY RunFacts DEF TypeInv, RunType
<1>3. unwatch' # [unwatch EXCEPT ![u] = NoUnwatch]
  BY <1>2 DEF NoUnwatch
<1>4. unwatch' = [unwatch EXCEPT ![u].at = next] /\ proc' = Exit({unwatch[u].pid})
  BY <1>1, <1>3 DEF KillProcess
<1>5. /\ unwatch'[u].at = next
      /\ unwatch'[u].begin = unwatch[u].begin /\ unwatch'[u].path = unwatch[u].path
  BY <1>2, <1>4 DEF Unwatch
<1>6. /\ DOMAIN proc' = DOMAIN proc
      /\ \A i \in DOMAIN proc : /\ proc'[i].kind = proc[i].kind
                                /\ proc'[i].path = proc[i].path
                                /\ Alive(i)' => Alive(i) /\ i \notin {unwatch[u].pid}
  BY <1>4, ExitFacts
<1>7. /\ unwatch[u].begin \subseteq DOMAIN proc
      /\ \A i \in unwatch[u].begin : proc[i].path \in Containing[unwatch[u].path]
      /\ \A i \in DOMAIN proc, j \in unwatch[u].begin :
             i <= j /\ Alive(i) /\ proc[i].path \in Containing[unwatch[u].path]
                 => i \in unwatch[u].begin
  BY DEF Begun
<1>8. OneEach(u)' => OneEach(u)
  BY <1>5, <1>6, <1>7 DEF OneEach
<1>9. OneEach(u) => Chases(u, kind) /\ (kind = "wrapper" => Gone(u, "child"))
  BY <1>1 DEF Begun
<1>10. OneEach(u)' => Gone(u, kind)'
  BY <1>5, <1>6, <1>7, <1>8, <1>9 DEF Gone, Chases
<1>11. OneEach(u)' /\ kind = "wrapper" => Gone(u, "child")'
  BY <1>5, <1>6, <1>7, <1>8, <1>9 DEF Gone
<1>12. /\ unwatch'[u].begin \subseteq DOMAIN proc'
       /\ \A i \in unwatch'[u].begin : proc'[i].path \in Containing[unwatch'[u].path]
       /\ \A i \in DOMAIN proc', j \in unwatch'[u].begin :
             i <= j /\ Alive(i)' /\ proc'[i].path \in Containing[unwatch'[u].path]
                 => i \in unwatch'[u].begin
  BY <1>5, <1>6, <1>7
<1>13. CASE kind = "child" /\ next = "find wrapper"
  BY <1>13, <1>5, <1>10, <1>12 DEF Begun
<1>14. CASE kind = "wrapper" /\ next = "erase"
  BY <1>14, <1>5, <1>10, <1>11, <1>12 DEF Begun
<1> QED BY <1>1, <1>13, <1>14

(* A step of one unwatch is none of another's.                             *)
LEMMA OthersBegun ==
  ASSUME TypeInv, ProcessesAge, NEW u \in Unwatchers, NEW v \in Unwatchers, u # v, NEW e,
         unwatch' = [unwatch EXCEPT ![v] = e], Begun(u)
  PROVE  Begun(u)'
<1>1. unwatch'[u] = unwatch[u]
  BY DEF TypeInv, RunType
<1> QED BY <1>1, BegunAges

(* Every unwatch is as it should be after every step.                      *)
LEMMA StepBegun ==
  ASSUME TypeInv, UnwatchInv, [Next]_vars
  PROVE  UnwatchInv'
<1> SUFFICES ASSUME NEW u \in Unwatchers, unwatch'[u].at # "off" PROVE Begun(u)'
  BY DEF UnwatchInv
<1>1. ProcessesAge /\ (unwatch[u].at # "off" => Begun(u))
  BY StepAges DEF UnwatchInv
<1>2. ASSUME unwatch'[u] = unwatch[u] PROVE Begun(u)'
  BY <1>1, <1>2, BegunAges
<1>3. ASSUME NEW v \in Unwatchers, v # u, NEW e, unwatch' = [unwatch EXCEPT ![v] = e]
      PROVE  Begun(u)'
  <2>1. unwatch'[u] = unwatch[u]
    BY <1>3 DEF TypeInv, RunType
  <2> QED BY <2>1, <1>2
<1>4. ASSUME NEW p \in Paths, NEW v \in Unwatchers, StartUnwatch(v, p) PROVE Begun(u)'
  <2>1. CASE v = u
    BY <2>1, <1>4, StartBegins
  <2>2. CASE v # u
    <3>1. PICK e : unwatch' = [unwatch EXCEPT ![v] = e]
      BY <1>4 DEF StartUnwatch
    <3> QED BY <2>2, <3>1, <1>3
  <2> QED BY <2>1, <2>2
<1>5. ASSUME NEW v \in Unwatchers, FindChild(v) \/ FindWrapper(v) PROVE Begun(u)'
  <2>1. CASE v = u
    <3>1. unwatch[u].at # "off"
      BY <1>5, <2>1 DEF FindChild, FindWrapper, FindProcess
    <3> QED BY <2>1, <3>1, <1>1, <1>5, FindBegun
  <2>2. CASE v # u
    <3>1. PICK e : unwatch' = [unwatch EXCEPT ![v] = e]
      BY <1>5 DEF FindChild, FindWrapper, FindProcess
    <3> QED BY <2>2, <3>1, <1>3
  <2> QED BY <2>1, <2>2
<1>6. ASSUME NEW v \in Unwatchers, KillChild(v) \/ KillWrapper(v) PROVE Begun(u)'
  <2>1. CASE v = u
    <3>1. unwatch[u].at # "off"
      BY <1>6, <2>1 DEF KillChild, KillWrapper, KillProcess
    <3> QED BY <2>1, <3>1, <1>1, <1>6, KillBegun
  <2>2. CASE v # u
    <3>1. PICK e : unwatch' = [unwatch EXCEPT ![v] = e]
      BY <1>6 DEF KillChild, KillWrapper, KillProcess
    <3> QED BY <2>2, <3>1, <1>3
  <2> QED BY <2>1, <2>2
<1>7. ASSUME NEW v \in Unwatchers, Erase(v) PROVE Begun(u)'
  <2>1. unwatch' = [unwatch EXCEPT ![v] = NoUnwatch]
    BY <1>7 DEF Erase
  <2>2. v # u
    BY <2>1 DEF NoUnwatch, TypeInv, RunType
  <2> QED BY <2>1, <2>2, <1>3
<1>8. ASSUME NEW i \in DOMAIN proc, WatchStep(i) \/ ChildDies(i) PROVE UNCHANGED unwatch
  BY <1>8 DEF WatchStep, Register, SendState, WrapperReturns, ChildDies
<1>9. ASSUME NEW p \in Paths, Install(p) \/ Uninstall(p) \/ StartWatch(p) PROVE UNCHANGED unwatch
  BY <1>9 DEF Install, Uninstall, StartWatch
<1>10. ASSUME NEW m \in Monitors, StartMonitor(m) \/ ParentExits(m) \/ MonitorStep(m)
       PROVE  UNCHANGED unwatch
  BY <1>10 DEF StartMonitor, ParentExits, MonitorStep, RunProcessWatching, List, DetectStatus, SendStatus
<1>11. CASE AgentStopsOrStarts \/ UNCHANGED vars
  BY <1>11, <1>2 DEF AgentStopsOrStarts, vars
<1>12. ASSUME NEW v \in Unwatchers, UnwatchStep(v) PROVE Begun(u)'
  BY <1>12, <1>5, <1>6, <1>7 DEF UnwatchStep
<1> QED BY <1>2, <1>4, <1>8, <1>9, <1>10, <1>11, <1>12 DEF Next

-----------------------------------------------------------------------------
(* The invariant holds in every behaviour.                                 *)
THEOREM BaitsInvariance == Spec => []IInv
<1>1. Init => IInv
  BY InitInv
<1>2. IInv /\ [Next]_vars => IInv'
  BY StepTyped, StepBegun DEF IInv
<1> QED BY <1>1, <1>2, PTL DEF Spec

(* Type correctness of the watches, their registrations and the commands.  *)
THEOREM BaitsTypeCorrect == Spec => []TypeOK
<1>1. IInv => TypeOK
  BY DEF IInv, TypeInv, ProcType, StartupType, AgentType, RunType, RestType, TypeOK
<1> QED BY <1>1, BaitsInvariance, PTL

(* Only wrappers and their children are processes of the watches: an       *)
(* unwatch that erases has stopped what it began with, both kinds.         *)
LEMMA EraseStopped ==
  ASSUME IInv, NEW u \in Unwatchers, unwatch[u].at = "erase"
  PROVE  \/ \E i, j \in unwatch[u].begin : i # j /\ proc[i].kind = proc[j].kind
         \/ \A i \in unwatch[u].begin : ~Alive(i)
<1>1. Begun(u)
  BY DEF IInv, UnwatchInv
<1>2. CASE OneEach(u)
  <2>1. Gone(u, "child") /\ Gone(u, "wrapper") /\ unwatch[u].begin \subseteq DOMAIN proc
    BY <1>1, <1>2 DEF Begun
  <2>2. \A i \in unwatch[u].begin : proc[i].kind \in {"wrapper", "child"}
    BY <2>1, Pids DEF IInv, Process
  <2> QED BY <2>1, <2>2 DEF Gone
<1>3. CASE ~OneEach(u)
  BY <1>3 DEF OneEach
<1> QED BY <1>2, <1>3

(* A registration is erased only after the watch that the unwatch found    *)
(* when it began has stopped, unless there were several of a kind.         *)
THEOREM ErasedHasStopped == Spec => EraseMeansStopped
<1>1. IInv => [\A u \in Unwatchers :
          unwatch[u].at = "erase" /\ unwatch'[u].at = "off" /\ agent =>
              \/ \E i, j \in unwatch[u].begin : i # j /\ proc[i].kind = proc[j].kind
              \/ \A i \in unwatch[u].begin : ~Alive(i)]_vars
  BY EraseStopped
<1> QED BY <1>1, BaitsInvariance, PTL DEF EraseMeansStopped
=============================================================================
