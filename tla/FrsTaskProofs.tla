--------------------------- MODULE FrsTaskProofs ----------------------------
(***************************************************************************)
(* What holds of FrsTask for every number of files, every list of masters, *)
(* every log and every capacity of the pipe.                               *)
(*                                                                         *)
(* The inductive invariant IInv follows one call of RunCommand: At says    *)
(* where frs is, or where it goes on when the masters are told, and CallInv*)
(* says for each of these places what is known of the child, of the count  *)
(* and of the operations still to come.  The rest says what is handed from *)
(* one child to the next: a count that is 0 or at least the number of      *)
(* entries, and a count of 0 once a collection has failed.                 *)
(***************************************************************************)
EXTENDS FrsTask, SequenceTheorems, TLAPS

(* Where frs is, or where it goes on once the masters are told.            *)
At == IF frs = "telling" THEN resume ELSE frs

(* Before the first child.                                                 *)
Before == At \in {"check", "remove", "rejected"}

(* Between the start of a child and the return of RunCommand.              *)
InCall == At \in {"stdout", "stderr", "wait", "return"}

(* The operations the scan phases take their count from.                   *)
Sources == Collections \cup {"download"}

(* What is left of the plan: no operation twice, at most the first is a    *)
(* collection, and nothing but scan phases comes after a scan phase.       *)
PlanInv ==
    /\ \A i, k \in 1 .. Len(plan) : plan[i] = plan[k] => i = k
    /\ \A i, k \in 1 .. Len(plan) : i < k => plan[k] \notin Collections
    /\ \A i, k \in 1 .. Len(plan) : i < k /\ plan[i] \in ScanPhases => plan[k] \in ScanPhases
    /\ ~netdisk => \A i \in 1 .. Len(plan) : plan[i] \in {"origin"} \cup ScanPhases

(* An operation that has left the plan has ended.                          *)
DoneInv ==
    ~Ended => \A o \in Operations :
        o \in Range(Plan(netdisk)) /\ ended[o] = "none" =>
            \E i \in 1 .. Len(plan) : plan[i] = o

(* One call of RunCommand.                                                 *)
CallInv ==
    ~Ended =>
        /\ Before => child = "none" /\ taskCount = 0 /\ \A o \in Operations : ended[o] = "none"
        /\ Before \/ At = "start" =>
               /\ child # "running" /\ count = 0 /\ printed = NoCount
               /\ \A i \in 1 .. Len(plan) : ended[plan[i]] = "none"
        /\ InCall =>
               /\ plan # <<>> /\ child # "none"
               /\ \A i \in 2 .. Len(plan) : ended[plan[i]] = "none"
               /\ child = "running" <=> ended[Operation] = "none"
               /\ child = "succeeded" <=> ended[Operation] = "succeeded"
        /\ child = "running" => At = "stdout" /\ printed = NoCount
        /\ At = "stdout" => count = 0
        /\ At \in {"stderr", "wait", "return"} => printed = NoCount
        /\ At = "finished" => plan = <<>>

(* What is being registered is true.                                       *)
StatusInv ==
    /\ \A o \in Operations : status = <<o, "successfully">> => ended[o] = "succeeded"
    /\ status = <<"task", "successfully">> => \A o \in Range(Plan(netdisk)) : ended[o] # "none"

(* The count of a local task reaches the number of entries, or is 0.       *)
CountInv ==
    ~netdisk /\ ~Ended /\ plan # <<>> =>
        /\ Operation \in ScanPhases => taskCount = 0 \/ taskCount >= entries
        /\ Operation = "origin" => printed <= 0 \/ printed >= entries
        /\ Operation = "origin" => count = 0 \/ count >= entries

(* A collection or the download has failed.                                *)
SourceFailed == \E c \in Sources : ended[c] = "failed"

(* Nothing of a failed collection is handed on.                            *)
FailInv ==
    ~Ended =>
        /\ SourceFailed =>
               /\ printed = NoCount /\ count = 0
               /\ taskCount = 0 \/ (InCall /\ Operation \notin ScanPhases /\ child = "failed")
        /\ \A i \in 1 .. Len(plan) :
               plan[i] \in Sources => \A p \in ScanPhases : ended[p] = "none"
        /\ \A i \in 1 .. Len(plan) :
               plan[i] \in Collections => \A o \in Operations \ {plan[i]} : ended[o] = "none"

(* The plan and the masters left are sequences of the right kind.          *)
SeqInv == plan \in Seq(Operations) /\ toTell \in Seq(Range(MasterList))

(* The inductive invariant of FrsTask.                                     *)
IInv ==
    /\ TypeOK
    /\ SeqInv
    /\ PlanInv
    /\ DoneInv
    /\ CallInv
    /\ StatusInv
    /\ SuccessTruthful
    /\ CountInv
    /\ SectionsComplete
    /\ FailInv
    /\ NoResultWithoutCollection

-----------------------------------------------------------------------------
(* A suffix, element by element.                                           *)
LEMMA SuffixElements ==
    ASSUME NEW S, NEW s \in Seq(S), NEW t \in Seq(S)
    PROVE  IsSuffix(s, t) <=>
               /\ Len(s) <= Len(t)
               /\ \A i \in 1 .. Len(s) : s[i] = t[Len(t) - Len(s) + i]
  <1> DEFINE m == Len(s)
             n == Len(t)
             r == Reverse(s)
             q == Reverse(t)
  <1>1. m \in Nat /\ n \in Nat
    OBVIOUS
  <1>2. r = [i \in 1 .. m |-> s[(m - i) + 1]] /\ q = [i \in 1 .. n |-> t[(n - i) + 1]]
    BY DEF Reverse
  <1>3. r \in Seq(S) /\ Len(r) = m /\ q \in Seq(S) /\ Len(q) = n
    BY <1>1, <1>2
  <1>4. ASSUME m <= n PROVE SubSeq(r, 1, m) = SubSeq(q, 1, m) <=> \A i \in 1 .. m : r[i] = q[i]
    <2>1. \A i \in 1 .. m : r[i] \in S /\ q[i] \in S
      BY <1>1, <1>3, <1>4
    <2>2. /\ Len(SubSeq(r, 1, m)) = m /\ Len(SubSeq(q, 1, m)) = m
          /\ SubSeq(r, 1, m) \in Seq(S) /\ SubSeq(q, 1, m) \in Seq(S)
          /\ \A i \in 1 .. m : SubSeq(r, 1, m)[i] = r[i] /\ SubSeq(q, 1, m)[i] = q[i]
      BY <1>1, <1>3, <1>4, <2>1
    <2> QED
      BY <1>1, <2>2, SeqEqual
  <1>5. ASSUME m <= n
        PROVE  (\A i \in 1 .. m : r[i] = q[i]) <=> \A i \in 1 .. m : s[i] = t[(n - m) + i]
    <2>1. \A i \in 1 .. m : r[i] = s[(m - i) + 1] /\ q[i] = t[(n - i) + 1]
      BY <1>1, <1>2, <1>5
    <2>2. ASSUME \A i \in 1 .. m : r[i] = q[i], NEW i \in 1 .. m PROVE s[i] = t[(n - m) + i]
      <3>1. (m - i) + 1 \in 1 .. m
        BY <1>1
      <3>2. r[(m - i) + 1] = s[i] /\ q[(m - i) + 1] = t[(n - m) + i]
        <4>1. (m - ((m - i) + 1)) + 1 = i /\ (n - ((m - i) + 1)) + 1 = (n - m) + i
          BY <1>1
        <4> QED
          BY <2>1, <3>1, <4>1
      <3> QED
        BY <2>2, <3>1, <3>2
    <2>3. ASSUME \A i \in 1 .. m : s[i] = t[(n - m) + i], NEW i \in 1 .. m PROVE r[i] = q[i]
      <3>1. (m - i) + 1 \in 1 .. m /\ (n - m) + ((m - i) + 1) = (n - i) + 1
        BY <1>1
      <3> QED
        BY <2>1, <2>3, <3>1
    <2> QED
      BY <2>2, <2>3
  <1> QED
    BY <1>1, <1>3, <1>4, <1>5 DEF IsSuffix, IsPrefix

(* The rest of a suffix is one.                                            *)
LEMMA SuffixTail ==
    ASSUME NEW S, NEW s \in Seq(S), NEW t \in Seq(S), IsSuffix(s, t), s # <<>>
    PROVE  IsSuffix(Tail(s), t) /\ Head(s) = t[Len(t) - Len(s) + 1] /\ Len(s) <= Len(t)
  <1>1. /\ Len(s) \in Nat \ {0} /\ Len(t) \in Nat /\ Len(s) <= Len(t)
        /\ \A i \in 1 .. Len(s) : s[i] = t[Len(t) - Len(s) + i]
    BY SuffixElements
  <1>2. /\ Tail(s) \in Seq(S) /\ Len(Tail(s)) = Len(s) - 1
        /\ \A i \in 1 .. Len(s) - 1 : Tail(s)[i] = s[i + 1]
    BY HeadTailProperties
  <1>3. \A i \in 1 .. Len(Tail(s)) : Tail(s)[i] = t[Len(t) - Len(Tail(s)) + i]
    BY <1>1, <1>2
  <1>4. IsSuffix(Tail(s), t)
    <2>1. Tail(s) \in Seq(S) /\ Len(Tail(s)) <= Len(t)
      BY <1>1, <1>2
    <2> HIDE <1>1, <1>2
    <2> QED
      BY <1>3, <2>1, SuffixElements
  <1>5. Head(s) = s[1] /\ 1 \in 1 .. Len(s)
    BY <1>1
  <1> QED
    BY <1>1, <1>4, <1>5

(* The empty sequence and the sequence itself are suffixes.                *)
LEMMA SuffixEnds ==
    ASSUME NEW S, NEW t \in Seq(S)
    PROVE  IsSuffix(t, t) /\ IsSuffix(<<>>, t)
  <1>1. Len(t) \in Nat /\ Len(t) - Len(t) = 0 /\ \A i \in 1 .. Len(t) : 0 + i = i
    OBVIOUS
  <1>2. IsSuffix(t, t)
    BY <1>1, SuffixElements
  <1>3. <<>> \in Seq(S) /\ Len(<<>>) = 0
    BY EmptySeq
  <1>4. IsSuffix(<<>>, t)
    <2>1. Len(<<>>) <= Len(t) /\ \A i \in 1 .. Len(<<>>) : <<>>[i] = t[Len(t) - Len(<<>>) + i]
      BY <1>1, <1>3
    <2> QED
      BY <1>3, <2>1, SuffixElements
  <1> QED
    BY <1>2, <1>4

(* A concatenation, compared with what it should be.                       *)
LEMMA ConcatIs ==
    ASSUME NEW S, NEW a \in Seq(S), NEW b \in Seq(S), NEW c \in Seq(S),
           Len(c) = Len(a) + Len(b),
           \A i \in 1 .. Len(a) : a[i] = c[i],
           \A i \in 1 .. Len(b) : b[i] = c[Len(a) + i]
    PROVE  a \o b = c
  <1>1. /\ a \o b \in Seq(S) /\ Len(a \o b) = Len(c)
        /\ \A i \in 1 .. Len(c) : (a \o b)[i] = IF i <= Len(a) THEN a[i] ELSE b[i - Len(a)]
    BY ConcatProperties
  <1>2. ASSUME NEW i \in 1 .. Len(c) PROVE (a \o b)[i] = c[i]
    <2>1. CASE i <= Len(a)
      BY <1>1, <2>1
    <2>2. CASE ~(i <= Len(a))
      <3>1. i - Len(a) \in 1 .. Len(b) /\ Len(a) + (i - Len(a)) = i
        BY <2>2
      <3> QED
        BY <1>1, <2>2, <3>1
    <2> QED
      BY <2>1, <2>2
  <1> QED
    BY <1>1, <1>2, SeqEqual

(* The two plans.                                                          *)
LEMMA Plans ==
    /\ Plan(TRUE) = <<"fetch", "download", "duplicate", "permissions", "suffix", "content">>
    /\ Plan(FALSE) = <<"origin", "duplicate", "permissions", "suffix", "content">>
    /\ Plan(TRUE) \in Seq(Operations) /\ Plan(FALSE) \in Seq(Operations)
  <1> DEFINE remote == <<"fetch", "download", "duplicate", "permissions", "suffix", "content">>
             local == <<"origin", "duplicate", "permissions", "suffix", "content">>
             first == <<"fetch", "download">>
             origin == <<"origin">>
  <1>1. /\ ScanOrder \in Seq(Operations) /\ first \in Seq(Operations) /\ origin \in Seq(Operations)
        /\ remote \in Seq(Operations) /\ local \in Seq(Operations)
    BY DEF ScanOrder, Operations, Collections, ScanPhases
  <1>2. /\ Len(remote) = Len(first) + Len(ScanOrder)
        /\ \A i \in 1 .. Len(first) : first[i] = remote[i]
        /\ \A i \in 1 .. Len(ScanOrder) : ScanOrder[i] = remote[Len(first) + i]
    BY DEF ScanOrder
  <1>3. /\ Len(local) = Len(origin) + Len(ScanOrder)
        /\ \A i \in 1 .. Len(origin) : origin[i] = local[i]
        /\ \A i \in 1 .. Len(ScanOrder) : ScanOrder[i] = local[Len(origin) + i]
    BY DEF ScanOrder
  <1>4. Plan(TRUE) = first \o ScanOrder /\ Plan(FALSE) = origin \o ScanOrder
    BY DEF Plan
  <1> HIDE DEF remote, local, first, origin
  <1>5. first \o ScanOrder = remote
    BY <1>1, <1>2, ConcatIs
  <1>6. origin \o ScanOrder = local
    BY <1>1, <1>3, ConcatIs
  <1>7. Plan(TRUE) = remote /\ Plan(FALSE) = local
    BY <1>4, <1>5, <1>6
  <1> QED
    BY <1>1, <1>7 DEF remote, local

(* RemoteCommand and Command: a sequence of operations.                    *)
LEMMA PlanType == \A nd \in BOOLEAN : Plan(nd) \in Seq(Operations)
  <1>1. Plan(TRUE) \in Seq(Operations) /\ Plan(FALSE) \in Seq(Operations)
    BY Plans
  <1> QED
    BY <1>1

(* An element is in the range of a sequence if it stands somewhere in it.  *)
LEMMA RangeElements ==
    ASSUME NEW S, NEW s \in Seq(S), NEW e
    PROVE  e \in Range(s) <=> \E i \in 1 .. Len(s) : s[i] = e
  BY DEF Range

(* The masters of server.yml, all of them or none.                         *)
LEMMA MastersType == ASSUME TypeOK PROVE masters \in Seq(Range(MasterList))
  BY FrsAssumption, EmptySeq DEF TypeOK

(* Head and tail of the plan.                                              *)
LEMMA PlanFacts ==
    ASSUME TypeOK, SeqInv, plan # <<>>
    PROVE  /\ Len(plan) \in Nat \ {0} /\ Operation = plan[1] /\ Operation \in Operations
           /\ \A i \in 1 .. Len(plan) : plan[i] \in Operations
           /\ Tail(plan) \in Seq(Operations) /\ Len(Tail(plan)) = Len(plan) - 1
           /\ \A i \in 1 .. Len(plan) - 1 : Tail(plan)[i] = plan[i + 1]
           /\ IsSuffix(Tail(plan), Plan(netdisk))
  <1>1. plan \in Seq(Operations) /\ Plan(netdisk) \in Seq(Operations) /\ IsSuffix(plan, Plan(netdisk))
    BY PlanType DEF TypeOK, SeqInv
  <1> QED
    BY <1>1, SuffixTail, HeadTailProperties DEF Operation

(* The same of the masters to be told.                                     *)
LEMMA TellFacts ==
    ASSUME TypeOK, SeqInv, toTell # <<>>
    PROVE  /\ Head(toTell) \in Range(MasterList) /\ Tail(toTell) \in Seq(Range(MasterList))
           /\ IsSuffix(Tail(toTell), masters) /\ Len(Tail(toTell)) = Len(toTell) - 1
           /\ Len(toTell) \in Nat \ {0} /\ Len(toTell) <= Len(masters)
           /\ Head(toTell) = masters[Len(masters) - Len(toTell) + 1]
  <1>1. /\ toTell \in Seq(Range(MasterList)) /\ masters \in Seq(Range(MasterList))
        /\ IsSuffix(toTell, masters)
    BY MastersType DEF TypeOK, SeqInv
  <1> QED
    BY <1>1, SuffixTail, HeadTailProperties

(* An operation is under way between its start and the return.             *)
LEMMA WaitsForOne ==
    ASSUME IInv, frs \in {"stdout", "stderr", "wait", "return"}
    PROVE  plan # <<>>
  BY DEF IInv, CallInv, At, InCall, Ended

(* A running child is the child of an operation of the plan.               *)
LEMMA RunsOne ==
    ASSUME IInv, ~Ended, child = "running"
    PROVE  plan # <<>>
  BY DEF IInv, CallInv, InCall

-----------------------------------------------------------------------------
(* The invariant holds when frs starts.                                    *)
LEMMA InitInv == Init => IInv
  <1> SUFFICES ASSUME Init PROVE IInv
    OBVIOUS
  <1>1. /\ plan = Plan(netdisk) /\ plan \in Seq(Operations) /\ masters \in Seq(Range(MasterList))
        /\ toTell = <<>> /\ At = "check" /\ frs = "check" /\ ~Ended
    BY PlanType, FrsAssumption, EmptySeq DEF Init, At, Ended
  <1>2. TypeOK /\ SeqInv
    BY <1>1, SuffixEnds, FrsAssumption, EmptySeq
       DEF Init, TypeOK, SeqInv, Status, Operations, NoCount
  <1>3. PlanInv
    <2>1. CASE netdisk
      <3>1. plan = <<"fetch", "download", "duplicate", "permissions", "suffix", "content">>
        BY <1>1, <2>1, Plans
      <3> QED
        BY <3>1, <2>1 DEF PlanInv, Collections, ScanPhases
    <2>2. CASE ~netdisk
      <3>1. plan = <<"origin", "duplicate", "permissions", "suffix", "content">>
        <4>1. netdisk = FALSE
          BY <2>2 DEF Init
        <4> QED
          BY <1>1, <4>1, Plans
      <3> QED
        BY <3>1 DEF PlanInv, Collections, ScanPhases
    <2> QED
      BY <2>1, <2>2
  <1>4. DoneInv
    BY <1>1, RangeElements DEF DoneInv
  <1>5. \A i \in 1 .. Len(plan) : plan[i] \in Operations
    BY <1>1
  <1>6. CallInv
    BY <1>1, <1>5 DEF Init, CallInv, Before, InCall
  <1>7. StatusInv /\ SuccessTruthful
    BY DEF Init, StatusInv, SuccessTruthful, Told, Nothing, Operations, Collections, ScanPhases
  <1>9. CountInv
    BY <1>1, FrsAssumption DEF Init, CountInv, NoCount, Operation
  <1>10. SectionsComplete /\ NoResultWithoutCollection /\ FailInv
    BY <1>5 DEF Init, SectionsComplete, NoResultWithoutCollection, FailInv, SourceFailed, Outcomes,
           Sources, Operations, Collections, ScanPhases
  <1> QED
    BY <1>2, <1>3, <1>4, <1>6, <1>7, <1>9, <1>10 DEF IInv

-----------------------------------------------------------------------------
(* The type invariant in three parts, next to the configuration.           *)
ConfigType ==
    /\ netdisk \in BOOLEAN /\ pathExists \in BOOLEAN /\ hasWorkers \in BOOLEAN
    /\ masters \in {<<>>, MasterList}

(* The types of the variables of frs.                                      *)
FrsType ==
    /\ frs \in {"check", "remove", "telling", "start", "stdout", "stderr",
                "wait", "return", "finished", "rejected", "panicked", "fatal"}
    /\ resume \in {"check", "start", "stdout", "return", "finished", "rejected"}
    /\ IsSuffix(plan, Plan(netdisk)) /\ plan \in Seq(Operations)
    /\ status \in Status
    /\ IsSuffix(toTell, masters) /\ toTell \in Seq(Range(MasterList))
    /\ view \in [Range(MasterList) -> Status \cup {Nothing}]

(* The types of the variables of the child.                                *)
ChildType ==
    /\ taskCount \in 0 .. MaxFiles /\ count \in 0 .. MaxFiles
    /\ child \in {"none", "running", "succeeded", "failed"}
    /\ logsLeft \in 0 .. MaxLog /\ stderr \in 0 .. PipeCapacity
    /\ printed \in NoCount .. MaxFiles

(* The types of what the task directory holds.                             *)
DirType ==
    /\ entries \in 0 .. MaxFiles /\ left \in 0 .. MaxLeft
    /\ section \in [ScanPhases -> {"none", "partial", "complete"}]
    /\ ended \in [Operations -> {"none", "succeeded", "failed", "failed late"}]

(* The parts make up the type invariant.                                   *)
LEMMA TypeParts == TypeOK /\ SeqInv <=> ConfigType /\ FrsType /\ ChildType /\ DirType
  BY DEF TypeOK, SeqInv, ConfigType, FrsType, ChildType, DirType

(* What the children cannot do, and what frs cannot do.                    *)
ChildMoves == ChildStep \/ ChildDies

(* A child leaves the variables of frs alone.                              *)
LEMMA ChildKeeps == ChildMoves => UNCHANGED <<config, frs, plan, tellVars, taskCount, count>>
  BY DEF ChildMoves, ChildStep, ChildResult, ChildLogs, ChildDies, ChildEnds, CollectionEnds,
         PrintedErrorEnds, DownloadEnds, ScanEnds

(* What frs leaves alone: it can only remove the task directory.           *)
FrsKept == UNCHANGED <<config, ended, entries, section>> /\ (left' = left \/ RemoveTaskDirectory)

(* frs leaves the outcomes and the directory of its children alone.        *)
LEMMA FrsKeeps == FrsStep => FrsKept
  <1> USE DEF FrsKept, taskDir
  <1>1. Registered \/ RegisterPanics \/ AllTold => FrsKept
    BY DEF Registered, RegisterPanics, AllTold
  <1>2. PathMissing \/ PathAccepted \/ RemoveTaskDirectory => FrsKept
    BY DEF PathMissing, PathAccepted, RemoveTaskDirectory
  <1>3. StartChild \/ StartFails \/ DrainStdout \/ DrainStderr => FrsKept
    BY DEF StartChild, StartFails, DrainStdout, DrainStderr
  <1>4. WaitSucceeds \/ WaitExitError \/ WaitFails => FrsKept
    BY DEF WaitSucceeds, WaitExitError, WaitFails
  <1>5. NextOperation \/ ProcessFinished => FrsKept
    BY DEF NextOperation, ProcessFinished
  <1> QED
    BY <1>1, <1>2, <1>3, <1>4, <1>5 DEF FrsStep

(* Each step is a step of frs, of a child, or none.                        *)
LEMMA NextCases == [Next]_vars => FrsStep \/ ChildMoves \/ UNCHANGED vars
  BY DEF Next, ChildMoves, Terminated

(* What was asked for and configured does not change.                      *)
LEMMA ConfigStep == [Next]_vars => UNCHANGED config
  BY NextCases, ChildKeeps, FrsKeeps DEF vars, FrsKept

-----------------------------------------------------------------------------
(* The types of what frs alone changes.                                    *)
LEMMA FrsTypeStep ==
    ASSUME IInv, FrsStep
    PROVE  FrsType'
  <1> USE DEF FrsType
  <1>1. FrsType /\ TypeOK /\ SeqInv /\ UNCHANGED config
    BY TypeParts, FrsKeeps DEF IInv, FrsKept
  <1>2. masters \in Seq(Range(MasterList)) /\ IsSuffix(masters, masters)
    BY <1>1, MastersType, SuffixEnds
  <1>3. \A o \in Operations \cup {"task"}, r \in {"running", "successfully", "failed"} : <<o, r>> \in Status
    BY DEF Status
  <1>4. plan # <<>> => Operation \in Operations
    BY <1>1, PlanFacts
  <1>5. ASSUME NEW s \in Status, NEW next \in {"check", "start", "stdout", "return", "finished", "rejected"},
               Tell(s, next), plan' = plan
        PROVE  FrsType'
    BY <1>1, <1>2, <1>5 DEF Tell, config
  <1>6. CASE Registered
    BY <1>1, <1>6, TellFacts DEF Registered, config
  <1>7. CASE RegisterPanics
    BY <1>1, <1>7 DEF RegisterPanics, tellVars, config
  <1>8. CASE AllTold
    BY <1>1, <1>8 DEF AllTold, tellVars, config
  <1>9. CASE PathMissing
    BY <1>3, <1>5, <1>9 DEF PathMissing
  <1>10. CASE PathAccepted
    BY <1>1, <1>10 DEF PathAccepted, tellVars, config
  <1>11. CASE RemoveTaskDirectory
    BY <1>3, <1>5, <1>11 DEF RemoveTaskDirectory
  <1>12. CASE StartChild
    BY <1>3, <1>4, <1>5, <1>12 DEF StartChild
  <1>13. CASE StartFails
    BY <1>1, <1>13 DEF StartFails, tellVars, config
  <1>14. CASE DrainStdout
    BY <1>1, <1>14 DEF DrainStdout, tellVars, config
  <1>15. CASE DrainStderr
    BY <1>1, <1>15 DEF DrainStderr, tellVars, config
  <1>16. CASE WaitSucceeds
    BY <1>3, <1>4, <1>5, <1>16, WaitsForOne DEF WaitSucceeds
  <1>17. CASE WaitExitError
    BY <1>1, <1>17 DEF WaitExitError, tellVars, config
  <1>18. CASE WaitFails
    BY <1>3, <1>4, <1>5, <1>18, WaitsForOne DEF WaitFails
  <1>19. CASE NextOperation
    <2>1. Tail(plan) \in Seq(Operations) /\ IsSuffix(Tail(plan), Plan(netdisk))
      BY <1>1, <1>19, WaitsForOne, PlanFacts DEF NextOperation
    <2> QED
      BY <1>1, <1>19, <2>1 DEF NextOperation, tellVars, config
  <1>20. CASE ProcessFinished
    BY <1>3, <1>5, <1>20 DEF ProcessFinished
  <1> QED
    BY <1>6, <1>7, <1>8, <1>9, <1>10, <1>11, <1>12, <1>13, <1>14, <1>15, <1>16, <1>17, <1>18, <1>19,
       <1>20, FrsStep DEF FrsStep

(* The types of the counts and of the child.                               *)
LEMMA ChildTypeStep ==
    ASSUME IInv, [Next]_vars
    PROVE  ChildType'
  <1> USE DEF ChildType
  <1>1. ChildType /\ DirType /\ MaxFiles \in Nat /\ MaxLog \in Nat /\ PipeCapacity \in Nat /\ NoCount = -1
    BY TypeParts, FrsAssumption DEF IInv, NoCount
  <1>2. ASSUME UNCHANGED <<taskCount, count, childVars>> PROVE ChildType'
    BY <1>1, <1>2 DEF childVars
  <1>3. CASE Registered \/ RegisterPanics \/ AllTold \/ PathMissing \/ PathAccepted
    BY <1>2, <1>3 DEF Registered, RegisterPanics, AllTold, PathMissing, PathAccepted
  <1>4. CASE RemoveTaskDirectory \/ StartFails \/ WaitSucceeds \/ WaitExitError \/ WaitFails
    BY <1>2, <1>4 DEF RemoveTaskDirectory, StartFails, WaitSucceeds, WaitExitError, WaitFails
  <1>5. CASE ProcessFinished \/ UNCHANGED vars
    BY <1>2, <1>5 DEF ProcessFinished, vars
  <1>6. CASE StartChild
    BY <1>1, <1>6 DEF StartChild
  <1>7. CASE DrainStdout
    BY <1>1, <1>7 DEF DrainStdout
  <1>8. CASE DrainStderr
    BY <1>1, <1>8 DEF DrainStderr
  <1>9. CASE NextOperation
    BY <1>1, <1>9 DEF NextOperation, childVars
  <1>10. CASE ChildLogs
    BY <1>1, <1>10 DEF ChildLogs
  <1>11. ASSUME NEW o, ChildEnds(o), printed' \in NoCount .. MaxFiles PROVE ChildType'
    BY <1>1, <1>11 DEF ChildEnds
  <1>12. ASSUME NEW o \in Outcomes, ChildResult(o) PROVE ChildType'
    <2>1. printed' \in NoCount .. MaxFiles
      <3>1. CASE CollectionEnds(o)
        BY <1>1, <3>1 DEF CollectionEnds
      <3>2. CASE PrintedErrorEnds(o)
        BY <1>1, <3>2 DEF PrintedErrorEnds
      <3>3. CASE DownloadEnds(o)
        BY <1>1, <3>3 DEF DownloadEnds
      <3>4. CASE ScanEnds(o)
        BY <1>1, <3>4 DEF ScanEnds
      <3> QED
        BY <1>12, <3>1, <3>2, <3>3, <3>4 DEF ChildResult
    <2>2. ChildEnds(o)
      BY <1>12 DEF ChildResult, CollectionEnds, PrintedErrorEnds, DownloadEnds, ScanEnds
    <2> QED
      BY <1>11, <2>1, <2>2
  <1>13. CASE ChildDies
    BY <1>1, <1>11, <1>13 DEF ChildDies
  <1> QED
    BY <1>3, <1>4, <1>5, <1>6, <1>7, <1>8, <1>9, <1>10, <1>12, <1>13, NextCases
       DEF FrsStep, ChildMoves, ChildStep

(* A collection adds entries, and may replace some that were left.         *)
LEMMA SavesType ==
    ASSUME DirType, NEW n \in 0 .. MaxFiles, Saves(n)
    PROVE  entries' \in 0 .. MaxFiles /\ left' \in 0 .. MaxLeft /\ section' = section
  <1>1. left \in 0 .. MaxLeft /\ MaxLeft \in Nat /\ left' \in 0 .. left
    BY FrsAssumption DEF DirType, Saves
  <1>2. left' \in 0 .. MaxLeft
    BY <1>1
  <1> QED
    BY <1>2 DEF Saves

(* The types of the task's directory and of the record of its children.    *)
LEMMA DirTypeStep ==
    ASSUME IInv, [Next]_vars
    PROVE  DirType'
  <1>1. DirType
    BY TypeParts DEF IInv
  <1>2. ASSUME UNCHANGED <<taskDir, ended>> PROVE DirType'
    BY <1>1, <1>2 DEF taskDir, DirType
  <1>3. CASE RemoveTaskDirectory
    <2>1. entries' = entries /\ section' = section /\ ended' = ended
      BY <1>3 DEF RemoveTaskDirectory
    <2>2. left \in 0 .. MaxLeft /\ MaxLeft \in Nat /\ left' \in 0 .. left
      BY <1>1, <1>3, FrsAssumption DEF RemoveTaskDirectory, DirType
    <2>3. left' \in 0 .. MaxLeft
      BY <2>2
    <2> QED
      BY <1>1, <2>1, <2>3 DEF DirType
  <1>4. CASE UNCHANGED vars \/ ChildLogs
    BY <1>2, <1>4 DEF vars, ChildLogs
  <1>5. ASSUME NEW o \in {"succeeded", "failed late", "failed"}, ChildEnds(o),
               entries' \in 0 .. MaxFiles, left' \in 0 .. MaxLeft,
               section' \in [ScanPhases -> {"none", "partial", "complete"}]
        PROVE  DirType'
    BY <1>1, <1>5 DEF ChildEnds, DirType
  <1>6. ASSUME NEW o \in Outcomes, ChildResult(o) PROVE DirType'
    <2>1. ChildEnds(o) /\ o \in {"succeeded", "failed late", "failed"}
      BY <1>6 DEF ChildResult, CollectionEnds, PrintedErrorEnds, DownloadEnds, ScanEnds, Outcomes
    <2>2. CASE CollectionEnds(o) \/ PrintedErrorEnds(o)
      <3>1. \E e \in 0 .. MaxFiles : Saves(e)
        BY <2>2, FrsAssumption DEF CollectionEnds, PrintedErrorEnds
      <3>2. entries' \in 0 .. MaxFiles /\ left' \in 0 .. MaxLeft /\ section' = section
        BY <1>1, <3>1, SavesType
      <3> QED
        BY <1>1, <1>5, <2>1, <3>2 DEF DirType
    <2>3. CASE DownloadEnds(o)
      BY <1>1, <1>5, <2>1, <2>3 DEF DownloadEnds, taskDir, DirType
    <2>4. CASE ScanEnds(o)
      <3>1. entries' = entries /\ left' = left
        BY <2>4 DEF ScanEnds
      <3>2. section' \in [ScanPhases -> {"none", "partial", "complete"}]
        BY <1>1, <2>4 DEF ScanEnds, DirType
      <3> QED
        BY <1>1, <1>5, <2>1, <3>1, <3>2 DEF DirType
    <2> QED
      BY <1>6, <2>2, <2>3, <2>4 DEF ChildResult
  <1>7. CASE ChildDies
    <2>1. CASE \E e \in 0 .. MaxFiles : Saves(e)
      <3>1. entries' \in 0 .. MaxFiles /\ left' \in 0 .. MaxLeft /\ section' = section
        BY <1>1, <2>1, SavesType
      <3> QED
        BY <1>1, <1>5, <1>7, <3>1 DEF DirType, ChildDies
    <2>2. CASE UNCHANGED taskDir
      BY <1>1, <1>5, <1>7, <2>2 DEF taskDir, DirType, ChildDies
    <2>3. CASE section' = [section EXCEPT ![Operation] = "partial"] /\ UNCHANGED <<entries, left>>
      <3>1. section' \in [ScanPhases -> {"none", "partial", "complete"}]
        BY <1>1, <2>3 DEF DirType
      <3> QED
        BY <1>1, <1>5, <1>7, <2>3, <3>1 DEF DirType, ChildDies
    <2> QED
      BY <1>7, <2>1, <2>2, <2>3 DEF ChildDies
  <1>8. FrsStep => RemoveTaskDirectory \/ UNCHANGED <<taskDir, ended>>
    BY FrsKeeps DEF FrsKept, taskDir
  <1> QED
    BY <1>2, <1>3, <1>4, <1>6, <1>7, <1>8, NextCases DEF ChildMoves, ChildStep

(* Each step preserves the types.                                          *)
LEMMA TypeStep ==
    ASSUME IInv, [Next]_vars
    PROVE  TypeOK' /\ SeqInv'
  <1>1. ConfigType'
    BY ConfigStep, TypeParts DEF IInv, ConfigType, config
  <1>2. FrsType'
    <2>1. FrsType
      BY TypeParts DEF IInv
    <2>2. CASE FrsStep
      BY <2>2, FrsTypeStep
    <2>3. CASE UNCHANGED <<config, frs, plan, tellVars>>
      BY <2>1, <2>3 DEF FrsType, tellVars, config
    <2> QED
      BY <2>2, <2>3, NextCases, ChildKeeps DEF vars
  <1> QED
    BY <1>1, <1>2, ChildTypeStep, DirTypeStep, TypeParts DEF TypeOK, SeqInv, ConfigType, FrsType, ChildType, DirType

-----------------------------------------------------------------------------
(* Steps that neither frs's place nor what the invariant speaks of notices,*)
(* or that end frs.                                                        *)
Kept == <<netdisk, plan, taskCount, count, child, printed, entries, left, section, ended, status>>

(* Such a step.                                                            *)
Still == UNCHANGED Kept /\ (Ended' \/ (~Ended /\ At' = At))

(* The steps that are such.                                                *)
LEMMA StillSteps ==
    ASSUME TypeOK,
           Registered \/ RegisterPanics \/ AllTold \/ StartFails \/ ChildLogs \/ UNCHANGED vars
    PROVE  Still
  <1> USE DEF config, tellVars, childVars, taskDir
  <1>1. CASE Registered
    <2>1. UNCHANGED Kept
      BY <1>1 DEF Registered, Kept
    <2>2. ~Ended /\ At' = At
      BY <1>1 DEF Registered, At, Ended
    <2> QED
      BY <2>1, <2>2 DEF Still
  <1>2. CASE RegisterPanics
    <2>1. UNCHANGED Kept
      BY <1>2 DEF RegisterPanics, Kept
    <2>2. Ended'
      BY <1>2 DEF RegisterPanics, Ended
    <2> QED
      BY <2>1, <2>2 DEF Still
  <1>3. CASE AllTold
    <2>1. UNCHANGED Kept
      BY <1>3 DEF AllTold, Kept
    <2>2. ~Ended /\ At' = At
      BY <1>3 DEF AllTold, At, Ended, TypeOK
    <2> QED
      BY <2>1, <2>2 DEF Still
  <1>4. CASE StartFails
    <2>1. UNCHANGED Kept
      BY <1>4 DEF StartFails, Kept
    <2>2. Ended'
      BY <1>4 DEF StartFails, Ended
    <2> QED
      BY <2>1, <2>2 DEF Still
  <1>5. CASE ChildLogs
    <2>1. UNCHANGED Kept
      BY <1>5 DEF ChildLogs, Kept
    <2>2. ~Ended /\ At' = At
      BY <1>5 DEF ChildLogs, Running, At
    <2> QED
      BY <2>1, <2>2 DEF Still
  <1>6. CASE UNCHANGED vars
    <2>1. UNCHANGED Kept
      BY <1>6 DEF vars, Kept
    <2>2. At' = At /\ (Ended' <=> Ended)
      BY <1>6 DEF vars, At, Ended
    <2> QED
      BY <2>1, <2>2 DEF Still
  <1> QED
    BY <1>1, <1>2, <1>3, <1>4, <1>5, <1>6

(* The end of a child, with or without a result.                           *)
ChildOver(o) ==
    /\ ~Ended /\ ~Ended' /\ At = "stdout" /\ At' = "stdout"
    /\ plan # <<>> /\ Operation \in Operations
    /\ child = "running" /\ ended[Operation] = "none" /\ count = 0 /\ printed = NoCount
    /\ child' = (IF o = "succeeded" THEN "succeeded" ELSE "failed")
    /\ ended' = [ended EXCEPT ![Operation] = o]
    /\ UNCHANGED <<netdisk, plan, status, view, taskCount, count>>

(* Each way a child ends, by itself or by a fault, is a ChildOver.         *)
LEMMA ChildOverFacts ==
    ASSUME IInv, NEW o, (o \in Outcomes /\ ChildResult(o)) \/ (o = "failed" /\ ChildDies)
    PROVE  ChildOver(o)
  <1>1. /\ ~Ended /\ child = "running"
        /\ ChildEnds(o) /\ UNCHANGED <<config, frs, plan, tellVars, taskCount, count>>
    BY DEF ChildResult, CollectionEnds, PrintedErrorEnds, DownloadEnds, ScanEnds, ChildDies, Running, ChildEnds
  <1>2. CallInv /\ TypeOK /\ SeqInv
    BY DEF IInv
  <1>3. At = "stdout" /\ count = 0 /\ printed = NoCount /\ plan # <<>> /\ ended[Operation] = "none"
    BY <1>1, <1>2 DEF CallInv, InCall
  <1>4. Operation \in Operations
    BY <1>2, <1>3, PlanFacts
  <1>5. At' = At /\ ~Ended'
    BY <1>1 DEF At, Ended, tellVars
  <1> QED
    BY <1>1, <1>3, <1>4, <1>5 DEF ChildOver, ChildEnds, config, tellVars

(* The steps the invariant has to be shown of.                             *)
LEMMA StepCases ==
    ASSUME IInv, [Next]_vars
    PROVE  \/ Still \/ PathMissing \/ PathAccepted \/ RemoveTaskDirectory
           \/ StartChild \/ DrainStdout \/ DrainStderr
           \/ WaitSucceeds \/ WaitExitError \/ WaitFails \/ NextOperation \/ ProcessFinished
           \/ \E o \in Outcomes \cup {"failed"} : ChildOver(o)
  <1>1. TypeOK
    BY DEF IInv
  <1>2. CASE FrsStep
    BY <1>1, <1>2, StillSteps DEF FrsStep
  <1>3. CASE ChildLogs \/ UNCHANGED vars
    BY <1>1, <1>3, StillSteps
  <1>4. ASSUME NEW o \in Outcomes, ChildResult(o) PROVE ChildOver(o)
    <2>1. o \in Outcomes /\ ChildResult(o)
      BY <1>4
    <2> QED
      BY <2>1, ChildOverFacts
  <1>5. CASE ChildDies
    BY <1>5, ChildOverFacts
  <1> QED
    BY <1>2, <1>3, <1>4, <1>5, NextCases DEF ChildMoves, ChildStep

(* From where to where frs goes.                                           *)
Goes(from, to) == ~Ended /\ At = from /\ At' = to /\ UNCHANGED <<netdisk, ended>>

(* Where each step of frs leads.                                           *)
LEMMA Moves ==
    /\ PathMissing => Goes("check", "rejected")
    /\ PathAccepted => Goes("check", "remove")
    /\ RemoveTaskDirectory => Goes("remove", "start")
    /\ StartChild => Goes("start", "stdout")
    /\ DrainStdout => Goes("stdout", "stderr")
    /\ DrainStderr => Goes("stderr", "wait")
    /\ WaitSucceeds => Goes("wait", "return")
    /\ WaitExitError => Goes("wait", "return")
    /\ WaitFails => Goes("wait", "return")
    /\ NextOperation => Goes("return", "start")
    /\ ProcessFinished => Goes("start", "finished")
  <1> USE DEF Goes, At, Ended, Tell, config
  <1>1. (PathMissing => Goes("check", "rejected")) /\ (PathAccepted => Goes("check", "remove"))
    BY DEF PathMissing, PathAccepted
  <1>2. (RemoveTaskDirectory => Goes("remove", "start")) /\ (StartChild => Goes("start", "stdout"))
    BY DEF RemoveTaskDirectory, StartChild
  <1>3. (DrainStdout => Goes("stdout", "stderr")) /\ (DrainStderr => Goes("stderr", "wait"))
    BY DEF DrainStdout, DrainStderr
  <1>4. /\ WaitSucceeds => Goes("wait", "return")
        /\ WaitExitError => Goes("wait", "return")
        /\ WaitFails => Goes("wait", "return")
    BY DEF WaitSucceeds, WaitExitError, WaitFails
  <1>5. (NextOperation => Goes("return", "start")) /\ (ProcessFinished => Goes("start", "finished"))
    BY DEF NextOperation, ProcessFinished
  <1> QED
    BY <1>1, <1>2, <1>3, <1>4, <1>5

-----------------------------------------------------------------------------
(* The plan loses its first operation, and nothing else happens to it.     *)
LEMMA PlanMoves ==
    ASSUME IInv, [Next]_vars
    PROVE  plan' = plan \/ NextOperation
  <1>1. CASE Still
    BY <1>1 DEF Still, Kept
  <1>2. CASE PathMissing \/ PathAccepted \/ RemoveTaskDirectory
    BY <1>2 DEF PathMissing, PathAccepted, RemoveTaskDirectory
  <1>3. CASE StartChild \/ DrainStdout \/ DrainStderr \/ ProcessFinished
    BY <1>3 DEF StartChild, DrainStdout, DrainStderr, ProcessFinished
  <1>4. CASE WaitSucceeds \/ WaitExitError \/ WaitFails
    BY <1>4 DEF WaitSucceeds, WaitExitError, WaitFails
  <1>5. ASSUME NEW o \in Outcomes \cup {"failed"}, ChildOver(o) PROVE plan' = plan
    BY <1>5 DEF ChildOver
  <1> QED
    BY <1>1, <1>2, <1>3, <1>4, <1>5, StepCases

(* Each step preserves the order of the plan.                              *)
LEMMA PlanStep ==
    ASSUME IInv, [Next]_vars
    PROVE  PlanInv'
  <1>1. PlanInv /\ TypeOK /\ SeqInv /\ netdisk' = netdisk
    BY ConfigStep DEF IInv, config
  <1>2. CASE plan' = plan
    BY <1>1, <1>2 DEF PlanInv
  <1>3. CASE NextOperation
    <2>1. plan # <<>> /\ plan' = Tail(plan)
      BY <1>3, WaitsForOne DEF NextOperation
    <2>2. /\ Len(plan) \in Nat \ {0} /\ Len(plan') = Len(plan) - 1
          /\ \A i \in 1 .. Len(plan) - 1 : plan'[i] = plan[i + 1]
      BY <1>1, <2>1, PlanFacts
    <2>3. \A i \in 1 .. Len(plan') : i + 1 \in 1 .. Len(plan) /\ plan'[i] = plan[i + 1]
      BY <2>2
    <2>4. \A i, k \in 1 .. Len(plan') : (i < k <=> i + 1 < k + 1) /\ (i + 1 = k + 1 => i = k)
      BY <2>2
    <2> QED
      BY <1>1, <2>3, <2>4 DEF PlanInv
  <1> QED
    BY <1>2, <1>3, PlanMoves

(* Only the end of a child is recorded, and once.                          *)
LEMMA EndedSteps ==
    ASSUME IInv, [Next]_vars
    PROVE  ended' = ended \/ \E o \in Outcomes \cup {"failed"} : ChildOver(o)
  <1>1. CASE Still
    BY <1>1 DEF Still, Kept
  <1>2. CASE \E from, to : Goes(from, to)
    BY <1>2 DEF Goes
  <1> QED
    BY <1>1, <1>2, StepCases, Moves

(* An operation leaves the plan only after its child has ended.            *)
LEMMA DoneStep ==
    ASSUME IInv, [Next]_vars
    PROVE  DoneInv'
  <1> SUFFICES ASSUME ~Ended', NEW x \in Operations, (x \in Range(Plan(netdisk)))', ended'[x] = "none"
               PROVE  \E i \in 1 .. Len(plan') : plan'[i] = x
    BY DEF DoneInv
  <1>1. TypeOK /\ SeqInv /\ DoneInv /\ CallInv /\ netdisk' = netdisk /\ x \in Range(Plan(netdisk))
    BY ConfigStep DEF IInv, config
  <1>2. ~Ended /\ ended[x] = "none"
    <2>1. CASE Still
      BY <2>1 DEF Still, Kept
    <2>2. CASE \E o \in Outcomes \cup {"failed"} : ChildOver(o)
      BY <1>1, <2>2 DEF ChildOver, Outcomes, TypeOK
    <2>3. CASE ~Still /\ ~(\E o \in Outcomes \cup {"failed"} : ChildOver(o))
      <3>1. \E from, to : Goes(from, to)
        BY <2>3, StepCases, Moves
      <3> QED
        BY <3>1 DEF Goes
    <2> QED
      BY <2>1, <2>2, <2>3
  <1>3. PICK i \in 1 .. Len(plan) : plan[i] = x
    BY <1>1, <1>2 DEF DoneInv
  <1>4. CASE plan' = plan
    BY <1>3, <1>4
  <1>5. CASE NextOperation
    <2>1. plan # <<>> /\ plan' = Tail(plan)
      BY <1>5, WaitsForOne DEF NextOperation
    <2>2. /\ Len(plan) \in Nat \ {0} /\ Len(plan') = Len(plan) - 1 /\ Operation = plan[1]
          /\ \A k \in 1 .. Len(plan) - 1 : plan'[k] = plan[k + 1]
      BY <1>1, <2>1, PlanFacts
    <2>3. ended[Operation] # "none"
      BY <1>1, <1>5, Moves DEF CallInv, Goes, InCall
    <2>4. i # 1
      BY <1>2, <1>3, <2>2, <2>3
    <2>5. i - 1 \in 1 .. Len(plan') /\ plan'[i - 1] = plan[(i - 1) + 1] /\ (i - 1) + 1 = i
      BY <2>2, <2>4
    <2> QED
      BY <1>3, <2>5
  <1> QED
    BY <1>4, <1>5, PlanMoves

(* What the return of RunCommand does.                                     *)
LEMMA Returned ==
    ASSUME IInv, NextOperation
    PROVE  /\ plan # <<>> /\ Len(plan) \in Nat \ {0} /\ Len(plan') = Len(plan) - 1
           /\ Operation = plan[1] /\ Operation \in Operations
           /\ \A i \in 1 .. Len(plan') : i + 1 \in 2 .. Len(plan) /\ plan'[i] = plan[i + 1]
           /\ plan' # <<>> => 1 \in 1 .. Len(plan') /\ Head(plan') = plan'[1]
           /\ ended[Operation] # "none" /\ child # "running" /\ child # "none" /\ printed = NoCount
           /\ count' = 0 /\ taskCount' = (IF Operation \in ScanPhases THEN taskCount ELSE count)
           /\ UNCHANGED <<netdisk, child, printed, entries, section, ended, status, view>>
  <1>1. TypeOK /\ SeqInv /\ CallInv
    BY DEF IInv
  <1>2. plan # <<>> /\ plan' = Tail(plan)
    BY WaitsForOne DEF NextOperation
  <1>3. /\ Len(plan) \in Nat \ {0} /\ Len(plan') = Len(plan) - 1
        /\ Operation = plan[1] /\ Operation \in Operations
        /\ \A i \in 1 .. Len(plan) - 1 : plan'[i] = plan[i + 1]
        /\ plan' \in Seq(Operations)
    BY <1>1, <1>2, PlanFacts
  <1>4. \A i \in 1 .. Len(plan') : i + 1 \in 2 .. Len(plan) /\ plan'[i] = plan[i + 1]
    BY <1>3
  <1>5. plan' # <<>> => 1 \in 1 .. Len(plan') /\ Head(plan') = plan'[1]
    BY <1>3
  <1>6. ~Ended /\ At = "return"
    BY Moves DEF Goes
  <1>7. ended[Operation] # "none" /\ child # "running" /\ child # "none" /\ printed = NoCount
    BY <1>1, <1>6 DEF CallInv, InCall
  <1>8. count' = 0 /\ taskCount' = (IF Operation \in ScanPhases THEN taskCount ELSE count)
    BY DEF NextOperation
  <1>9. UNCHANGED <<netdisk, child, printed, entries, section, ended, status, view>>
    BY DEF NextOperation, config, childVars, taskDir, tellVars
  <1> QED
    BY <1>2, <1>3, <1>4, <1>5, <1>7, <1>8, <1>9

(* A child is started, and has its whole work before it.                   *)
LEMMA Started ==
    ASSUME IInv, StartChild
    PROVE  /\ plan # <<>> /\ Operation \in Operations /\ ended[Operation] = "none"
           /\ \A i \in 1 .. Len(plan) : ended[plan[i]] = "none"
           /\ child' = "running" /\ printed' = NoCount /\ count = 0
           /\ UNCHANGED <<netdisk, plan, taskCount, count, entries, section, ended>>
  <1>1. TypeOK /\ SeqInv /\ CallInv
    BY DEF IInv
  <1>2. ~Ended /\ At = "start"
    BY Moves DEF Goes
  <1>3. plan # <<>> /\ Operation \in Operations /\ Operation = plan[1] /\ Len(plan) \in Nat \ {0}
    BY <1>1, PlanFacts DEF StartChild
  <1>4. count = 0 /\ \A i \in 1 .. Len(plan) : ended[plan[i]] = "none"
    BY <1>1, <1>2 DEF CallInv
  <1>5. ended[Operation] = "none"
    BY <1>3, <1>4
  <1> QED
    BY <1>3, <1>4, <1>5 DEF StartChild, config, taskDir

-----------------------------------------------------------------------------
(* One call of RunCommand after the other.                                 *)
LEMMA CallStep ==
    ASSUME IInv, [Next]_vars
    PROVE  CallInv'
  <1> SUFFICES ASSUME ~Ended' PROVE CallInv'
    BY DEF CallInv
  <1>0. TypeOK /\ SeqInv /\ CallInv /\ PlanInv
    BY DEF IInv
  <1>1. CASE Still
    <2>1. ~Ended /\ At' = At /\ UNCHANGED <<plan, taskCount, count, child, printed, ended>>
      BY <1>1 DEF Still, Kept
    <2> QED
      BY <1>0, <2>1 DEF CallInv, Before, InCall, Operation
  <1>2. CASE PathMissing \/ PathAccepted \/ RemoveTaskDirectory
    <2>1. /\ ~Ended /\ At \in {"check", "remove"} /\ At' \in {"rejected", "remove", "start"}
      BY <1>2, Moves DEF Goes
    <2>2. UNCHANGED <<plan, taskCount, count, child, printed, ended>>
      BY <1>2 DEF PathMissing, PathAccepted, RemoveTaskDirectory, childVars
    <2> QED
      BY <1>0, <2>1, <2>2 DEF CallInv, Before, InCall
  <1>3. CASE StartChild
    <2>1. At' = "stdout"
      BY <1>3, Moves DEF Goes
    <2>2. \A i \in 2 .. Len(plan) : i \in 1 .. Len(plan)
      BY <1>0
    <2>3. Operation' = Operation
      BY <1>3, Started DEF Operation
    <2> QED
      BY <1>3, <2>1, <2>2, <2>3, Started DEF CallInv, Before, InCall
  <1>4. CASE DrainStdout \/ DrainStderr
    <2>1. ~Ended /\ At \in {"stdout", "stderr"} /\ At' \in {"stderr", "wait"} /\ child # "running"
      BY <1>4, Moves DEF Goes, DrainStdout, DrainStderr
    <2>2. UNCHANGED <<plan, child, ended>> /\ Operation' = Operation
      BY <1>4 DEF DrainStdout, DrainStderr, Operation
    <2>3. printed' = NoCount
      BY <1>0, <1>4, Moves DEF Goes, DrainStdout, DrainStderr, CallInv
    <2> QED
      BY <1>0, <2>1, <2>2, <2>3 DEF CallInv, Before, InCall
  <1>5. CASE WaitSucceeds \/ WaitExitError \/ WaitFails
    <2>1. ~Ended /\ At = "wait" /\ At' = "return"
      BY <1>5, Moves DEF Goes
    <2>2. UNCHANGED <<plan, child, printed, ended>> /\ Operation' = Operation
      BY <1>5 DEF WaitSucceeds, WaitExitError, WaitFails, childVars, Operation
    <2> QED
      BY <1>0, <2>1, <2>2 DEF CallInv, Before, InCall
  <1>6. CASE NextOperation
    <2>1. ~Ended /\ At = "return" /\ At' = "start"
      BY <1>6, Moves DEF Goes
    <2>2. \A i \in 2 .. Len(plan) : ended[plan[i]] = "none"
      BY <1>0, <2>1 DEF CallInv, InCall
    <2>3. \A i \in 1 .. Len(plan') : ended'[plan'[i]] = "none"
      BY <1>6, <2>2, Returned
    <2>4. child' # "running" /\ count' = 0 /\ printed' = NoCount
      BY <1>6, Returned
    <2> QED
      BY <2>1, <2>3, <2>4 DEF CallInv, Before, InCall
  <1>7. CASE ProcessFinished
    <2>1. ~Ended /\ At = "start" /\ At' = "finished"
      BY <1>7, Moves DEF Goes
    <2>2. plan = <<>> /\ UNCHANGED <<plan, child, printed, ended>>
      BY <1>7 DEF ProcessFinished, childVars
    <2> QED
      BY <1>0, <2>1, <2>2 DEF CallInv, Before, InCall
  <1>8. ASSUME NEW o \in Outcomes \cup {"failed"}, ChildOver(o) PROVE CallInv'
    <2>1. /\ ~Ended /\ At = "stdout" /\ At' = "stdout" /\ plan # <<>> /\ Operation' = Operation
          /\ Operation \in Operations /\ UNCHANGED <<plan, count>> /\ count = 0
          /\ child' = (IF o = "succeeded" THEN "succeeded" ELSE "failed")
          /\ ended' = [ended EXCEPT ![Operation] = o]
      BY <1>8 DEF ChildOver, Operation
    <2>2. o # "none" /\ ended'[Operation] = o
      BY <1>0, <2>1 DEF Outcomes, TypeOK
    <2>3. \A i \in 2 .. Len(plan) : plan[i] \in Operations /\ plan[i] # Operation
      BY <1>0, <2>1, PlanFacts DEF PlanInv
    <2>4. \A i \in 2 .. Len(plan) : ended[plan[i]] = "none"
      BY <1>0, <2>1 DEF CallInv, InCall
    <2>5. \A i \in 2 .. Len(plan) : ended'[plan[i]] = "none"
      BY <1>0, <2>1, <2>3, <2>4 DEF TypeOK
    <2> QED
      BY <2>1, <2>2, <2>5 DEF CallInv, Before, InCall
  <1> QED
    BY <1>1, <1>2, <1>3, <1>4, <1>5, <1>6, <1>7, <1>8, StepCases

(* What is registered, and what the masters have been told, stays true.    *)
LEMMA StatusStep ==
    ASSUME IInv, [Next]_vars
    PROVE  StatusInv' /\ SuccessTruthful'
  <1>0. TypeOK /\ SeqInv /\ CallInv /\ DoneInv /\ StatusInv /\ SuccessTruthful /\ netdisk' = netdisk
    BY ConfigStep DEF IInv, config
  <1>1. \A o \in Operations : ended[o] # "none" => ended'[o] = ended[o]
    <2>1. CASE ended' = ended
      BY <2>1
    <2>2. ASSUME NEW o \in Outcomes \cup {"failed"}, ChildOver(o)
          PROVE  \A x \in Operations : ended[x] # "none" => ended'[x] = ended[x]
      BY <1>0, <2>2 DEF ChildOver, TypeOK
    <2> QED
      BY <2>1, <2>2, EndedSteps
  <1>2. Plan(netdisk)' = Plan(netdisk) /\ \A o \in Range(Plan(netdisk)) : o \in Operations
    <2>1. Plan(netdisk) \in Seq(Operations)
      BY <1>0, PlanType DEF TypeOK
    <2> QED
      BY <1>0, <2>1, RangeElements
  <1>3. \/ status' = status
        \/ status' \notin (Operations \cup {"task"}) \X {"successfully"}
        \/ WaitSucceeds
        \/ ProcessFinished
    <2>1. CASE Still
      BY <2>1 DEF Still, Kept
    <2>2. CASE PathMissing \/ PathAccepted \/ RemoveTaskDirectory
      BY <2>2 DEF PathMissing, PathAccepted, RemoveTaskDirectory, Tell, tellVars
    <2>3. CASE StartChild \/ DrainStdout \/ DrainStderr
      BY <2>3 DEF StartChild, DrainStdout, DrainStderr, Tell, tellVars
    <2>4. CASE WaitExitError \/ WaitFails
      BY <2>4 DEF WaitExitError, WaitFails, Tell, tellVars
    <2>5. CASE NextOperation
      BY <2>5, Returned
    <2>6. ASSUME NEW o \in Outcomes \cup {"failed"}, ChildOver(o) PROVE status' = status
      BY <2>6 DEF ChildOver
    <2> QED
      BY <2>1, <2>2, <2>3, <2>4, <2>5, <2>6, StepCases
  <1>4. StatusInv'
    <2>1. CASE status' = status
      BY <1>0, <1>1, <1>2, <2>1 DEF StatusInv
    <2>2. CASE status' \notin (Operations \cup {"task"}) \X {"successfully"}
      BY <2>2 DEF StatusInv
    <2>3. CASE WaitSucceeds
      <3>1. status' = <<Operation, "successfully">> /\ Operation # "task" /\ child = "succeeded"
        BY <1>0, <2>3, WaitsForOne, PlanFacts
           DEF WaitSucceeds, Tell, Operations, Collections, ScanPhases
      <3>2. ended[Operation] = "succeeded" /\ Operation \in Operations /\ ended' = ended
        BY <1>0, <2>3, Moves, WaitsForOne, PlanFacts DEF Goes, CallInv, InCall, WaitSucceeds
      <3> QED
        BY <3>1, <3>2 DEF StatusInv
    <2>4. CASE ProcessFinished
      <3>1. status' = <<"task", "successfully">> /\ plan = <<>> /\ ~Ended /\ ended' = ended
        BY <2>4, Moves DEF ProcessFinished, Tell, Goes
      <3>2. \A o \in Range(Plan(netdisk)) : ended[o] # "none"
        BY <1>0, <1>2, <3>1 DEF DoneInv
      <3>3. "task" \notin Operations
        BY DEF Operations, Collections, ScanPhases
      <3> QED
        BY <1>2, <3>1, <3>2, <3>3 DEF StatusInv
    <2> QED
      BY <1>3, <2>1, <2>2, <2>3, <2>4
  <1>5. view' = view \/ Registered
    <2>1. FrsStep => view' = view \/ Registered
      BY DEF FrsStep, Tell, tellVars, RegisterPanics, AllTold, PathMissing, PathAccepted, RemoveTaskDirectory,
             StartChild, StartFails, DrainStdout, DrainStderr, WaitSucceeds, WaitExitError, WaitFails,
             NextOperation, ProcessFinished
    <2> QED
      BY <2>1, NextCases, ChildKeeps DEF vars, tellVars
  <1>6. \A s \in Status : Told(s)' => Told(s) \/ s = status
    <2>1. CASE view' = view
      BY <2>1 DEF Told
    <2>2. CASE Registered
      BY <1>0, <2>2, TellFacts DEF Registered, Told, TypeOK
    <2> QED
      BY <1>5, <2>1, <2>2
  <1>7. \A o \in Operations : <<o, "successfully">> \in Status /\ <<"task", "successfully">> \in Status
    BY DEF Status
  <1>8. SuccessTruthful'
    <2>1. ASSUME NEW o \in Operations, Told(<<o, "successfully">>)' PROVE ended'[o] = "succeeded"
      <3>1. ended[o] = "succeeded"
        BY <1>0, <1>6, <1>7, <2>1 DEF SuccessTruthful, StatusInv
      <3> QED
        BY <1>1, <3>1
    <2>2. ASSUME Told(<<"task", "successfully">>)' PROVE \A o \in Range(Plan(netdisk)) : ended'[o] # "none"
      <3>1. <<"task", "successfully">> \in Status
        BY DEF Status
      <3>2. \A o \in Range(Plan(netdisk)) : ended[o] # "none"
        BY <1>0, <1>6, <2>2, <3>1 DEF SuccessTruthful, StatusInv
      <3> QED
        BY <1>1, <1>2, <3>2
    <2> QED
      BY <1>2, <2>1, <2>2 DEF SuccessTruthful
  <1> QED
    BY <1>4, <1>8

-----------------------------------------------------------------------------
(* What the children leave in the task's directory.                        *)
LEMMA Results ==
    ASSUME IInv, NEW o \in Outcomes, ChildResult(o)
    PROVE  \/ Operation \in Collections /\ section' = section
           \/ Operation = "download" /\ UNCHANGED taskDir
           \/ /\ Operation \in ScanPhases /\ UNCHANGED <<entries, left, printed>>
              /\ taskCount \in 1 .. Stored
              /\ section' = [section EXCEPT ![Operation] =
                                IF taskCount = Stored THEN "complete" ELSE "partial"]
  <1>1. CASE CollectionEnds(o) \/ PrintedErrorEnds(o)
    BY <1>1 DEF CollectionEnds, PrintedErrorEnds, Saves, Running
  <1>2. CASE DownloadEnds(o)
    BY <1>2 DEF DownloadEnds, Running
  <1>3. CASE ScanEnds(o)
    BY <1>3 DEF ScanEnds, Running
  <1> QED
    BY <1>1, <1>2, <1>3 DEF ChildResult

(* Sections that were finished are complete, if nothing was left: what is  *)
(* left can only change before there is a section.                         *)
LEMMA SectionStep ==
    ASSUME IInv, [Next]_vars
    PROVE  SectionsComplete'
  <1>0. /\ TypeOK /\ SeqInv /\ CallInv /\ SectionsComplete /\ CountInv /\ FailInv
        /\ netdisk' = netdisk
    BY ConfigStep DEF IInv, config
  <1>1. ASSUME UNCHANGED <<section, left, ended>> PROVE SectionsComplete'
    BY <1>0, <1>1 DEF SectionsComplete
  <1>2. CASE ChildLogs \/ UNCHANGED vars
    BY <1>1, <1>2 DEF ChildLogs, vars, taskDir
  <1>3. CASE RemoveTaskDirectory
    <2>1. ~Ended /\ At = "remove" /\ ended' = ended
      BY <1>3, Moves DEF Goes
    <2>2. \A p \in ScanPhases : ended[p] = "none"
      BY <1>0, <2>1 DEF CallInv, Before, Operations
    <2> QED
      BY <2>1, <2>2 DEF SectionsComplete, Outcomes
  <1>4. CASE FrsStep
    BY <1>1, <1>3, <1>4, FrsKeeps DEF FrsKept
  <1>5. ASSUME NEW o \in Outcomes \cup {"failed"}, ChildOver(o)
        PROVE  /\ \A p \in ScanPhases \ {Operation} : ended'[p] = ended[p]
               /\ Operation \in ScanPhases => ended'[Operation] = o
               /\ Operation \in Collections => \A p \in ScanPhases : ended'[p] = "none"
    <2>1. /\ ~Ended /\ plan # <<>> /\ Operation \in Operations
          /\ ended' = [ended EXCEPT ![Operation] = o]
      BY <1>5 DEF ChildOver
    <2>2. Operation = plan[1] /\ 1 \in 1 .. Len(plan)
      BY <1>0, <2>1, PlanFacts
    <2>3. Operation \in Collections => \A x \in Operations \ {Operation} : ended[x] = "none"
      BY <1>0, <2>1, <2>2 DEF FailInv
    <2>4. \A x \in Operations \ {Operation} : ended'[x] = ended[x]
      BY <1>0, <2>1 DEF TypeOK
    <2>5. ended'[Operation] = o
      BY <1>0, <2>1 DEF TypeOK
    <2>6. \A p \in ScanPhases : p \in Operations /\ p \notin Collections
      BY DEF Operations, ScanPhases, Collections
    <2> QED
      BY <2>3, <2>4, <2>5, <2>6
  <1>6. ASSUME NEW o \in Outcomes, ChildResult(o) PROVE SectionsComplete'
    <2>1. ChildOver(o)
      <3>1. o \in Outcomes /\ ChildResult(o)
        BY <1>6
      <3> QED
        BY <3>1, ChildOverFacts
    <2>2. CASE Operation \in Collections
      BY <1>5, <2>1, <2>2 DEF SectionsComplete, Outcomes
    <2>3. CASE Operation = "download" /\ UNCHANGED taskDir
      <3>1. \A p \in ScanPhases : ended'[p] = ended[p]
        BY <1>5, <2>1, <2>3 DEF ScanPhases
      <3> QED
        BY <1>0, <2>3, <3>1 DEF SectionsComplete, taskDir
    <2>4. CASE /\ Operation \in ScanPhases /\ UNCHANGED <<entries, left>>
               /\ taskCount \in 1 .. Stored
               /\ section' = [section EXCEPT ![Operation] =
                                IF taskCount = Stored THEN "complete" ELSE "partial"]
      <3>1. \A p \in ScanPhases \ {Operation} : section'[p] = section[p] /\ ended'[p] = ended[p]
        BY <1>0, <1>5, <2>1, <2>4 DEF TypeOK
      <3>2. CASE netdisk \/ left # 0
        <4>0. left \in 0 .. MaxLeft /\ MaxLeft \in Nat
          BY <1>0, FrsAssumption DEF TypeOK
        <4>1. netdisk' \/ left' > 0
          BY <1>0, <2>4, <3>2, <4>0
        <4> QED
          BY <4>1 DEF SectionsComplete
      <3>3. CASE ~netdisk /\ left = 0
        <4>1. taskCount = 0 \/ taskCount >= entries
          BY <1>0, <2>1, <2>4, <3>3 DEF CountInv, ChildOver
        <4>0. entries \in 0 .. MaxFiles /\ taskCount \in 0 .. MaxFiles /\ MaxFiles \in Nat
          BY <1>0, FrsAssumption DEF TypeOK
        <4>2. entries \in Nat /\ taskCount \in Nat
          BY <4>0
        <4>3. taskCount = Stored
          BY <2>4, <3>3, <4>1, <4>2 DEF Stored
        <4>4. section'[Operation] = "complete"
          BY <1>0, <2>4, <4>3 DEF TypeOK
        <4> QED
          BY <1>0, <2>4, <3>1, <4>4 DEF SectionsComplete
      <3> QED
        BY <3>2, <3>3 DEF SectionsComplete
    <2> QED
      BY <1>6, <2>2, <2>3, <2>4, Results
  <1>7. CASE ChildDies
    <2>1. ChildOver("failed")
      BY <1>7, ChildOverFacts
    <2>2. CASE Operation \in Collections
      BY <1>5, <2>1, <2>2 DEF SectionsComplete, Outcomes
    <2>3. CASE Operation \notin Collections
      <3>1. /\ \A p \in ScanPhases \ {Operation} : section'[p] = section[p]
            /\ left' = left
        BY <1>0, <1>7, <2>3 DEF ChildDies, taskDir, TypeOK
      <3>2. \A p \in ScanPhases \ {Operation} : ended'[p] = ended[p]
        BY <1>5, <2>1
      <3>3. Operation \in ScanPhases => ended'[Operation] \notin Outcomes
        <4>1. "failed" \in Outcomes \cup {"failed"} /\ "failed" \notin Outcomes
          BY DEF Outcomes
        <4> QED
          BY <1>5, <2>1, <4>1
      <3> QED
        BY <1>0, <3>1, <3>2, <3>3 DEF SectionsComplete
    <2> QED
      BY <2>2, <2>3
  <1> QED
    BY <1>2, <1>4, <1>6, <1>7, NextCases DEF ChildMoves, ChildStep

(* A count that is handed on is 0, or not below the number of entries.     *)
LEMMA CountStep ==
    ASSUME IInv, [Next]_vars
    PROVE  CountInv'
  <1> SUFFICES ASSUME ~netdisk', ~Ended', plan' # <<>> PROVE CountInv'
    BY DEF CountInv
  <1>0. TypeOK /\ SeqInv /\ CallInv /\ CountInv /\ PlanInv /\ ~netdisk
    BY ConfigStep DEF IInv, config
  <1>1. /\ NoCount = -1 /\ taskCount \in Nat /\ count \in Nat /\ entries \in Nat
        /\ printed \in Int /\ printed >= -1
    <2>1. ChildType /\ DirType /\ MaxFiles \in Nat
      BY <1>0, TypeParts, FrsAssumption
    <2>2. entries \in 0 .. MaxFiles
      BY <2>1 DEF DirType
    <2>3. taskCount \in Nat /\ count \in Nat
      BY <2>1 DEF ChildType
    <2>4. NoCount = -1 /\ printed \in -1 .. MaxFiles
      BY <2>1 DEF ChildType, NoCount
    <2> QED
      BY <2>1, <2>2, <2>3, <2>4
  <1>2. CASE ~Ended /\ UNCHANGED <<plan, taskCount, count, printed, entries>>
    BY <1>0, <1>2 DEF CountInv, Operation
  <1>3. CASE Still
    BY <1>2, <1>3 DEF Still, Kept
  <1>4. CASE PathMissing \/ PathAccepted
    <2>1. ~Ended
      BY <1>4, Moves DEF Goes
    <2> QED
      BY <1>2, <1>4, <2>1 DEF PathMissing, PathAccepted, childVars, taskDir
  <1>5. CASE RemoveTaskDirectory
    <2>1. ~Ended /\ At = "remove"
      BY <1>5, Moves DEF Goes
    <2>2. taskCount = 0 /\ count = 0 /\ printed = NoCount
      BY <1>0, <2>1 DEF CallInv, Before
    <2>3. UNCHANGED <<taskCount, count, printed>>
      BY <1>5 DEF RemoveTaskDirectory, childVars
    <2>4. entries' = entries
      BY <1>5 DEF RemoveTaskDirectory
    <2> QED
      BY <1>0, <1>1, <2>2, <2>3, <2>4 DEF CountInv
  <1>6. CASE StartChild
    <2>1. ~Ended
      BY <1>6, Moves DEF Goes
    <2>2. UNCHANGED <<plan, taskCount, count, entries>> /\ printed' = NoCount
      BY <1>6, Started
    <2> QED
      BY <1>0, <1>1, <2>1, <2>2 DEF CountInv, Operation
  <1>7. CASE DrainStdout
    <2>1. ~Ended
      BY <1>7, Moves DEF Goes
    <2>2. /\ UNCHANGED <<plan, taskCount, entries>> /\ printed' = NoCount
          /\ count' = (IF printed = NoCount THEN 0 ELSE printed)
      BY <1>7 DEF DrainStdout, taskDir
    <2> QED
      BY <1>0, <1>1, <2>1, <2>2 DEF CountInv, Operation
  <1>8. CASE DrainStderr \/ WaitSucceeds \/ WaitExitError \/ WaitFails \/ ProcessFinished
    <2>1. ~Ended
      BY <1>8, Moves DEF Goes
    <2>2. UNCHANGED <<plan, taskCount, count, printed, entries>>
      BY <1>8 DEF DrainStderr, WaitSucceeds, WaitExitError, WaitFails, ProcessFinished, childVars, taskDir
    <2> QED
      BY <1>2, <2>1, <2>2
  <1>9. CASE NextOperation
    <2>1. ~Ended /\ plan # <<>>
      BY <1>9, Moves, WaitsForOne DEF Goes, NextOperation
    <2>2. /\ printed' = NoCount /\ count' = 0 /\ entries' = entries
          /\ taskCount' = (IF Operation \in ScanPhases THEN taskCount ELSE count)
      BY <1>9, Returned
    <2>3. Operation \in {"origin"} \cup ScanPhases
      BY <1>0, <1>9, Returned DEF PlanInv
    <2>4. taskCount' = 0 \/ taskCount' >= entries'
      BY <1>0, <1>1, <2>1, <2>2, <2>3 DEF CountInv
    <2> QED
      BY <1>1, <2>2, <2>4 DEF CountInv
  <1>10. ASSUME NEW o \in Outcomes \cup {"failed"}, ChildOver(o),
                Operation \in ScanPhases => entries' = entries,
                Operation = "origin" => printed' <= 0 \/ printed' >= entries'
         PROVE  CountInv'
    <2>1. ~Ended /\ plan # <<>> /\ UNCHANGED <<plan, taskCount, count>> /\ count = 0
      BY <1>10 DEF ChildOver
    <2> QED
      BY <1>0, <1>1, <1>10, <2>1 DEF CountInv, Operation
  <1>11. ASSUME NEW o \in Outcomes, ChildResult(o) PROVE CountInv'
    <2>1. ChildOver(o)
      <3>1. o \in Outcomes /\ ChildResult(o)
        BY <1>11
      <3> QED
        BY <3>1, ChildOverFacts
    <2>2. Operation \in ScanPhases => entries' = entries
      BY <1>11, Results DEF Collections, ScanPhases
    <2>3. Operation = "origin" => printed' <= 0 \/ printed' >= entries'
      <3>1. CASE CollectionEnds(o)
        <4>1. \E n \in 0 .. MaxFiles : printed' = n /\ entries' \in 0 .. n
          BY <3>1 DEF CollectionEnds, Saves
        <4> QED
          BY <4>1
      <3>2. CASE PrintedErrorEnds(o)
        BY <3>2 DEF PrintedErrorEnds
      <3>3. CASE DownloadEnds(o)
        BY <3>3 DEF DownloadEnds, Running
      <3>4. CASE ScanEnds(o)
        BY <3>4 DEF ScanEnds, Running, ScanPhases
      <3> QED
        BY <1>11, <3>1, <3>2, <3>3, <3>4 DEF ChildResult
    <2> QED
      BY <1>10, <2>1, <2>2, <2>3
  <1>12. CASE ChildDies
    <2>1. ChildOver("failed")
      BY <1>12, ChildOverFacts
    <2>2. Operation \in ScanPhases => entries' = entries
      BY <1>12 DEF ChildDies, Collections, ScanPhases, taskDir
    <2>3. printed' <= 0
      BY <1>1, <1>12, <2>1 DEF ChildDies, ChildOver
    <2> QED
      BY <1>10, <2>1, <2>2, <2>3
  <1> QED
    BY <1>3, <1>4, <1>5, <1>6, <1>7, <1>8, <1>9, <1>11, <1>12, NextCases, StillSteps
       DEF IInv, FrsStep, ChildMoves, ChildStep

(* A collection that has failed leaves no count to the operations after it.*)
LEMMA FailStep ==
    ASSUME IInv, [Next]_vars
    PROVE  FailInv' /\ NoResultWithoutCollection'
  <1>0. /\ TypeOK /\ SeqInv /\ CallInv /\ PlanInv /\ FailInv /\ NoResultWithoutCollection
        /\ \A o \in Sources : o \in Operations
        /\ \A p \in ScanPhases : p \in Operations /\ p \notin Sources
    BY DEF IInv, Sources, Operations, Collections, ScanPhases
  <1>1. ASSUME UNCHANGED ended PROVE SourceFailed' <=> SourceFailed
    BY <1>1 DEF SourceFailed
  <1>2. ASSUME UNCHANGED ended PROVE NoResultWithoutCollection'
    BY <1>0, <1>2 DEF NoResultWithoutCollection
  <1>3. ASSUME UNCHANGED <<plan, ended>>, ~Ended,
               SourceFailed =>
                   /\ printed' = NoCount /\ count' = 0
                   /\ taskCount' = 0 \/ (InCall' /\ Operation \notin ScanPhases /\ child' = "failed")
        PROVE  FailInv' /\ NoResultWithoutCollection'
    <2>1. Operation' = Operation
      BY <1>3 DEF Operation
    <2>2. NoResultWithoutCollection'
      BY <1>2, <1>3
    <2>3. SourceFailed' <=> SourceFailed
      BY <1>1, <1>3
    <2> QED
      BY <1>0, <1>3, <2>1, <2>2, <2>3 DEF FailInv
  <1>4. CASE Still
    <2>1. UNCHANGED <<plan, ended, printed, count, taskCount, child>> /\ (Ended' \/ (~Ended /\ At' = At))
      BY <1>4 DEF Still, Kept
    <2>2. CASE Ended'
      BY <1>2, <2>1, <2>2 DEF FailInv
    <2>3. CASE ~Ended /\ At' = At
      BY <1>0, <1>3, <2>1, <2>3 DEF FailInv, InCall
    <2> QED
      BY <2>1, <2>2, <2>3
  <1>5. CASE PathMissing \/ PathAccepted \/ RemoveTaskDirectory
    <2>1. ~Ended /\ Before
      BY <1>5, Moves DEF Goes, Before
    <2>2. UNCHANGED <<plan, ended>>
      BY <1>5 DEF PathMissing, PathAccepted, RemoveTaskDirectory
    <2>3. ~SourceFailed
      BY <1>0, <2>1 DEF CallInv, SourceFailed
    <2> QED
      BY <1>3, <2>1, <2>2, <2>3
  <1>6. CASE StartChild
    <2>1. ~Ended /\ At = "start"
      BY <1>6, Moves DEF Goes
    <2>2. UNCHANGED <<plan, ended, count, taskCount>> /\ printed' = NoCount /\ count = 0
      BY <1>6, Started
    <2>3. SourceFailed => taskCount = 0
      BY <1>0, <2>1 DEF FailInv, InCall
    <2> QED
      BY <1>3, <2>1, <2>2, <2>3
  <1>7. CASE DrainStdout \/ DrainStderr
    <2>1. ~Ended /\ InCall'
      BY <1>7, Moves DEF Goes, InCall
    <2>2. UNCHANGED <<plan, ended, taskCount, child>>
      BY <1>7 DEF DrainStdout, DrainStderr
    <2>3. SourceFailed => printed' = NoCount /\ count' = 0
      BY <1>0, <1>7, <2>1 DEF FailInv, DrainStdout, DrainStderr
    <2> QED
      BY <1>0, <1>3, <2>1, <2>2, <2>3 DEF FailInv
  <1>8. CASE WaitSucceeds \/ WaitExitError \/ WaitFails
    <2>1. ~Ended /\ InCall'
      BY <1>8, Moves DEF Goes, InCall
    <2>2. UNCHANGED <<plan, ended, taskCount, child, count, printed>>
      BY <1>8 DEF WaitSucceeds, WaitExitError, WaitFails, childVars
    <2> QED
      BY <1>0, <1>3, <2>1, <2>2 DEF FailInv
  <1>9. CASE ProcessFinished
    <2>1. ~Ended /\ At = "start"
      BY <1>9, Moves DEF Goes
    <2>2. UNCHANGED <<plan, ended, taskCount, child, count, printed>>
      BY <1>9 DEF ProcessFinished, childVars
    <2> QED
      BY <1>0, <1>3, <2>1, <2>2 DEF FailInv, InCall
  <1>10. CASE NextOperation
    <2>1. ~Ended
      BY <1>10, Moves DEF Goes
    <2>2. /\ UNCHANGED <<ended, printed>> /\ count' = 0
          /\ taskCount' = (IF Operation \in ScanPhases THEN taskCount ELSE count)
      BY <1>10, Returned
    <2>3. SourceFailed' => printed' = NoCount /\ count' = 0 /\ taskCount' = 0
      BY <1>0, <1>1, <2>1, <2>2 DEF FailInv
    <2>4. \A i \in 1 .. Len(plan') : i + 1 \in 1 .. Len(plan) /\ plan'[i] = plan[i + 1]
      BY <1>10, Returned
    <2>5. /\ \A i \in 1 .. Len(plan') :
                 plan'[i] \in Sources => \A p \in ScanPhases : ended'[p] = "none"
          /\ \A i \in 1 .. Len(plan') :
                 plan'[i] \in Collections => \A o \in Operations \ {plan'[i]} : ended'[o] = "none"
      BY <1>0, <2>1, <2>2, <2>4 DEF FailInv
    <2> QED
      BY <1>2, <2>2, <2>3, <2>5 DEF FailInv
  <1>11. ASSUME NEW o \in Outcomes \cup {"failed"}, ChildOver(o)
         PROVE  /\ \A i \in 1 .. Len(plan') :
                       plan'[i] \in Sources => \A p \in ScanPhases : ended'[p] = "none"
                /\ \A i \in 1 .. Len(plan') :
                       plan'[i] \in Collections => \A x \in Operations \ {plan'[i]} : ended'[x] = "none"
    <2>1. /\ ~Ended /\ plan # <<>> /\ plan' = plan /\ Operation \in Operations
          /\ ended' = [ended EXCEPT ![Operation] = o]
      BY <1>11 DEF ChildOver
    <2>2. Operation = plan[1] /\ Len(plan) \in Nat \ {0} /\ 1 \in 1 .. Len(plan)
      BY <1>0, <2>1, PlanFacts
    <2>3. \A x \in Operations \ {Operation} : ended'[x] = ended[x]
      BY <1>0, <2>1 DEF TypeOK
    <2>4. ASSUME NEW i \in 1 .. Len(plan), plan[i] \in Sources
          PROVE  \A p \in ScanPhases : ended'[p] = "none"
      <3>1. Operation \notin ScanPhases
        BY <1>0, <2>2, <2>4 DEF PlanInv
      <3> QED
        BY <1>0, <2>1, <2>3, <2>4, <3>1 DEF FailInv
    <2>5. ASSUME NEW i \in 1 .. Len(plan), plan[i] \in Collections
          PROVE  \A x \in Operations \ {plan[i]} : ended'[x] = "none"
      <3>1. plan[i] = Operation
        BY <1>0, <2>2, <2>5 DEF PlanInv
      <3> QED
        BY <1>0, <2>1, <2>3, <2>5, <3>1 DEF FailInv
    <2> QED
      BY <2>1, <2>4, <2>5
  <1>12. ASSUME NEW o \in Outcomes, ChildResult(o) PROVE FailInv' /\ NoResultWithoutCollection'
    <2>1. ChildOver(o) /\ o # "failed" /\ o # "none" /\ o \in Outcomes \cup {"failed"}
      <3>1. o \in Outcomes /\ ChildResult(o)
        BY <1>12
      <3> QED
        BY <3>1, ChildOverFacts DEF Outcomes
    <2>2. /\ ~Ended /\ plan # <<>> /\ child = "running" /\ Operation \in Operations
          /\ ended[Operation] = "none" /\ UNCHANGED <<plan, taskCount, count>>
          /\ ended' = [ended EXCEPT ![Operation] = o]
      BY <2>1 DEF ChildOver
    <2>3. SourceFailed' <=> SourceFailed
      BY <1>0, <2>1, <2>2 DEF SourceFailed, TypeOK
    <2>4. SourceFailed => taskCount = 0 /\ printed = NoCount /\ count = 0
      BY <1>0, <2>2 DEF FailInv
    <2>5. Operation = plan[1] /\ 1 \in 1 .. Len(plan)
      BY <1>0, <2>2, PlanFacts
    <2>6. SourceFailed => Operation \in ScanPhases /\ taskCount \notin 1 .. Stored
      <3>1. ASSUME SourceFailed PROVE taskCount \notin 1 .. Stored
        BY <2>4, <3>1
      <3>2. ASSUME SourceFailed PROVE Operation \notin Collections
        <4>1. PICK c \in Sources : ended[c] = "failed"
          BY <3>2 DEF SourceFailed
        <4> QED
          BY <1>0, <2>2, <2>5, <4>1 DEF FailInv
      <3>3. ASSUME SourceFailed, Operation = "download" PROVE FALSE
        BY <1>12, <3>1, <3>3
           DEF ChildResult, CollectionEnds, PrintedErrorEnds, DownloadEnds, ScanEnds, Running, Collections, ScanPhases
      <3> QED
        BY <2>2, <3>1, <3>2, <3>3 DEF Operations
    <2>7. ~SourceFailed
      BY <1>12, <2>6, Results DEF Collections, ScanPhases
    <2>8. FailInv'
      BY <1>11, <2>1, <2>3, <2>7 DEF FailInv
    <2>9. NoResultWithoutCollection'
      BY <2>3, <2>7 DEF NoResultWithoutCollection, SourceFailed, Sources
    <2> QED
      BY <2>8, <2>9
  <1>13. CASE ChildDies
    <2>1. ChildOver("failed")
      BY <1>13, ChildOverFacts
    <2>2. /\ ~Ended /\ plan # <<>> /\ child' = "failed" /\ Operation \in Operations /\ InCall'
          /\ ended[Operation] = "none" /\ UNCHANGED <<plan, taskCount, count>> /\ Operation' = Operation
          /\ ended' = [ended EXCEPT ![Operation] = "failed"]
          /\ count = 0 /\ printed = NoCount /\ printed' = printed /\ child = "running"
      BY <1>13, <2>1 DEF ChildOver, InCall, Operation, ChildDies
    <2>3. Operation = plan[1] /\ 1 \in 1 .. Len(plan)
      BY <1>0, <2>2, PlanFacts
    <2>4. \A x \in Operations \ {Operation} : ended'[x] = ended[x]
      BY <1>0, <2>2 DEF TypeOK
    <2>5. taskCount' = 0 \/ Operation \notin ScanPhases \/ ~SourceFailed'
      <3>1. SUFFICES ASSUME Operation \in ScanPhases, SourceFailed' PROVE taskCount = 0
        BY <2>2
      <3>2. SourceFailed
        BY <1>0, <2>4, <3>1 DEF SourceFailed
      <3> QED
        BY <1>0, <2>2, <3>2 DEF FailInv
    <2>6. FailInv'
      BY <1>11, <2>1, <2>2, <2>5 DEF FailInv
    <2>7. NoResultWithoutCollection'
      <3>1. SUFFICES ASSUME NEW c \in Sources, NEW p \in ScanPhases, ended'[c] = "failed"
                     PROVE  ended'[p] \notin Outcomes
        BY DEF NoResultWithoutCollection, Sources
      <3>2. CASE c = Operation
        <4>1. ended[p] = "none" /\ p # Operation
          BY <1>0, <2>2, <2>3, <3>2 DEF FailInv
        <4> QED
          BY <1>0, <2>4, <4>1 DEF Outcomes
      <3>3. CASE c # Operation
        <4>1. ended[p] \notin Outcomes
          BY <1>0, <2>4, <3>1, <3>3 DEF NoResultWithoutCollection, Sources
        <4> QED
          BY <1>0, <2>2, <2>4, <4>1 DEF Outcomes, TypeOK
      <3> QED
        BY <3>2, <3>3
    <2> QED
      BY <2>6, <2>7
  <1> QED
    BY <1>4, <1>5, <1>6, <1>7, <1>8, <1>9, <1>10, <1>12, <1>13, NextCases, StillSteps
       DEF IInv, FrsStep, ChildMoves, ChildStep

-----------------------------------------------------------------------------
(* Each step preserves the invariant.                                      *)
LEMMA Inductive == IInv /\ [Next]_vars => IInv'
  BY TypeStep, PlanStep, DoneStep, CallStep, StatusStep, SectionStep, CountStep, FailStep DEF IInv

(* The invariant holds in every reachable state.                           *)
LEMMA Invariance == Spec => []IInv
  <1>1. Init => IInv
    BY InitInv
  <1>2. IInv /\ [Next]_vars => IInv'
    BY Inductive
  <1> QED
    BY <1>1, <1>2, PTL DEF Spec

(* TypeOK: the variables keep their types, whatever the children do.       *)
THEOREM FrsTypeCorrect == Spec => []TypeOK
  <1>1. IInv => TypeOK
    BY DEF IInv
  <1> QED
    BY <1>1, Invariance, PTL

(* SuccessTruthful: what frs -scan registers as successful with a master   *)
(* was so, however many masters there are and whenever a child dies.       *)
THEOREM SuccessIsTruthful == Spec => []SuccessTruthful
  <1>1. IInv => SuccessTruthful
    BY DEF IInv
  <1> QED
    BY <1>1, Invariance, PTL

(* SectionsComplete: a phase of a local task that comes to its end writes  *)
(* a complete section, for every number of files, unless entries of an     *)
(* earlier task are left in the database.                                  *)
THEOREM FinishedSectionsComplete == Spec => []SectionsComplete
  <1>1. IInv => SectionsComplete
    BY DEF IInv
  <1> QED
    BY <1>1, Invariance, PTL

(* NoResultWithoutCollection: a collection that failed before it printed   *)
(* its count is followed by no result.                                     *)
THEOREM NothingWithoutCollection == Spec => []NoResultWithoutCollection
  <1>1. IInv => NoResultWithoutCollection
    BY DEF IInv
  <1> QED
    BY <1>1, Invariance, PTL

-----------------------------------------------------------------------------
(* The place of the next master to be told.                                *)
Waiting == Len(masters) - Len(toTell) + 1

(* The masters before the place Waiting know the status being registered,  *)
(* the others agree on an earlier one.                                     *)
MastersInv ==
    /\ frs \in {"telling", "panicked"} =>
           /\ \A i \in 1 .. Len(masters) : i < Waiting => view[masters[i]] = status
           /\ \A i, k \in 1 .. Len(masters) :
                  i >= Waiting /\ k >= Waiting => view[masters[i]] = view[masters[k]]
    /\ frs \notin {"telling", "panicked"} =>
           \A i, k \in 1 .. Len(masters) : view[masters[i]] = view[masters[k]]

(* server.yml names no master twice.                                       *)
Distinct == \A i, k \in 1 .. Len(MasterList) : MasterList[i] = MasterList[k] => i = k

(* Each step preserves what the masters know.                              *)
LEMMA MastersStep ==
    ASSUME Distinct, IInv, MastersInv, [Next]_vars
    PROVE  MastersInv'
  <1>0. /\ TypeOK /\ SeqInv /\ masters' = masters
        /\ masters \in Seq(Range(MasterList)) /\ Len(masters) \in Nat /\ Len(toTell) \in Nat
    BY ConfigStep, MastersType DEF IInv, config, SeqInv
  <1>1. \A i, k \in 1 .. Len(masters) : masters[i] = masters[k] => i = k
    <2>1. masters = <<>> \/ masters = MasterList
      BY <1>0 DEF TypeOK
    <2>2. CASE masters = MasterList
      BY <2>2 DEF Distinct
    <2>3. CASE masters = <<>>
      <3>1. Len(masters) = 0
        BY <2>3
      <3> QED
        BY <3>1
    <2> QED
      BY <2>1, <2>2, <2>3
  <1>2. ASSUME UNCHANGED <<view, status, toTell>>,
               (frs \in {"telling", "panicked"}) <=> (frs' \in {"telling", "panicked"})
        PROVE  MastersInv'
    BY <1>0, <1>2 DEF MastersInv, Waiting
  <1>3. ASSUME NEW s, NEW next, Tell(s, next), frs \notin {"telling", "panicked"} PROVE MastersInv'
    <2>1. frs' = "telling" /\ view' = view /\ toTell' = masters
      BY <1>3 DEF Tell
    <2>2. Waiting' = 1
      BY <1>0, <2>1 DEF Waiting
    <2> QED
      BY <1>0, <1>3, <2>1, <2>2 DEF MastersInv
  <1>4. CASE Registered
    <2>1. /\ frs = "telling" /\ frs' = "telling" /\ toTell # <<>> /\ status' = status
          /\ view' = [view EXCEPT ![Head(toTell)] = status] /\ toTell' = Tail(toTell)
      BY <1>4 DEF Registered
    <2>2. /\ Head(toTell) = masters[Waiting] /\ Waiting \in 1 .. Len(masters)
          /\ Waiting' = Waiting + 1 /\ Head(toTell) \in Range(MasterList)
      BY <1>0, <2>1, TellFacts DEF Waiting
    <2>3. view'[masters[Waiting]] = status
      BY <1>0, <2>1, <2>2 DEF TypeOK
    <2>4. \A i \in 1 .. Len(masters) : i # Waiting => view'[masters[i]] = view[masters[i]]
      <3>1. \A i \in 1 .. Len(masters) : i # Waiting => masters[i] # Head(toTell) /\ masters[i] \in Range(MasterList)
        BY <1>0, <1>1, <2>2
      <3> QED
        BY <1>0, <2>1, <3>1 DEF TypeOK
    <2>5. \A i \in 1 .. Len(masters) : i < Waiting' => view'[masters[i]] = status
      BY <2>1, <2>2, <2>3, <2>4 DEF MastersInv
    <2>6. \A i, k \in 1 .. Len(masters) :
              i >= Waiting' /\ k >= Waiting' => view'[masters[i]] = view'[masters[k]]
      BY <2>1, <2>2, <2>4 DEF MastersInv
    <2> QED
      BY <1>0, <2>1, <2>5, <2>6 DEF MastersInv
  <1>5. CASE RegisterPanics
    BY <1>2, <1>5 DEF RegisterPanics, tellVars
  <1>6. CASE AllTold
    <2>1. Waiting = Len(masters) + 1 /\ frs = "telling" /\ view' = view
      BY <1>0, <1>6, EmptySeq DEF AllTold, tellVars, Waiting
    <2>2. \A i \in 1 .. Len(masters) : view[masters[i]] = status
      BY <1>0, <2>1 DEF MastersInv
    <2>3. frs' \notin {"telling", "panicked"}
      BY <1>0, <1>6 DEF AllTold, TypeOK
    <2> QED
      BY <1>0, <2>1, <2>2, <2>3 DEF MastersInv
  <1>7. CASE PathMissing \/ RemoveTaskDirectory \/ StartChild \/ WaitSucceeds \/ WaitFails \/ ProcessFinished
    <2>1. frs \notin {"telling", "panicked"} /\ \E s, next : Tell(s, next)
      BY <1>7 DEF PathMissing, RemoveTaskDirectory, StartChild, WaitSucceeds, WaitFails, ProcessFinished
    <2> QED
      BY <1>3, <2>1
  <1>8. CASE PathAccepted \/ StartFails \/ DrainStdout \/ DrainStderr \/ WaitExitError \/ NextOperation
    BY <1>2, <1>8 DEF PathAccepted, StartFails, DrainStdout, DrainStderr, WaitExitError, NextOperation, tellVars
  <1>9. CASE UNCHANGED <<frs, tellVars>>
    BY <1>2, <1>9 DEF tellVars
  <1> QED
    BY <1>4, <1>5, <1>6, <1>7, <1>8, <1>9, NextCases, ChildKeeps DEF FrsStep, vars

(* MastersInStep: masters that all have names of their own are never more  *)
(* than one status apart, and never out of order.                          *)
THEOREM MastersStayInStep == Distinct => (Spec => []MastersInStep)
  <1> SUFFICES ASSUME Distinct PROVE Spec => []MastersInStep
    OBVIOUS
  <1>1. Init => MastersInv
    <2> SUFFICES ASSUME Init PROVE MastersInv
      OBVIOUS
    <2>1. \A i \in 1 .. Len(masters) : view[masters[i]] = Nothing
      BY FrsAssumption DEF Init
    <2>2. frs = "check"
      BY DEF Init
    <2> QED
      BY <2>1, <2>2 DEF MastersInv
  <1>2. IInv /\ MastersInv /\ [Next]_vars => MastersInv'
    BY MastersStep
  <1>3. IInv /\ MastersInv => MastersInStep
    <2> SUFFICES ASSUME IInv, MastersInv PROVE MastersInStep
      OBVIOUS
    <2>1. masters \in Seq(Range(MasterList)) /\ DOMAIN masters = 1 .. Len(masters) /\ Waiting \in Int
      BY MastersType DEF IInv, SeqInv, Waiting
    <2>2. ASSUME NEW i \in 1 .. Len(masters), NEW k \in 1 .. Len(masters), i < k,
                 view[masters[i]] # view[masters[k]]
          PROVE  frs \in {"telling", "panicked"} /\ view[masters[i]] = status
      <3>1. frs \in {"telling", "panicked"}
        BY <2>2 DEF MastersInv
      <3>2. i < Waiting
        BY <2>1, <2>2, <3>1 DEF MastersInv
      <3> QED
        BY <3>1, <3>2 DEF MastersInv
    <2> QED
      BY <2>1, <2>2 DEF MastersInStep
  <1> QED
    BY <1>1, <1>2, <1>3, Invariance, PTL DEF Spec
=============================================================================
