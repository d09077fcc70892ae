---------------------------- MODULE FanOutProofs ----------------------------
(***************************************************************************)
(* What the outputs of md5, the walker and the collector cover, for every  *)
(* list of jobs, every number of workers and every capacity.               *)
(*                                                                         *)
(* The program does not change, so each has an invariant of its own.  The  *)
(* jobs of md5 leave the channel in the order of the list: those taken are *)
(* the first Taken ones.  Each counter is the size of a set of them.       *)
(***************************************************************************)
EXTENDS FanOut, FiniteSetTheorems, SequenceTheorems, TLAPS

(* The types, finer than TypeOK.                                           *)
FanOutType ==
    /\ program \in {"md5", "walker", "collector"}
    /\ jobs \in Seq(JobKinds) /\ Goroutines \subseteq AllGoroutines
    /\ next \in 1 .. Len(jobs) + 1
    /\ fileChan \in Seq(Nat) /\ closed \in BOOLEAN
    /\ worker \in [AllGoroutines ->
                     {"idle", "add", "open", "hashed", "counted", "send", "done", "gone"}]
    /\ job \in [AllGoroutines -> Nat] /\ count \in [AllGoroutines -> Nat]
    /\ wg \in Int /\ notFoundPathCount \in Nat /\ checkedCount \in Nat /\ signals \in Nat
    /\ received \in Nat /\ filed \subseteq DOMAIN jobs

-----------------------------------------------------------------------------
(* md5.  Jobs taken from the channel.                                      *)
Taken == next - 1 - Len(fileChan)

(* Workers that have a job.                                                *)
Busy == {w \in Workers : worker[w] # "idle"}

(* Workers that have counted their file and not been received.             *)
InFlight == {w \in Workers : worker[w] \in {"counted", "send"}}

(* Files that were counted: received, or in flight.                        *)
Counted == filed \cup {job[w] : w \in InFlight}

(* Missing files that were taken.                                          *)
TakenMissing == {i \in 1 .. Taken : jobs[i] = "missing"}
(* Missing files in the hand of a worker that has not found it out yet.    *)
PendingMissing == {w \in Workers : worker[w] \in {"add", "open"} /\ jobs[job[w]] = "missing"}

(* A busy worker has a job of its own, and one that has hashed a file has  *)
(* a good one; it is not among the received before the worker is done.     *)
JobsHeld ==
    /\ \A i \in 1 .. Len(fileChan) : fileChan[i] = Taken + i
    /\ Taken \in Nat
    /\ \A w \in Busy : job[w] \in 1 .. Taken
    /\ \A w, v \in Busy : job[w] = job[v] => w = v
    /\ \A w \in Busy : worker[w] # "done" => job[w] \notin filed
    /\ \A w \in Busy : worker[w] \in {"hashed", "counted", "send"} => jobs[job[w]] = "good"
    /\ filed \subseteq Of("good") /\ \A i \in filed : i <= Taken

(* The two counters.                                                       *)
CountersExact ==
    /\ checkedCount = Cardinality(Counted)
    /\ notFoundPathCount + Cardinality(PendingMissing) = Cardinality(TakenMissing)
    /\ \A w \in Workers : count[w] <= checkedCount

(* The report lacks fewer files than there are workers.                    *)
ReportCovers ==
    main \in {"reply", "ended"} =>
        /\ filed # {}
        /\ Cardinality(Of("good") \ filed) < Cardinality(Workers)

(* The invariant of md5.                                                   *)
Md5Inv ==
    program = "md5" =>
        /\ \A w \in Workers : worker[w] # "gone"
        /\ JobsHeld /\ CountersExact /\ ReportCovers

(* What the consumer of md5 compares: if the value it has is still that of *)
(* the counter, then the worker it is from has counted no file since.      *)
MessageInv ==
    program = "md5" /\ main = "compare" =>
        /\ filed # {} /\ received <= checkedCount
        /\ received = checkedCount => Cardinality(InFlight) < Cardinality(Workers)

-----------------------------------------------------------------------------
(* The walker: each file met is compared or in the hand of a worker.       *)
Comparing == {w \in Workers : worker[w] = "open"}
(* Workers of the walker that have signalled.                              *)
Gone == {w \in Workers : worker[w] = "gone"}

(* The invariant of the walker.                                            *)
WalkerInv ==
    program = "walker" =>
        /\ \A w \in Workers : worker[w] \in {"idle", "open", "gone"}
        /\ filed \cup {job[w] : w \in Comparing} = {i \in 1 .. next - 1 : jobs[i] = "file"}
        /\ signals = Cardinality(Gone)
        /\ closed => next = Len(jobs) + 1
        /\ Gone # {} => closed
        /\ main = "ended" => signals = Cardinality(Workers)

(* The collector: the downloads under way, which the wait group counts.    *)
Left == {i \in DOMAIN jobs : worker[i] = "idle"}

(* The invariant of the collector.                                         *)
CollectorInv ==
    program = "collector" =>
        /\ \A i \in DOMAIN jobs : worker[i] \in {"idle", "gone"}
        /\ filed = Of("ok") \ Left
        /\ main \in {"start", "wait", "panicked", "failed", "ended"}
        /\ main = "start" => Left = DOMAIN jobs
        /\ main = "wait" => wg = Cardinality(Left)
        /\ main = "ended" => Left = {}

(* The inductive invariant of FanOut.                                      *)
FInv == FanOutType /\ Md5Inv /\ MessageInv /\ WalkerInv /\ CollectorInv

-----------------------------------------------------------------------------
(* Finite sets: the workers, the jobs, and their parts.                    *)
LEMMA Finite ==
    /\ IsFiniteSet(Workers) /\ Cardinality(Workers) \in Nat
    /\ \A S \in SUBSET Workers : IsFiniteSet(S) /\ Cardinality(S) \in Nat
    /\ FanOutType => /\ IsFiniteSet(DOMAIN jobs) /\ Cardinality(DOMAIN jobs) = Len(jobs)
                     /\ \A S \in SUBSET DOMAIN jobs : IsFiniteSet(S) /\ Cardinality(S) \in Nat
  <1>1. IsFiniteSet(Workers) /\ Cardinality(Workers) \in Nat
    BY FanOutAssumption, FS_CardinalityType
  <1>2. \A S \in SUBSET Workers : IsFiniteSet(S) /\ Cardinality(S) \in Nat
    BY <1>1, FS_Subset, FS_CardinalityType
  <1>3. ASSUME FanOutType
        PROVE  IsFiniteSet(DOMAIN jobs) /\ Cardinality(DOMAIN jobs) = Len(jobs)
    <2>1. DOMAIN jobs = 1 .. Len(jobs) /\ Len(jobs) \in Nat
      BY <1>3 DEF FanOutType
    <2> DEFINE n == Len(jobs)
    <2> HIDE DEF n
    <2>2. n \in Nat
      BY <2>1 DEF n
    <2>3. IsFiniteSet(1 .. n) /\ Cardinality(1 .. n) = IF 1 > n THEN 0 ELSE n - 1 + 1
      BY <2>2, FS_Interval
    <2>4. IsFiniteSet(1 .. n) /\ Cardinality(1 .. n) = n
      BY <2>2, <2>3
    <2> QED
      BY <2>1, <2>4 DEF n
  <1>4. ASSUME FanOutType, NEW S \in SUBSET DOMAIN jobs
        PROVE  IsFiniteSet(S) /\ Cardinality(S) \in Nat
    BY <1>3, <1>4, FS_Subset, FS_CardinalityType
  <1> QED
    BY <1>1, <1>2, <1>3, <1>4

(* The goroutines of md5 and of the walker are the workers.                *)
LEMMA WorkersKnown ==
    ASSUME FanOutType
    PROVE  /\ Workers \subseteq AllGoroutines
           /\ program # "collector" => Goroutines = Workers
           /\ program = "collector" => Goroutines = DOMAIN jobs
           /\ DOMAIN jobs = 1 .. Len(jobs) /\ Len(jobs) \in Nat /\ Len(fileChan) \in Nat
  BY DEF FanOutType, Goroutines, AllGoroutines

(* The invariant holds at the start.                                       *)
LEMMA InitInv == Init => FInv
  <1> SUFFICES ASSUME Init PROVE FInv
    OBVIOUS
  <1>1. PICK s \in Starts : program = s.program /\ jobs = s.jobs
    BY DEF Init
  <1>2. program \in {"md5", "walker", "collector"} /\ jobs \in Seq(JobKinds)
    BY <1>1, FanOutAssumption
  <1>3. DOMAIN jobs \subseteq AllGoroutines /\ Workers \subseteq AllGoroutines
    BY <1>1 DEF AllGoroutines
  <1>4. FanOutType
    <2>1. next \in 1 .. Len(jobs) + 1 /\ fileChan \in Seq(Nat)
      BY <1>2 DEF Init
    <2> QED
      <3>1. Goroutines \subseteq AllGoroutines
        BY <1>3 DEF Goroutines
      <3>2. /\ worker = [w \in AllGoroutines |-> "idle"] /\ job = [w \in AllGoroutines |-> 0]
            /\ count = [w \in AllGoroutines |-> 0] /\ closed = FALSE
        BY DEF Init
      <3>3. worker \in [AllGoroutines -> {"idle", "add", "open", "hashed", "counted", "send", "done", "gone"}]
        BY <3>2
      <3>4. job \in [AllGoroutines -> Nat] /\ count \in [AllGoroutines -> Nat]
        BY <3>2
      <3>5. /\ closed \in BOOLEAN /\ filed \subseteq DOMAIN jobs
            /\ wg \in Int /\ notFoundPathCount \in Nat /\ checkedCount \in Nat /\ signals \in Nat
            /\ received \in Nat
        <4>1. closed = FALSE
          BY DEF Init
        <4>2. /\ filed = {} /\ wg = 0 /\ notFoundPathCount = 0 /\ checkedCount = 0 /\ signals = 0
              /\ received = 0
          BY DEF Init
        <4>3. closed \in BOOLEAN
          BY <4>1
        <4> QED
          BY <4>2, <4>3
      <3> QED
        BY <1>2, <2>1, <3>1, <3>3, <3>4, <3>5 DEF FanOutType
  <1>5. Len(fileChan) = 0 /\ next = 1
    BY DEF Init
  <1>6. Md5Inv
    <2>1. Busy = {} /\ InFlight = {} /\ PendingMissing = {} /\ filed = {} /\ Counted = {}
      BY <1>3 DEF Init, Busy, InFlight, PendingMissing, Counted
    <2>2. Taken = 0 /\ TakenMissing = {}
      BY <1>5 DEF Taken, TakenMissing
    <2>3. \A w \in Workers : worker[w] = "idle" /\ count[w] = 0
      BY <1>3 DEF Init
    <2>4. JobsHeld
      BY <1>5, <2>1, <2>2, <2>3 DEF JobsHeld
    <2>5. CountersExact
      BY <2>1, <2>2, <2>3, FS_EmptySet DEF CountersExact, Init
    <2>6. ReportCovers
      BY DEF ReportCovers, Init
    <2> QED
      BY <2>3, <2>4, <2>5, <2>6 DEF Md5Inv
  <1>7. WalkerInv
    <2>1. \A w \in Workers : worker[w] = "idle"
      BY <1>3 DEF Init
    <2>2. Comparing = {} /\ Gone = {} /\ filed = {}
      BY <2>1 DEF Comparing, Gone, Init
    <2>3. {i \in 1 .. next - 1 : jobs[i] = "file"} = {}
      BY <1>5
    <2> QED
      BY <2>1, <2>2, <2>3, FS_EmptySet DEF WalkerInv, Init
  <1>8. CollectorInv
    <2>1. \A i \in DOMAIN jobs : worker[i] = "idle"
      BY <1>3 DEF Init
    <2>2. Left = DOMAIN jobs /\ filed = {}
      BY <2>1 DEF Left, Init
    <2> QED
      BY <2>1, <2>2 DEF CollectorInv, Init, Of
  <1>9. MessageInv
    BY DEF MessageInv, Init
  <1> QED
    BY <1>4, <1>6, <1>7, <1>8, <1>9 DEF FInv

-----------------------------------------------------------------------------
(* What each worker is about.                                              *)
States == {"idle", "add", "open", "hashed", "counted", "send", "done", "gone"}

(* The parts of the types: the program and its channel.                    *)
JobsType ==
    /\ program \in {"md5", "walker", "collector"}
    /\ jobs \in Seq(JobKinds) /\ Goroutines \subseteq AllGoroutines
    /\ next \in 1 .. Len(jobs) + 1
    /\ fileChan \in Seq(Nat) /\ closed \in BOOLEAN
(* The counters and what was received.                                     *)
SumType ==
    /\ wg \in Int /\ notFoundPathCount \in Nat /\ checkedCount \in Nat /\ signals \in Nat
    /\ received \in Nat /\ filed \subseteq DOMAIN jobs
(* The goroutines.                                                         *)
WorkType ==
    /\ worker \in [AllGoroutines -> States]
    /\ job \in [AllGoroutines -> Nat] /\ count \in [AllGoroutines -> Nat]

(* They make up the types.                                                 *)
LEMMA TypeParts == FanOutType <=> JobsType /\ SumType /\ WorkType
  BY DEF FanOutType, JobsType, SumType, WorkType, States

(* The steps, and what does not change in any of them.                     *)
LEMMA StepCases ==
    ASSUME [Next]_vars
    PROVE  /\ program' = program /\ jobs' = jobs
           /\ \/ UNCHANGED vars
              \/ /\ program = "md5"
                 /\ \/ countLines \/ ReadLine \/ Wait \/ WaitReturns \/ CompareCount \/ AllAsleep \/ WriteReport
                    \/ \E w \in Goroutines :
                          \/ TakeLine(w) \/ AddWorker(w) \/ OpenFile(w) \/ CountFile(w)
                          \/ MakeMessage(w) \/ ReceiveMD5(w) \/ DoneWorker(w)
              \/ /\ program = "walker"
                 /\ \/ StartWalk \/ Walk \/ CloseFiles
                    \/ \E w \in Goroutines : CompareExtension(w) \/ Signal(w)
              \/ /\ program = "collector"
                 /\ \/ sendLogCollect \/ zipFiles
                    \/ \E w \in Goroutines : downloadRequest(w)
  <1>1. CASE MainStep
    BY <1>1 DEF MainStep, countLines, ReadLine, Wait, WaitReturns, CompareCount, AllAsleep, WriteReport, StartWalk,
                Walk, CloseFiles, sendLogCollect, zipFiles
  <1>2. ASSUME NEW w \in AllGoroutines, WorkerStep(w)
        PROVE  /\ w \in Goroutines /\ program' = program /\ jobs' = jobs
               /\ \/ /\ program = "md5"
                     /\ \/ TakeLine(w) \/ AddWorker(w) \/ OpenFile(w) \/ CountFile(w)
                        \/ MakeMessage(w) \/ ReceiveMD5(w) \/ DoneWorker(w)
                  \/ program = "walker" /\ (CompareExtension(w) \/ Signal(w))
                  \/ program = "collector" /\ downloadRequest(w)
    BY <1>2 DEF WorkerStep, At, TakeLine, AddWorker, OpenFile, CountFile, MakeMessage, ReceiveMD5,
                DoneWorker, CompareExtension, Signal, downloadRequest
  <1>3. CASE UNCHANGED vars
    BY <1>3 DEF vars
  <1> QED
    BY <1>1, <1>2, <1>3 DEF Next, Step, Poll, Terminated

(* The job of a worker that has hashed, or of one that compares.           *)
LEMMA JobKnown ==
    ASSUME FInv, NEW w \in Workers,
           \/ program = "md5" /\ worker[w] \notin {"idle", "gone"}
           \/ program = "walker" /\ worker[w] = "open"
    PROVE  job[w] \in DOMAIN jobs
  <1>1. /\ DOMAIN jobs = 1 .. Len(jobs) /\ Len(jobs) \in Nat /\ Len(fileChan) \in Nat
        /\ next \in 1 .. Len(jobs) + 1
    BY DEF FInv, FanOutType
  <1>2. CASE program = "md5" /\ worker[w] \notin {"idle", "gone"}
    <2>1. job[w] \in 1 .. Taken
      BY <1>2 DEF FInv, Md5Inv, JobsHeld, Busy
    <2> QED
      BY <1>1, <2>1 DEF Taken
  <1>3. CASE program = "walker" /\ worker[w] = "open"
    <2>1. job[w] \in {i \in 1 .. next - 1 : jobs[i] = "file"}
      BY <1>3 DEF FInv, WalkerInv, Comparing
    <2> QED
      BY <1>1, <2>1
  <1> QED
    BY <1>2, <1>3

(* Each step preserves the types.                                          *)
LEMMA TypeStep ==
    ASSUME FInv, [Next]_vars
    PROVE  FanOutType'
  <1>0. /\ DOMAIN jobs = 1 .. Len(jobs) /\ Len(jobs) \in Nat
        /\ JobsType /\ SumType /\ WorkType /\ FanOutType
    BY TypeParts DEF FanOutType, FInv
  <1>1. program' = program /\ jobs' = jobs
    BY StepCases
  <1>2. JobsType'
    <2>1. Goroutines' \subseteq AllGoroutines
      BY <1>0, <1>1 DEF JobsType, Goroutines
    <2>2. CASE UNCHANGED <<next, fileChan, closed>>
      BY <1>0, <1>1, <2>1, <2>2 DEF JobsType
    <2>3. CASE ReadLine
      <3>1. CASE next > Len(jobs)
        BY <1>0, <1>1, <2>1, <2>3, <3>1 DEF JobsType, ReadLine
      <3>2. CASE next <= Len(jobs)
        <4>1. fileChan' = Append(fileChan, next) /\ next' = next + 1 /\ closed' = closed
          BY <1>0, <2>3, <3>2 DEF JobsType, ReadLine
        <4>2. fileChan' \in Seq(Nat) /\ next' \in 1 .. Len(jobs) + 1
          BY <1>0, <3>2, <4>1 DEF JobsType
        <4> QED
          BY <1>0, <1>1, <2>1, <4>1, <4>2 DEF JobsType
      <3> QED
        BY <1>0, <3>1, <3>2 DEF JobsType
    <2>4. ASSUME NEW w \in Goroutines, TakeLine(w) PROVE JobsType'
      <3>1. fileChan' = Tail(fileChan) /\ next' = next /\ closed' = closed /\ Tail(fileChan) \in Seq(Nat)
        BY <1>0, <2>4, HeadTailProperties DEF JobsType, TakeLine
      <3> QED
        BY <1>0, <1>1, <2>1, <3>1 DEF JobsType
    <2>5. CASE Walk
      <3>1. next' = next + 1 /\ next <= Len(jobs) /\ UNCHANGED <<fileChan, closed>>
        BY <2>5 DEF Walk
      <3> QED
        BY <1>0, <1>1, <2>1, <3>1 DEF JobsType
    <2>6. CASE CloseFiles
      BY <1>0, <1>1, <2>1, <2>6 DEF JobsType, CloseFiles
    <2>7. \/ UNCHANGED <<next, fileChan, closed>> \/ ReadLine \/ Walk \/ CloseFiles
          \/ \E w \in Goroutines : TakeLine(w)
      BY StepCases DEF vars, jobVars, countLines, Wait, WaitReturns, CompareCount, AllAsleep, WriteReport, AddWorker, OpenFile,
           CountFile, MakeMessage, ReceiveMD5, DoneWorker, StartWalk, CompareExtension, Signal,
           sendLogCollect, zipFiles, downloadRequest
    <2> QED
      BY <2>2, <2>3, <2>4, <2>5, <2>6, <2>7
  <1>3. WorkType'
    <2> DEFINE Changes ==
                 /\ \E w \in Goroutines, s \in States : worker' = [worker EXCEPT ![w] = s]
                 /\ job' = job \/ \E w \in Goroutines, j \in Nat : job' = [job EXCEPT ![w] = j]
                 /\ count' = count \/ \E w \in Goroutines, n \in Nat : count' = [count EXCEPT ![w] = n]
    <2>1. UNCHANGED workVars \/ Changes
      <3>1. CASE UNCHANGED vars \/ countLines \/ ReadLine \/ Wait \/ WaitReturns \/ CompareCount \/ AllAsleep \/ WriteReport
                 \/ StartWalk \/ CloseFiles \/ sendLogCollect \/ zipFiles
        BY <3>1 DEF vars, workVars, countLines, ReadLine, Wait, WaitReturns, CompareCount, AllAsleep, WriteReport,
                    StartWalk, CloseFiles, sendLogCollect, zipFiles
      <3>2. ASSUME NEW w \in Goroutines, TakeLine(w) PROVE Changes
        <4>1. /\ worker' = [worker EXCEPT ![w] = "add"] /\ count' = count
              /\ job' = [job EXCEPT ![w] = Head(fileChan)] /\ Head(fileChan) \in Nat
          BY <1>0, <3>2, HeadTailProperties DEF JobsType, TakeLine, Go
        <4> QED
          BY <4>1 DEF States
      <3>3. ASSUME NEW w \in Goroutines, OpenFile(w) PROVE Changes
        <4>1. /\ worker' = [worker EXCEPT ![w] = "hashed"] \/ worker' = [worker EXCEPT ![w] = "done"]
              /\ job' = job /\ count' = count
          BY <3>3 DEF OpenFile, Go
        <4> QED
          BY <4>1 DEF States
      <3>4. ASSUME NEW w \in Goroutines, AddWorker(w) \/ CountFile(w) \/ ReceiveMD5(w) \/ Signal(w) \/ downloadRequest(w)
            PROVE  Changes
        BY <3>4 DEF AddWorker, CountFile, ReceiveMD5, Signal, downloadRequest, Go, States
      <3>5. ASSUME NEW w \in Goroutines, MakeMessage(w) PROVE Changes
        <4>1. worker' = [worker EXCEPT ![w] = "send"] /\ job' = job /\ count' = [count EXCEPT ![w] = checkedCount]
          BY <3>5 DEF MakeMessage, Go
        <4> QED
          BY <1>0, <4>1 DEF States, SumType
      <3>6. ASSUME NEW w \in Goroutines, DoneWorker(w) PROVE Changes
        <4>1. worker' = [worker EXCEPT ![w] = "idle"] /\ job' = [job EXCEPT ![w] = 0] /\ count' = [count EXCEPT ![w] = 0]
          BY <3>6 DEF DoneWorker, Go
        <4> QED
          BY <4>1 DEF States
      <3>7. ASSUME NEW w \in Goroutines, CompareExtension(w) PROVE Changes
        <4>1. worker' = [worker EXCEPT ![w] = "idle"] /\ job' = [job EXCEPT ![w] = 0] /\ count' = count
          BY <3>7 DEF CompareExtension, Go
        <4> QED
          BY <4>1 DEF States
      <3>8. CASE Walk
        <4>1. \/ UNCHANGED workVars
              \/ \E w \in Goroutines : /\ worker' = [worker EXCEPT ![w] = "open"]
                                       /\ job' = [job EXCEPT ![w] = next] /\ count' = count
          BY <3>8 DEF Walk, Go, At, workVars
        <4>2. next \in Nat
          BY <1>0 DEF JobsType
        <4> QED
          BY <4>1, <4>2 DEF States
      <3> QED
        BY StepCases, <3>1, <3>2, <3>3, <3>4, <3>5, <3>6, <3>7, <3>8
    <2>2. Goroutines \subseteq AllGoroutines
      BY <1>0 DEF JobsType
    <2> QED
      BY <1>0, <2>1, <2>2 DEF WorkType, workVars
  <1>4. SumType'
    <2>1. CASE UNCHANGED sumVars
      BY <1>0, <1>1, <2>1 DEF SumType, sumVars
    <2>2. ASSUME NEW w \in Goroutines, AddWorker(w) \/ OpenFile(w) \/ CountFile(w) \/ DoneWorker(w) \/ Signal(w)
          PROVE  SumType'
      BY <1>0, <1>1, <2>2 DEF SumType, AddWorker, OpenFile, CountFile, DoneWorker, Signal
    <2>3. CASE sendLogCollect
      BY <1>0, <1>1, <2>3 DEF SumType, sendLogCollect
    <2>4. ASSUME NEW w \in Goroutines, ReceiveMD5(w) \/ CompareExtension(w) PROVE SumType'
      <3>1. job[w] \in DOMAIN jobs /\ count[w] \in Nat
        BY <1>0, <2>4, WorkersKnown, JobKnown DEF ReceiveMD5, CompareExtension, At, FanOutType
      <3>2. /\ filed' = filed \cup {job[w]} /\ UNCHANGED <<wg, notFoundPathCount, checkedCount, signals>>
            /\ received' \in {received, count[w]}
        BY <2>4 DEF ReceiveMD5, CompareExtension
      <3> QED
        BY <1>0, <1>1, <3>1, <3>2 DEF SumType
    <2>5. ASSUME NEW w \in Goroutines, downloadRequest(w) PROVE SumType'
      <3>1. w \in DOMAIN jobs
        BY <1>0, <2>5, WorkersKnown DEF downloadRequest, At
      <3> QED
        BY <1>0, <1>1, <2>5, <3>1 DEF SumType, downloadRequest
    <2>7. CASE CompareCount
      BY <1>0, <1>1, <2>7 DEF SumType, CompareCount
    <2>6. \/ UNCHANGED sumVars \/ sendLogCollect \/ CompareCount
          \/ \E w \in Goroutines :
                \/ AddWorker(w) \/ OpenFile(w) \/ CountFile(w) \/ DoneWorker(w) \/ Signal(w)
                \/ ReceiveMD5(w) \/ CompareExtension(w) \/ downloadRequest(w)
      BY StepCases DEF vars, sumVars, countLines, ReadLine, Wait, WaitReturns, CompareCount, AllAsleep, WriteReport, TakeLine,
           MakeMessage, StartWalk, Walk, CloseFiles, zipFiles
    <2> QED
      BY <2>1, <2>2, <2>3, <2>4, <2>5, <2>6, <2>7
  <1> QED
    BY <1>2, <1>3, <1>4 DEF FanOutType, JobsType, SumType, WorkType, States

-----------------------------------------------------------------------------
(* Each step of the walker preserves its invariant.                        *)
LEMMA WalkerStep ==
    ASSUME FInv, [Next]_vars, program = "walker"
    PROVE  WalkerInv'
  <1> DEFINE Met == {i \in 1 .. next - 1 : jobs[i] = "file"}
             Hand == {job[w] : w \in Comparing}
  <1>0. /\ FanOutType /\ program' = program /\ jobs' = jobs /\ Workers \subseteq AllGoroutines
        /\ Goroutines = Workers /\ Len(jobs) \in Nat
        /\ worker \in [AllGoroutines -> States] /\ job \in [AllGoroutines -> Nat]
        /\ next \in 1 .. Len(jobs) + 1
    BY StepCases, WorkersKnown DEF FInv, FanOutType, States
  <1>1. /\ \A w \in Workers : worker[w] \in {"idle", "open", "gone"}
        /\ filed \cup Hand = Met
        /\ signals = Cardinality(Gone)
        /\ closed => next = Len(jobs) + 1
        /\ Gone # {} => closed
        /\ main = "ended" => signals = Cardinality(Workers)
    BY DEF FInv, WalkerInv
  <1>2. ASSUME UNCHANGED <<worker, job, filed, signals>>, Met' = Met,
               closed' => next' = Len(jobs) + 1, closed => closed',
               main' = "ended" => main = "ended"
        PROVE  WalkerInv'
    <2>1. Comparing' = Comparing /\ Gone' = Gone
      BY <1>2 DEF Comparing, Gone
    <2>2. Hand' = Hand
      BY <1>2, <2>1
    <2> HIDE DEF Met, Hand
    <2>3. filed' \cup Hand' = Met' /\ signals' = Cardinality(Gone')
      BY <1>1, <1>2, <2>1, <2>2
    <2> USE DEF Met, Hand
    <2>4. (Gone # {} => closed)' /\ (main = "ended" => signals = Cardinality(Workers))'
      BY <1>1, <1>2, <2>1
    <2> QED
      BY <1>0, <1>1, <1>2, <2>3, <2>4 DEF WalkerInv
  <1>3. CASE UNCHANGED vars
    BY <1>1, <1>2, <1>3 DEF vars, jobVars, workVars, sumVars
  <1>4. CASE StartWalk
    BY <1>1, <1>2, <1>4 DEF StartWalk, jobVars, workVars, sumVars
  <1>5. CASE CloseFiles
    BY <1>0, <1>2, <1>5 DEF CloseFiles, workVars, sumVars
  <1>6. CASE Walk
    <2>1. ~closed /\ next <= Len(jobs) /\ next' = next + 1 /\ closed' = closed /\ filed' = filed /\ signals' = signals
      BY <1>6 DEF Walk, sumVars
    <2>2. CASE jobs[next] # "file"
      <3>1. UNCHANGED <<worker, job>> /\ main' # "ended"
        BY <1>6, <2>2 DEF Walk, workVars, Running
      <3>2. Met' = Met
        BY <1>0, <2>1, <2>2
      <3> QED
        BY <1>2, <2>1, <3>1, <3>2
    <2>3. CASE jobs[next] = "file"
      <3>1. PICK w \in Workers : /\ worker[w] = "idle" /\ job' = [job EXCEPT ![w] = next]
                                 /\ worker' = [worker EXCEPT ![w] = "open"] /\ main' # "ended"
        BY <1>6, <2>3 DEF Walk, At, Go, Running
      <3>2. Met' = Met \cup {next}
        BY <1>0, <2>1, <2>3
      <3>3. Comparing' = Comparing \cup {w} /\ w \notin Comparing /\ Gone' = Gone
        BY <1>0, <3>1 DEF Comparing, Gone
      <3>4. \A v \in Comparing : job'[v] = job[v]
        BY <1>0, <3>1, <3>3 DEF Comparing
      <3>5. job'[w] = next
        BY <1>0, <3>1
      <3>6. Hand' = Hand \cup {next}
        BY <3>3, <3>4, <3>5
      <3>7. filed' \cup Hand' = Met'
        BY <1>1, <2>1, <3>2, <3>6
      <3>8. \A v \in Workers : worker'[v] \in {"idle", "open", "gone"}
        BY <1>0, <1>1, <3>1
      <3> QED
        BY <1>0, <1>1, <2>1, <3>1, <3>3, <3>7, <3>8 DEF WalkerInv
    <2> QED
      BY <2>2, <2>3
  <1>7. ASSUME NEW w \in Workers, CompareExtension(w) PROVE WalkerInv'
    <2>1. /\ worker[w] = "open" /\ worker' = [worker EXCEPT ![w] = "idle"] /\ main' = main /\ main # "ended"
          /\ filed' = filed \cup {job[w]} /\ job' = [job EXCEPT ![w] = 0] /\ UNCHANGED <<next, closed, signals>>
      BY <1>7 DEF CompareExtension, At, Go, jobVars, Running
    <2>2. Comparing' = Comparing \ {w} /\ w \in Comparing /\ Gone' = Gone
      BY <1>0, <2>1 DEF Comparing, Gone
    <2>3. \A v \in Comparing \ {w} : job'[v] = job[v]
      BY <1>0, <2>1 DEF Comparing
    <2>4. filed' \cup Hand' = filed \cup Hand
      BY <2>1, <2>2, <2>3
    <2>5. Met' = Met
      BY <1>0, <2>1
    <2>6. \A v \in Workers : worker'[v] \in {"idle", "open", "gone"}
      BY <1>0, <1>1, <2>1
    <2> QED
      BY <1>0, <1>1, <2>1, <2>2, <2>4, <2>5, <2>6 DEF WalkerInv
  <1>8. ASSUME NEW w \in Workers, Signal(w) PROVE WalkerInv'
    <2>1. /\ worker[w] = "idle" /\ worker' = [worker EXCEPT ![w] = "gone"] /\ closed /\ main # "ended"
          /\ UNCHANGED <<next, closed, filed, job>> /\ signals' = signals + 1
          /\ main' = "ended" => signals' = Cardinality(Workers)
      BY <1>8 DEF Signal, At, Go, jobVars, Running
    <2>2. Comparing' = Comparing /\ Gone' = Gone \cup {w} /\ w \notin Gone
      BY <1>0, <2>1 DEF Comparing, Gone
    <2>3. Hand' = Hand /\ Met' = Met
      BY <1>0, <2>1, <2>2
    <2>4. Cardinality(Gone') = Cardinality(Gone) + 1
      <3>1. Gone \in SUBSET Workers
        BY DEF Gone
      <3> QED
        BY <2>2, <3>1, Finite, FS_AddElement
    <2>5. \A v \in Workers : worker'[v] \in {"idle", "open", "gone"}
      BY <1>0, <1>1, <2>1
    <2> QED
      BY <1>0, <1>1, <2>1, <2>3, <2>4, <2>5 DEF WalkerInv
  <1> QED
    BY <1>0, <1>3, <1>4, <1>5, <1>6, <1>7, <1>8, StepCases

(* Each step of the collector preserves its invariant.                     *)
LEMMA CollectorStep ==
    ASSUME FInv, [Next]_vars, program = "collector"
    PROVE  CollectorInv'
  <1>0. /\ FanOutType /\ program' = program /\ jobs' = jobs /\ Goroutines = DOMAIN jobs
        /\ DOMAIN jobs \subseteq AllGoroutines /\ worker \in [AllGoroutines -> States]
    BY StepCases, WorkersKnown DEF FInv, FanOutType, States
  <1>1. /\ \A i \in DOMAIN jobs : worker[i] \in {"idle", "gone"}
        /\ filed = Of("ok") \ Left
        /\ main \in {"start", "wait", "panicked", "failed", "ended"}
        /\ main = "start" => Left = DOMAIN jobs
        /\ main = "wait" => wg = Cardinality(Left)
        /\ main = "ended" => Left = {}
    BY DEF FInv, CollectorInv
  <1>2. /\ IsFiniteSet(Left) /\ Cardinality(Left) \in Nat
        /\ Cardinality(DOMAIN jobs) = Len(jobs)
    BY <1>0, Finite DEF Left
  <1>3. ASSUME UNCHANGED <<worker, filed>> PROVE Left' = Left /\ Of("ok")' = Of("ok")
    BY <1>0, <1>3 DEF Left, Of
  <1>4. CASE UNCHANGED vars
    BY <1>0, <1>1, <1>3, <1>4 DEF CollectorInv, vars, workVars, sumVars
  <1>5. CASE sendLogCollect
    <2>1. /\ main = "start" /\ UNCHANGED <<worker, filed>>
          /\ main' = "failed" \/ (main' = "wait" /\ wg' = Len(jobs))
      BY <1>5 DEF sendLogCollect, workVars
    <2> QED
      BY <1>0, <1>1, <1>2, <1>3, <2>1 DEF CollectorInv
  <1>6. CASE zipFiles
    <2>1. main = "wait" /\ wg = 0 /\ main' \in {"ended", "failed"} /\ UNCHANGED <<worker, filed>>
      BY <1>6 DEF zipFiles, workVars, sumVars
    <2>2. Left = {}
      BY <1>1, <1>2, <2>1, FS_EmptySet
    <2> QED
      BY <1>0, <1>1, <1>3, <2>1, <2>2 DEF CollectorInv
  <1>7. ASSUME NEW i \in DOMAIN jobs, downloadRequest(i) PROVE CollectorInv'
    <2>1. /\ worker[i] = "idle" /\ worker' = [worker EXCEPT ![i] = "gone"] /\ wg' = wg - 1
          /\ filed' = IF jobs[i] = "ok" THEN filed \cup {i} ELSE filed
          /\ main' \in {main, "panicked"} /\ main = "wait"
      BY <1>1, <1>7 DEF downloadRequest, At, Go, Answered, Running
    <2>2. Left' = Left \ {i} /\ i \in Left
      BY <1>0, <2>1 DEF Left
    <2>3. Cardinality(Left') = Cardinality(Left) - 1
      BY <1>2, <2>2, FS_RemoveElement
    <2>4. filed' = (Of("ok") \ Left)'
      BY <1>0, <1>1, <2>1, <2>2 DEF Of
    <2>5. \A k \in DOMAIN jobs : worker'[k] \in {"idle", "gone"}
      BY <1>0, <1>1, <2>1
    <2> QED
      BY <1>0, <1>1, <2>1, <2>3, <2>4, <2>5 DEF CollectorInv
  <1> QED
    BY <1>0, <1>4, <1>5, <1>6, <1>7, StepCases

-----------------------------------------------------------------------------
(* What can be used of the state of md5 in a step of it.                   *)
LEMMA Md5Facts ==
    ASSUME FInv, [Next]_vars, program = "md5"
    PROVE  /\ program' = program /\ jobs' = jobs /\ Goroutines = Workers
           /\ \A w \in Workers : worker[w] \in States /\ worker[w] # "gone"
           /\ worker \in [AllGoroutines -> States] /\ job \in [AllGoroutines -> Nat]
           /\ count \in [AllGoroutines -> Nat] /\ Workers \subseteq AllGoroutines
           /\ DOMAIN jobs = 1 .. Len(jobs) /\ Len(jobs) \in Nat
           /\ fileChan \in Seq(Nat) /\ Len(fileChan) \in Nat
           /\ next \in 1 .. Len(jobs) + 1
           /\ notFoundPathCount \in Nat /\ checkedCount \in Nat /\ filed \subseteq DOMAIN jobs
           /\ JobsHeld /\ CountersExact /\ ReportCovers
           /\ 1 .. Taken \subseteq DOMAIN jobs
  <1>1. FanOutType
    BY DEF FInv
  <1>2. /\ worker \in [AllGoroutines -> States] /\ job \in [AllGoroutines -> Nat]
        /\ count \in [AllGoroutines -> Nat] /\ Workers \subseteq AllGoroutines
        /\ DOMAIN jobs = 1 .. Len(jobs) /\ Len(jobs) \in Nat /\ Len(fileChan) \in Nat
        /\ fileChan \in Seq(Nat) /\ next \in 1 .. Len(jobs) + 1 /\ Goroutines = Workers
        /\ notFoundPathCount \in Nat /\ checkedCount \in Nat /\ filed \subseteq DOMAIN jobs
    BY <1>1, WorkersKnown DEF FanOutType, States
  <1>3. 1 .. Taken \subseteq DOMAIN jobs
    BY <1>2 DEF Taken
  <1> QED
    BY <1>2, <1>3, StepCases DEF FInv, Md5Inv

(* The sets that are counted are finite.                                   *)
LEMMA Md5Finite ==
    ASSUME FInv, [Next]_vars, program = "md5"
    PROVE  /\ Counted \subseteq Of("good") /\ IsFiniteSet(Counted) /\ Cardinality(Counted) \in Nat
           /\ IsFiniteSet(TakenMissing) /\ Cardinality(TakenMissing) \in Nat
           /\ IsFiniteSet(PendingMissing) /\ Cardinality(PendingMissing) \in Nat
           /\ \A k \in JobKinds : IsFiniteSet(Of(k)) /\ Cardinality(Of(k)) \in Nat
  <1>1. /\ FanOutType /\ 1 .. Taken \subseteq DOMAIN jobs /\ JobsHeld
        /\ \A w \in Workers : worker[w] \in States /\ worker[w] # "gone"
    BY Md5Facts DEF FInv
  <1>2. \A w \in InFlight : w \in Busy /\ job[w] \in 1 .. Taken /\ jobs[job[w]] = "good"
    BY <1>1 DEF JobsHeld, InFlight, Busy
  <1>3. Counted \subseteq Of("good")
    BY <1>1, <1>2 DEF Counted, Of, JobsHeld
  <1>4. /\ Of("good") \subseteq DOMAIN jobs /\ \A k \in JobKinds : Of(k) \in SUBSET DOMAIN jobs
        /\ TakenMissing \subseteq DOMAIN jobs /\ PendingMissing \subseteq Workers
    BY <1>1 DEF Of, TakenMissing, PendingMissing
  <1>5. Counted \in SUBSET DOMAIN jobs /\ TakenMissing \in SUBSET DOMAIN jobs /\ PendingMissing \in SUBSET Workers
    BY <1>3, <1>4
  <1> QED
    BY <1>1, <1>3, <1>4, <1>5, Finite

(* When the two counters make up the list, every good file was counted.    *)
LEMMA AllGoodCounted ==
    ASSUME FInv, [Next]_vars, program = "md5", NEW n \in Nat, n <= checkedCount, AllCounted(n)
    PROVE  Counted = Of("good") /\ n = checkedCount
  <1> DEFINE Good == Of("good")
             Missing == Of("missing")
  <1>1. /\ CountersExact /\ notFoundPathCount \in Nat /\ checkedCount \in Nat
        /\ Len(jobs) \in Nat /\ 1 .. Taken \subseteq DOMAIN jobs /\ FanOutType
    BY Md5Facts DEF FInv
  <1>2. /\ n + notFoundPathCount = Len(jobs)
        /\ n <= checkedCount /\ checkedCount = Cardinality(Counted)
        /\ notFoundPathCount + Cardinality(PendingMissing) = Cardinality(TakenMissing)
    BY <1>1 DEF CountersExact, AllCounted
  <1>3. /\ IsFiniteSet(Good) /\ Cardinality(Good) \in Nat /\ IsFiniteSet(Missing) /\ Cardinality(Missing) \in Nat
    BY Md5Finite DEF JobKinds
  <1>4. Cardinality(TakenMissing) <= Cardinality(Missing)
    <2>1. TakenMissing \subseteq Missing
      BY <1>1 DEF TakenMissing, Of
    <2> QED
      BY <1>3, <2>1, FS_Subset
  <1>5. Cardinality(Good) + Cardinality(Missing) <= Len(jobs)
    <2>1. Good \cap Missing = {} /\ Good \cup Missing \subseteq DOMAIN jobs
      BY DEF Of
    <2>2. Cardinality(Good \cup Missing) = Cardinality(Good) + Cardinality(Missing)
      <3>1. Cardinality(Good \cap Missing) = 0
        BY <2>1, FS_EmptySet
      <3>2. Cardinality(Good \cup Missing)
                = Cardinality(Good) + Cardinality(Missing) - Cardinality(Good \cap Missing)
        BY <1>3, FS_Union
      <3> QED
        BY <1>3, <3>1, <3>2
    <2>3. IsFiniteSet(DOMAIN jobs) /\ Cardinality(DOMAIN jobs) = Len(jobs)
      BY <1>1, Finite
    <2>4. Cardinality(Good \cup Missing) <= Cardinality(DOMAIN jobs)
      BY <2>1, <2>3, FS_Subset
    <2> QED
      BY <2>2, <2>3, <2>4
  <1>6. Counted \subseteq Good /\ Cardinality(Counted) \in Nat /\ Cardinality(TakenMissing) \in Nat
        /\ Cardinality(PendingMissing) \in Nat
    BY Md5Finite
  <1>7. Cardinality(Counted) <= Cardinality(Good)
    BY <1>3, <1>6, FS_Subset
  <1> HIDE DEF Good, Missing
  <1>8. Cardinality(Counted) = Cardinality(Good) /\ n = checkedCount
    BY <1>1, <1>2, <1>3, <1>4, <1>5, <1>6, <1>7
  <1> QED
    BY <1>3, <1>6, <1>8, FS_Subset DEF Good

(* What the report of md5 lacks when the count is found complete: files of *)
(* the workers that have counted one and were not received.                *)
LEMMA MessageCovers ==
    ASSUME FInv, [Next]_vars, program = "md5", main = "compare", AllCounted(received)
    PROVE  filed # {} /\ Cardinality(Of("good") \ filed) < Cardinality(Workers)
  <1> DEFINE Lacking == {job[v] : v \in InFlight}
  <1>1. /\ filed # {} /\ received <= checkedCount /\ received \in Nat
        /\ received = checkedCount => Cardinality(InFlight) < Cardinality(Workers)
    BY DEF FInv, MessageInv, FanOutType
  <1>2. Counted = Of("good") /\ Cardinality(InFlight) < Cardinality(Workers)
    BY <1>1, AllGoodCounted
  <1>3. Of("good") \ filed \subseteq Lacking
    BY <1>2 DEF Counted
  <1>4. IsFiniteSet(InFlight) /\ Cardinality(InFlight) \in Nat /\ Cardinality(Workers) \in Nat
    <2>1. InFlight \in SUBSET Workers
      BY DEF InFlight
    <2> QED
      BY <2>1, Finite
  <1>5. IsFiniteSet(Lacking) /\ Cardinality(Lacking) <= Cardinality(InFlight)
    <2> DEFINE held == [v \in InFlight |-> job[v]]
    <2>1. held \in Surjection(InFlight, Lacking)
      BY DEF Surjection
    <2> HIDE DEF held, Lacking
    <2> QED
      BY <1>4, <2>1, FS_Surjection
  <1> HIDE DEF Lacking
  <1>6. /\ Cardinality(Of("good") \ filed) <= Cardinality(Lacking)
        /\ Cardinality(Lacking) \in Nat /\ Cardinality(Of("good") \ filed) \in Nat
    BY <1>3, <1>5, FS_Subset, FS_CardinalityType
  <1> QED
    BY <1>1, <1>2, <1>4, <1>5, <1>6

(* The steps of main and of the reader, and those that change no job.      *)
LEMMA Md5MainStep ==
    ASSUME FInv, [Next]_vars, program = "md5",
           \/ UNCHANGED vars \/ countLines \/ ReadLine \/ Wait \/ WaitReturns \/ CompareCount \/ AllAsleep \/ WriteReport
    PROVE  Md5Inv' /\ InFlight' = InFlight
  <1>0. /\ program' = program /\ jobs' = jobs
        /\ \A w \in Workers : worker[w] # "gone"
        /\ fileChan \in Seq(Nat) /\ Len(fileChan) \in Nat /\ next \in 1 .. Len(jobs) + 1
        /\ JobsHeld /\ CountersExact /\ ReportCovers /\ Len(jobs) \in Nat
    BY Md5Facts
  <1>1. /\ UNCHANGED <<worker, job, count, filed, checkedCount, notFoundPathCount>>
        /\ \/ main' \in {"reply", "ended"} => main \in {"reply", "ended"}
           \/ main = "compare" /\ AllCounted(received)
    BY DEF countLines, ReadLine, Wait, WaitReturns, CompareCount, AllAsleep, WriteReport, workVars, sumVars, vars
  <1>2. /\ Taken' = Taken
        /\ \A i \in 1 .. Len(fileChan') : fileChan'[i] = Taken' + i
    <2>1. CASE UNCHANGED <<next, fileChan>>
      BY <1>0, <2>1 DEF Taken, JobsHeld
    <2>2. CASE ReadLine /\ next <= Len(jobs)
      <3>1. fileChan' = Append(fileChan, next) /\ next' = next + 1
        BY <1>0, <2>2 DEF ReadLine
      <3>2. Len(fileChan') = Len(fileChan) + 1 /\ Taken' = Taken
        BY <1>0, <3>1 DEF Taken
      <3>3. \A i \in 1 .. Len(fileChan) + 1 : fileChan'[i] = IF i <= Len(fileChan) THEN fileChan[i] ELSE next
        BY <1>0, <3>1
      <3>4. /\ \A i \in 1 .. Len(fileChan) : fileChan[i] = Taken + i
            /\ next = Taken + (Len(fileChan) + 1)
        BY <1>0 DEF JobsHeld, Taken
      <3>5. \A i \in 1 .. Len(fileChan) + 1 : i <= Len(fileChan) \/ i = Len(fileChan) + 1
        BY <1>0
      <3> QED
        BY <1>0, <3>2, <3>3, <3>4, <3>5
    <2>3. CASE ReadLine /\ next > Len(jobs)
      BY <1>0, <2>1, <2>3 DEF ReadLine
    <2>4. ReadLine \/ UNCHANGED <<next, fileChan>>
      BY DEF countLines, Wait, WaitReturns, CompareCount, AllAsleep, WriteReport, jobVars, vars
    <2> QED
      BY <1>0, <2>1, <2>2, <2>3, <2>4
  <1>3. /\ Busy' = Busy /\ InFlight' = InFlight /\ Of("good")' = Of("good")
        /\ Counted' = Counted /\ TakenMissing' = TakenMissing /\ PendingMissing' = PendingMissing
    BY <1>0, <1>1, <1>2 DEF Busy, InFlight, Counted, TakenMissing, PendingMissing, Of
  <1>4. JobsHeld'
    BY <1>0, <1>1, <1>2, <1>3 DEF JobsHeld
  <1>5. CountersExact'
    BY <1>0, <1>1, <1>3 DEF CountersExact
  <1>6. ReportCovers'
    <2>1. CASE main' \in {"reply", "ended"} => main \in {"reply", "ended"}
      BY <1>0, <1>1, <1>3, <2>1 DEF ReportCovers
    <2>2. CASE main = "compare" /\ AllCounted(received)
      BY <1>1, <1>3, <2>2, MessageCovers DEF ReportCovers
    <2> QED
      BY <1>1, <2>1, <2>2
  <1> QED
    BY <1>0, <1>1, <1>3, <1>4, <1>5, <1>6 DEF Md5Inv

(* A worker takes the next line.                                           *)
LEMMA TakeLineInv ==
    ASSUME FInv, [Next]_vars, program = "md5", NEW w \in Workers, TakeLine(w)
    PROVE  Md5Inv'
  <1>0. /\ program' = program /\ jobs' = jobs
        /\ \A v \in Workers : worker[v] # "gone"
        /\ worker \in [AllGoroutines -> States] /\ job \in [AllGoroutines -> Nat]
        /\ Workers \subseteq AllGoroutines
        /\ fileChan \in Seq(Nat) /\ Len(fileChan) \in Nat /\ next \in 1 .. Len(jobs) + 1
        /\ JobsHeld /\ CountersExact /\ ReportCovers /\ Len(jobs) \in Nat
        /\ filed \subseteq DOMAIN jobs
    BY Md5Facts
  <1>1. /\ worker[w] = "idle" /\ worker' = [worker EXCEPT ![w] = "add"]
        /\ job' = [job EXCEPT ![w] = Head(fileChan)]
        /\ fileChan' = Tail(fileChan) /\ fileChan # <<>> /\ next' = next
        /\ UNCHANGED <<count, filed, checkedCount, notFoundPathCount, main>>
    BY DEF TakeLine, At, Go, sumVars
  <1>2. /\ Len(fileChan') = Len(fileChan) - 1 /\ Head(fileChan) = fileChan[1] /\ Len(fileChan) > 0
        /\ \A i \in 1 .. Len(fileChan) - 1 : fileChan'[i] = fileChan[i + 1]
    BY <1>0, <1>1, HeadTailProperties
  <1>3. /\ Taken \in Nat /\ Taken' = Taken + 1 /\ Head(fileChan) = Taken + 1
        /\ \A i \in 1 .. Len(fileChan') : fileChan'[i] = Taken' + i
    BY <1>0, <1>1, <1>2 DEF JobsHeld, Taken
  <1>4. /\ \A v \in Workers \ {w} : worker'[v] = worker[v] /\ job'[v] = job[v]
        /\ worker'[w] = "add" /\ job'[w] = Taken + 1
    BY <1>0, <1>1, <1>3
  <1>5. Busy' = Busy \cup {w} /\ w \notin Busy /\ InFlight' = InFlight /\ w \notin InFlight
    BY <1>1, <1>4 DEF Busy, InFlight
  <1>6. Counted' = Counted
    BY <1>1, <1>4, <1>5 DEF Counted, InFlight
  <1>7. JobsHeld'
    <2>1. \A v \in Busy : job[v] \in 1 .. Taken
      BY <1>0 DEF JobsHeld
    <2>2. \A v \in Busy' : job'[v] \in 1 .. Taken'
      BY <1>3, <1>4, <1>5, <2>1 DEF Busy
    <2>3. \A v, u \in Busy' : job'[v] = job'[u] => v = u
      <3>1. \A v, u \in Busy : job[v] = job[u] => v = u
        BY <1>0 DEF JobsHeld
      <3>2. \A v \in Busy : v \in Workers \ {w} /\ job'[v] = job[v] /\ job[v] # Taken + 1
        BY <1>3, <1>4, <1>5, <2>1 DEF Busy
      <3> QED
        BY <1>4, <1>5, <3>1, <3>2
    <2>4. Taken + 1 \notin filed /\ \A i \in filed : i <= Taken'
      BY <1>0, <1>3 DEF JobsHeld
    <2>5. \A v \in Busy' : worker'[v] # "done" => job'[v] \notin filed'
      BY <1>0, <1>1, <1>4, <1>5, <2>4 DEF JobsHeld, Busy
    <2>6. \A v \in Busy' : worker'[v] \in {"hashed", "counted", "send"} => jobs'[job'[v]] = "good"
      BY <1>0, <1>4, <1>5 DEF JobsHeld, Busy
    <2>7. filed' \subseteq Of("good")'
      BY <1>0, <1>1 DEF JobsHeld, Of
    <2> QED
      BY <1>1, <1>3, <2>2, <2>3, <2>4, <2>5, <2>6, <2>7 DEF JobsHeld
  <1>8. CountersExact'
    <2>1. CASE jobs[Taken + 1] = "missing"
      <3>1. TakenMissing' = TakenMissing \cup {Taken + 1} /\ Taken + 1 \notin TakenMissing
        BY <1>0, <1>3, <2>1 DEF TakenMissing
      <3>2. PendingMissing' = PendingMissing \cup {w} /\ w \notin PendingMissing
        BY <1>0, <1>1, <1>4, <2>1 DEF PendingMissing
      <3>3. /\ Cardinality(TakenMissing') = Cardinality(TakenMissing) + 1
            /\ Cardinality(PendingMissing') = Cardinality(PendingMissing) + 1
        BY <3>1, <3>2, Md5Finite, FS_AddElement
      <3> QED
        BY <1>0, <1>1, <1>6, <3>3, Md5Finite, Md5Facts DEF CountersExact
    <2>2. CASE jobs[Taken + 1] # "missing"
      <3>1. TakenMissing' = TakenMissing
        BY <1>0, <1>3, <2>2 DEF TakenMissing
      <3>2. PendingMissing' = PendingMissing
        BY <1>0, <1>1, <1>4, <2>2 DEF PendingMissing
      <3> QED
        BY <1>0, <1>1, <1>6, <3>1, <3>2 DEF CountersExact
    <2> QED
      BY <2>1, <2>2
  <1>9. ReportCovers'
    BY <1>0, <1>1 DEF ReportCovers, Of
  <1> QED
    BY <1>0, <1>1, <1>4, <1>7, <1>8, <1>9 DEF Md5Inv

(* A worker goes on with the job it has.                                   *)
LEMMA JobKept ==
    ASSUME FInv, [Next]_vars, program = "md5", NEW w \in Workers,
           worker[w] \notin {"idle", "done"}, NEW s \in States \ {"idle", "gone"},
           worker' = [worker EXCEPT ![w] = s],
           s \in {"hashed", "counted", "send"} => jobs[job[w]] = "good",
           UNCHANGED <<job, next, fileChan, filed>>
    PROVE  /\ JobsHeld' /\ Busy' = Busy /\ Taken' = Taken /\ TakenMissing' = TakenMissing
           /\ \A v \in Workers : worker'[v] # "gone"
           /\ \A v \in Workers \ {w} : worker'[v] = worker[v]
           /\ worker'[w] = s
  <1>0. /\ jobs' = jobs /\ JobsHeld /\ Workers \subseteq AllGoroutines
        /\ worker \in [AllGoroutines -> States] /\ \A v \in Workers : worker[v] # "gone"
    BY Md5Facts
  <1>1. /\ \A v \in Workers \ {w} : worker'[v] = worker[v]
        /\ worker'[w] = s
    BY <1>0
  <1>2. Busy' = Busy /\ Taken' = Taken /\ Of("good")' = Of("good")
    BY <1>0, <1>1 DEF Busy, Taken, Of
  <1>3. TakenMissing' = TakenMissing
    BY <1>0, <1>2 DEF TakenMissing
  <1>4. JobsHeld'
    BY <1>0, <1>1, <1>2 DEF JobsHeld, Busy
  <1> QED
    BY <1>0, <1>1, <1>2, <1>3, <1>4

(* A worker adds itself, opens its file, counts it, or makes its message.  *)
LEMMA WorkInv ==
    ASSUME FInv, [Next]_vars, program = "md5", NEW w \in Workers,
           AddWorker(w) \/ OpenFile(w) \/ CountFile(w) \/ MakeMessage(w)
    PROVE  Md5Inv'
  <1>0. /\ program' = program /\ jobs' = jobs /\ JobsHeld /\ CountersExact /\ ReportCovers
        /\ count \in [AllGoroutines -> Nat] /\ Workers \subseteq AllGoroutines
        /\ notFoundPathCount \in Nat /\ checkedCount \in Nat
    BY Md5Facts
  <1>1. UNCHANGED <<job, next, fileChan, filed, main>>
    BY DEF AddWorker, OpenFile, CountFile, MakeMessage, jobVars, sumVars
  <1>2. ReportCovers'
    BY <1>0, <1>1 DEF ReportCovers, Of
  <1>3. CASE AddWorker(w)
    <2>1. /\ worker[w] = "add" /\ worker' = [worker EXCEPT ![w] = "open"]
          /\ UNCHANGED <<count, notFoundPathCount, checkedCount>>
      BY <1>3 DEF AddWorker, At, Go
    <2>2. /\ JobsHeld' /\ Taken' = Taken /\ TakenMissing' = TakenMissing
          /\ \A v \in Workers : worker'[v] # "gone"
          /\ \A v \in Workers \ {w} : worker'[v] = worker[v]
          /\ worker'[w] = "open"
      BY <1>1, <2>1, JobKept DEF States
    <2>3. InFlight' = InFlight /\ PendingMissing' = PendingMissing
      BY <1>0, <1>1, <2>1, <2>2 DEF InFlight, PendingMissing
    <2>4. Counted' = Counted
      BY <1>1, <2>3 DEF Counted
    <2>5. CountersExact'
      BY <1>0, <2>1, <2>2, <2>3, <2>4 DEF CountersExact
    <2> QED
      BY <1>0, <1>2, <2>2, <2>5 DEF Md5Inv
  <1>4. CASE OpenFile(w)
    <2> DEFINE to == IF jobs[job[w]] = "good" THEN "hashed" ELSE "done"
    <2>1. /\ worker[w] = "open" /\ worker' = [worker EXCEPT ![w] = to]
          /\ notFoundPathCount' = notFoundPathCount + IF jobs[job[w]] = "missing" THEN 1 ELSE 0
          /\ UNCHANGED <<count, checkedCount>>
      BY <1>4 DEF OpenFile, At, Go
    <2>2. /\ JobsHeld' /\ Taken' = Taken /\ TakenMissing' = TakenMissing
          /\ \A v \in Workers : worker'[v] # "gone"
          /\ \A v \in Workers \ {w} : worker'[v] = worker[v]
          /\ worker'[w] = to
      <3>1. to \in States \ {"idle", "gone"} /\ (to \in {"hashed", "counted", "send"} => jobs[job[w]] = "good")
        BY DEF States
      <3> HIDE DEF to
      <3> QED
        BY <1>1, <2>1, <3>1, JobKept
    <2>3. InFlight' = InFlight
      BY <2>1, <2>2 DEF InFlight
    <2>4. Counted' = Counted
      BY <1>1, <2>3 DEF Counted
    <2>5. notFoundPathCount' + Cardinality(PendingMissing') = notFoundPathCount + Cardinality(PendingMissing)
      <3>1. CASE jobs[job[w]] = "missing"
        <4>1. PendingMissing' = PendingMissing \ {w} /\ w \in PendingMissing
          BY <1>0, <1>1, <2>1, <2>2, <3>1 DEF PendingMissing
        <4>2. Cardinality(PendingMissing') = Cardinality(PendingMissing) - 1
          BY <4>1, Md5Finite, FS_RemoveElement
        <4> QED
          BY <1>0, <2>1, <3>1, <4>2, Md5Finite
      <3>2. CASE jobs[job[w]] # "missing"
        <4>1. PendingMissing' = PendingMissing
          BY <1>0, <1>1, <2>1, <2>2, <3>2 DEF PendingMissing
        <4> QED
          BY <1>0, <2>1, <3>2, <4>1
      <3> QED
        BY <3>1, <3>2
    <2>6. CountersExact'
      BY <1>0, <2>1, <2>2, <2>4, <2>5 DEF CountersExact
    <2> QED
      BY <1>0, <1>2, <2>2, <2>6 DEF Md5Inv
  <1>5. CASE CountFile(w)
    <2>1. /\ worker[w] = "hashed" /\ worker' = [worker EXCEPT ![w] = "counted"]
          /\ checkedCount' = checkedCount + 1 /\ UNCHANGED <<count, notFoundPathCount>>
      BY <1>5 DEF CountFile, At, Go
    <2>2. w \in Busy /\ jobs[job[w]] = "good" /\ job[w] \notin filed
      BY <1>0, <2>1 DEF Busy, JobsHeld
    <2>3. /\ JobsHeld' /\ Taken' = Taken /\ TakenMissing' = TakenMissing
          /\ \A v \in Workers : worker'[v] # "gone"
          /\ \A v \in Workers \ {w} : worker'[v] = worker[v]
          /\ worker'[w] = "counted"
      BY <1>1, <2>1, <2>2, JobKept DEF States
    <2>4. InFlight' = InFlight \cup {w} /\ w \notin InFlight /\ PendingMissing' = PendingMissing
      BY <1>0, <1>1, <2>1, <2>3 DEF InFlight, PendingMissing
    <2>5. Counted' = Counted \cup {job[w]}
      BY <1>1, <2>4 DEF Counted
    <2>6. job[w] \notin Counted
      BY <1>0, <2>2, <2>4 DEF Counted, InFlight, Busy, JobsHeld
    <2>7. Cardinality(Counted') = Cardinality(Counted) + 1
      BY <2>5, <2>6, Md5Finite, FS_AddElement
    <2>8. CountersExact'
      BY <1>0, <2>1, <2>3, <2>4, <2>7 DEF CountersExact
    <2> QED
      BY <1>0, <1>2, <2>3, <2>8 DEF Md5Inv
  <1>6. CASE MakeMessage(w)
    <2>1. /\ worker[w] = "counted" /\ worker' = [worker EXCEPT ![w] = "send"]
          /\ count' = [count EXCEPT ![w] = checkedCount] /\ UNCHANGED <<checkedCount, notFoundPathCount>>
      BY <1>6 DEF MakeMessage, At, Go, sumVars
    <2>2. w \in Busy /\ jobs[job[w]] = "good"
      BY <1>0, <2>1 DEF Busy, JobsHeld
    <2>3. /\ JobsHeld' /\ Taken' = Taken /\ TakenMissing' = TakenMissing
          /\ \A v \in Workers : worker'[v] # "gone"
          /\ \A v \in Workers \ {w} : worker'[v] = worker[v]
          /\ worker'[w] = "send"
      BY <1>1, <2>1, <2>2, JobKept DEF States
    <2>4. InFlight' = InFlight /\ PendingMissing' = PendingMissing
      BY <1>0, <1>1, <2>1, <2>3 DEF InFlight, PendingMissing
    <2>5. Counted' = Counted
      BY <1>1, <2>4 DEF Counted
    <2>6. \A v \in Workers : count'[v] <= checkedCount'
      BY <1>0, <2>1 DEF CountersExact
    <2>7. CountersExact'
      BY <1>0, <2>1, <2>3, <2>4, <2>5, <2>6 DEF CountersExact
    <2> QED
      BY <1>0, <1>2, <2>3, <2>7 DEF Md5Inv
  <1> QED
    BY <1>3, <1>4, <1>5, <1>6

(* A worker is done with its line.                                         *)
LEMMA DoneWorkerInv ==
    ASSUME FInv, [Next]_vars, program = "md5", NEW w \in Workers, DoneWorker(w)
    PROVE  Md5Inv'
  <1>0. /\ program' = program /\ jobs' = jobs /\ JobsHeld /\ CountersExact /\ ReportCovers
        /\ count \in [AllGoroutines -> Nat] /\ Workers \subseteq AllGoroutines
        /\ worker \in [AllGoroutines -> States] /\ job \in [AllGoroutines -> Nat]
        /\ \A v \in Workers : worker[v] # "gone"
        /\ notFoundPathCount \in Nat /\ checkedCount \in Nat
    BY Md5Facts
  <1>1. /\ worker[w] = "done" /\ worker' = [worker EXCEPT ![w] = "idle"]
        /\ job' = [job EXCEPT ![w] = 0] /\ count' = [count EXCEPT ![w] = 0]
        /\ UNCHANGED <<next, fileChan, notFoundPathCount, checkedCount, filed>>
        /\ main' \in {main, "woken"}
    BY DEF DoneWorker, At, Go, jobVars
  <1>2. /\ \A v \in Workers \ {w} : worker'[v] = worker[v] /\ job'[v] = job[v]
        /\ worker'[w] = "idle"
    BY <1>0, <1>1
  <1>3. /\ Taken' = Taken /\ Busy' = Busy \ {w} /\ InFlight' = InFlight /\ w \notin InFlight
        /\ PendingMissing' = PendingMissing /\ Of("good")' = Of("good")
    BY <1>0, <1>1, <1>2 DEF Taken, Busy, InFlight, PendingMissing, Of
  <1>4. TakenMissing' = TakenMissing /\ Counted' = Counted
    BY <1>0, <1>1, <1>2, <1>3 DEF TakenMissing, Counted, InFlight
  <1>5. JobsHeld'
    BY <1>0, <1>1, <1>2, <1>3 DEF JobsHeld, Busy
  <1>6. \A v \in Workers : count'[v] <= checkedCount'
    BY <1>0, <1>1 DEF CountersExact
  <1>7. CountersExact'
    BY <1>0, <1>1, <1>3, <1>4, <1>6 DEF CountersExact
  <1>8. ReportCovers'
    BY <1>0, <1>1, <1>3 DEF ReportCovers
  <1> QED
    BY <1>0, <1>2, <1>5, <1>7, <1>8 DEF Md5Inv

(* A message is received.                                                  *)
LEMMA ReceiveInv ==
    ASSUME FInv, [Next]_vars, program = "md5", NEW w \in Workers, ReceiveMD5(w)
    PROVE  Md5Inv'
  <1>0. /\ program' = program /\ jobs' = jobs /\ JobsHeld /\ CountersExact
        /\ Workers \subseteq AllGoroutines
        /\ worker \in [AllGoroutines -> States] /\ job \in [AllGoroutines -> Nat]
        /\ \A v \in Workers : worker[v] # "gone"
    BY Md5Facts
  <1>1. /\ worker[w] = "send" /\ worker' = [worker EXCEPT ![w] = "done"] /\ main = "consume"
        /\ filed' = filed \cup {job[w]}
        /\ main' = "compare"
        /\ UNCHANGED <<next, fileChan, job, count, notFoundPathCount, checkedCount>>
    BY DEF ReceiveMD5, At, Go, jobVars
  <1>2. /\ \A v \in Workers \ {w} : worker'[v] = worker[v]
        /\ worker'[w] = "done"
    BY <1>0, <1>1
  <1>3. /\ Taken' = Taken /\ Busy' = Busy /\ w \in Busy /\ InFlight' = InFlight \ {w} /\ w \in InFlight
        /\ PendingMissing' = PendingMissing /\ Of("good")' = Of("good")
    BY <1>0, <1>1, <1>2 DEF Taken, Busy, InFlight, PendingMissing, Of
  <1>4. TakenMissing' = TakenMissing /\ Counted' = Counted
    BY <1>0, <1>1, <1>3 DEF TakenMissing, Counted
  <1>5. jobs[job[w]] = "good" /\ job[w] \in 1 .. Taken /\ job[w] \in Of("good")
    <2>1. jobs[job[w]] = "good" /\ job[w] \in 1 .. Taken
      BY <1>0, <1>1, <1>3 DEF JobsHeld
    <2> QED
      BY <2>1, Md5Facts DEF Of
  <1>6. JobsHeld'
    <2>1. \A v \in Busy \ {w} : job[v] # job[w]
      BY <1>0, <1>3 DEF JobsHeld
    <2>2. \A v \in Busy' : worker'[v] # "done" => job'[v] \notin filed'
      BY <1>0, <1>1, <1>2, <1>3, <2>1 DEF JobsHeld, Busy
    <2>3. \A v \in Busy' : worker'[v] \in {"hashed", "counted", "send"} => jobs'[job'[v]] = "good"
      BY <1>0, <1>1, <1>2, <1>3 DEF JobsHeld, Busy
    <2>4. filed' \subseteq Of("good")' /\ \A i \in filed' : i <= Taken'
      BY <1>0, <1>1, <1>3, <1>5 DEF JobsHeld
    <2> QED
      BY <1>0, <1>1, <1>3, <2>2, <2>3, <2>4 DEF JobsHeld
  <1>7. CountersExact'
    BY <1>0, <1>1, <1>3, <1>4 DEF CountersExact
  <1>8. ReportCovers'
    BY <1>1 DEF ReportCovers
  <1> QED
    BY <1>0, <1>2, <1>6, <1>7, <1>8 DEF Md5Inv

(* Each step of md5 preserves its invariant.                               *)
LEMMA Md5Step ==
    ASSUME FInv, [Next]_vars, program = "md5"
    PROVE  Md5Inv'
  <1>1. Goroutines = Workers
    BY Md5Facts
  <1> QED
    BY <1>1, StepCases, Md5MainStep, TakeLineInv, WorkInv, ReceiveInv, DoneWorkerInv

(* What a step does to the message that the consumer has.                  *)
LEMMA MessageStep ==
    ASSUME FInv, [Next]_vars
    PROVE  MessageInv'
  <1> SUFFICES ASSUME program = "md5", main' = "compare"
               PROVE  /\ filed' # {} /\ received' <= checkedCount'
                      /\ received' = checkedCount' => Cardinality(InFlight') < Cardinality(Workers)
    BY StepCases DEF MessageInv
  <1>1. /\ Goroutines = Workers /\ checkedCount \in Nat /\ received \in Nat
        /\ CountersExact /\ Workers \subseteq AllGoroutines /\ worker \in [AllGoroutines -> States]
    BY Md5Facts DEF FInv, FanOutType
  <1>2. main = "compare" => /\ filed # {} /\ received <= checkedCount
                            /\ received = checkedCount => Cardinality(InFlight) < Cardinality(Workers)
    BY DEF FInv, MessageInv
  <1>3. CASE \/ UNCHANGED vars \/ countLines \/ ReadLine \/ Wait \/ WaitReturns \/ CompareCount
             \/ AllAsleep \/ WriteReport
    <2>1. main = "compare" /\ UNCHANGED <<filed, received, checkedCount, worker>>
      BY <1>3 DEF vars, countLines, ReadLine, Wait, WaitReturns, CompareCount, AllAsleep, WriteReport,
                  sumVars, workVars
    <2> QED
      BY <1>2, <2>1 DEF InFlight
  <1>4. ASSUME NEW w \in Workers,
               TakeLine(w) \/ AddWorker(w) \/ OpenFile(w) \/ MakeMessage(w) \/ DoneWorker(w)
        PROVE  /\ filed' # {} /\ received' <= checkedCount'
               /\ received' = checkedCount' => Cardinality(InFlight') < Cardinality(Workers)
    <2>1. main = "compare" /\ UNCHANGED <<filed, received, checkedCount>>
      BY <1>4 DEF TakeLine, AddWorker, OpenFile, MakeMessage, DoneWorker, sumVars
    <2>2. PICK s \in States : /\ worker' = [worker EXCEPT ![w] = s]
                              /\ s \in {"counted", "send"} <=> worker[w] \in {"counted", "send"}
      BY <1>4 DEF TakeLine, AddWorker, OpenFile, MakeMessage, DoneWorker, At, Go, States
    <2>3. InFlight' = InFlight
      BY <1>1, <2>2 DEF InFlight
    <2> QED
      BY <1>2, <2>1, <2>3
  <1>5. ASSUME NEW w \in Workers, CountFile(w)
        PROVE  /\ filed' # {} /\ received' <= checkedCount'
               /\ received' = checkedCount' => Cardinality(InFlight') < Cardinality(Workers)
    BY <1>1, <1>2, <1>5 DEF CountFile
  <1>6. ASSUME NEW w \in Workers, ReceiveMD5(w)
        PROVE  /\ filed' # {} /\ received' <= checkedCount'
               /\ received' = checkedCount' => Cardinality(InFlight') < Cardinality(Workers)
    <2>1. /\ filed' # {} /\ received' = count[w] /\ checkedCount' = checkedCount
          /\ worker' = [worker EXCEPT ![w] = "done"]
      BY <1>6 DEF ReceiveMD5, Go
    <2>2. InFlight' \subseteq Workers \ {w}
      BY <1>1, <2>1 DEF InFlight
    <2>3. Cardinality(InFlight') < Cardinality(Workers)
      <3>1. IsFiniteSet(Workers) /\ Workers \ {w} \in SUBSET Workers
        BY Finite
      <3>2. Cardinality(Workers \ {w}) = Cardinality(Workers) - 1 /\ IsFiniteSet(Workers \ {w})
        BY <3>1, Finite, FS_RemoveElement
      <3>3. Cardinality(InFlight') <= Cardinality(Workers \ {w}) /\ IsFiniteSet(InFlight')
        BY <2>2, <3>2, FS_Subset
      <3> QED
        BY <3>2, <3>3, Finite, FS_CardinalityType
    <2> QED
      BY <1>1, <2>1, <2>3 DEF CountersExact
  <1> QED
    BY <1>1, <1>3, <1>4, <1>5, <1>6, StepCases

-----------------------------------------------------------------------------
(* The invariant holds in every reachable state.                           *)
LEMMA Invariance == Spec => []FInv
  <1>1. FInv /\ [Next]_vars => FInv'
    <2> SUFFICES ASSUME FInv, [Next]_vars PROVE FInv'
      OBVIOUS
    <2>1. FanOutType' /\ MessageInv' /\ program' = program
      BY TypeStep, MessageStep, StepCases
    <2>2. program \in {"md5", "walker", "collector"}
      BY DEF FInv, FanOutType
    <2>3. CASE program = "md5"
      BY <2>1, <2>3, Md5Step DEF FInv, WalkerInv, CollectorInv
    <2>4. CASE program = "walker"
      BY <2>1, <2>4, WalkerStep DEF FInv, Md5Inv, CollectorInv
    <2>5. CASE program = "collector"
      BY <2>1, <2>5, CollectorStep DEF FInv, Md5Inv, WalkerInv
    <2> QED
      BY <2>2, <2>3, <2>4, <2>5
  <1> QED
    BY <1>1, InitInv, PTL DEF Spec

(* Accounted: what the walker has compared, what the archive of the        *)
(* collector holds, and how many files the groups of md5 can lack, for any *)
(* number of workers, any list and any capacity of the channel.            *)
THEOREM OutputAccounted == Spec => []Accounted
  <1>1. FInv => Accounted
    <2> SUFFICES ASSUME FInv, main = "ended" PROVE Accounted
      BY DEF Accounted
    <2>1. /\ program \in {"md5", "walker", "collector"} /\ FanOutType
          /\ Md5Inv /\ WalkerInv /\ CollectorInv
      BY DEF FInv, FanOutType
    <2>2. CASE program = "md5"
      BY <2>1, <2>2 DEF Accounted, Md5Inv, ReportCovers, JobsHeld
    <2>3. CASE program = "walker"
      <3>1. /\ filed \cup {job[w] : w \in Comparing} = {i \in 1 .. next - 1 : jobs[i] = "file"}
            /\ Cardinality(Gone) = Cardinality(Workers)
            /\ Gone # {} => next = Len(jobs) + 1
        BY <2>1, <2>3 DEF WalkerInv
      <3>2. Gone = Workers
        BY <3>1, Finite, FS_Subset DEF Gone
      <3>3. Comparing = {} /\ next = Len(jobs) + 1
        BY <3>1, <3>2, FanOutAssumption DEF Comparing, Gone
      <3>4. DOMAIN jobs = 1 .. next - 1
        BY <2>1, <3>3, WorkersKnown
      <3>5. filed = Of("file")
        BY <3>1, <3>3, <3>4 DEF Of
      <3> QED
        BY <2>3, <3>5 DEF Accounted
    <2>4. CASE program = "collector"
      BY <2>1, <2>4 DEF Accounted, CollectorInv
    <2> QED
      BY <2>1, <2>2, <2>3, <2>4
  <1> QED
    BY <1>1, Invariance, PTL
=============================================================================
