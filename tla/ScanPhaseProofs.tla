-------------------------- MODULE ScanPhaseProofs ---------------------------
(***************************************************************************)
(* What holds of ScanPhase for every database, every verdict, every count  *)
(* and every number of workers.                                            *)
(*                                                                         *)
(* The inductive invariant IInv follows an entry on its way: it is unread, *)
(* or in fileChan, or in the hand of one worker, or counted, and in no two *)
(* of these places.  A worker with a flagged entry files it before it      *)
(* counts it, so the collector's map is the flagged part of what was       *)
(* counted and of what is about to be counted.  The main goroutine leaves  *)
(* its receive on done only when the count is the expected one.            *)
(***************************************************************************)
EXTENDS ScanPhase, FiniteSetTheorems, SequenceTheorems, TLAPS

Busy == {w \in Workers : worker[w] \in {"flag", "num"}}

InChan == Range(fileChan)

(* Absent workers never come.                                              *)
AbsentStay == \A w \in Workers : worker[w] = "absent" <=> w \notin Present

(* An entry is in one place at a time.                                     *)
OnePlace ==
    /\ counted \cap unread = {}
    /\ InChan \cap (unread \cup counted \cup found) = {}
    /\ found \cap unread = {}
    /\ \A w \in Busy : held[w] \notin unread \cup InChan \cup counted
    /\ \A v, w \in Busy : held[v] = held[w] => v = w
    /\ \A i, k \in 1..Len(fileChan) : fileChan[i] = fileChan[k] => i = k

(* Entries that cannot be read go nowhere.                                 *)
NoneUnreadable ==
    /\ InChan \cap unreadable = {}
    /\ counted \cap unreadable = {}
    /\ \A w \in Busy : held[w] \in Entries \ unreadable

(* A flagged entry is filed before it is counted.                          *)
FiledFirst ==
    /\ \A w \in Workers : worker[w] = "flag" => Verdict(job, held[w]).hit /\ held[w] \notin found
    /\ \A w \in Workers : worker[w] = "num" /\ Verdict(job, held[w]).hit => held[w] \in found

(* Nothing happens to the entries of a database that did not open.         *)
NilUntouched ==
    database = "nil" =>
        /\ fileChan = <<>> /\ Busy = {} /\ counted = {} /\ found = {}
        /\ main \in {"waiting", "panicked"}
        /\ reader = "reading"

(* Where main is, what it has counted, written and closed.                 *)
MainInv ==
    /\ main \in {"reporting", "closing", "exiting", "exited"} =>
           expected = Cardinality(counted) /\ counted # {} /\ database # "nil"
    /\ main \in {"waiting", "reporting"} => report = {}
    /\ main \in {"closing", "exiting", "exited"} => report = ReportOf(job, found)
    /\ database = "closed" => main \in {"exiting", "exited", "panicked"}
    /\ counted # {} => Present # {}

IInv ==
    /\ TypeOK
    /\ AbsentStay
    /\ OnePlace
    /\ NoneUnreadable
    /\ FiledFirst
    /\ ResultsBeforeCount
    /\ NilUntouched
    /\ MainInv
    /\ PanicSparesReport

-----------------------------------------------------------------------------
(* A phase has at least one place in its channel, and one goroutine fewer. *)
LEMMA CapacityType ==
    ASSUME TypeOK
    PROVE  Capacity \in Nat \ {0} /\ Present \subseteq Workers
  <1>1. job.phase \in Phases /\ cpus \in CPUs /\ cpus \in Nat \ {0}
    BY ScanAssumption DEF TypeOK, Jobs
  <1>2. SystemMaxConcurrency(cpus) \in Nat \ {0}
    BY <1>1 DEF SystemMaxConcurrency
  <1>3. Capacity \in Nat \ {0}
    BY <1>2 DEF Capacity, MaxConcurrency
  <1> QED
    BY <1>1, <1>3 DEF Workers, Present, Capacity

(* At the start every entry is unread.                                     *)
LEMMA InitInv == Init => IInv
  <1> SUFFICES ASSUME Init PROVE IInv
    OBVIOUS
  <1>1. fileChan \in Seq(Entries) /\ Len(fileChan) = 0 /\ Cardinality(Entries) \in Nat
    BY ScanAssumption, FS_CardinalityType DEF Init
  <1>2. job.phase \in Phases /\ cpus \in Nat \ {0}
    BY ScanAssumption DEF Init, Jobs
  <1>3. Capacity \in Nat
    BY <1>2 DEF Capacity, MaxConcurrency, SystemMaxConcurrency
  <1>4. TypeOK
    BY <1>1, <1>3 DEF Init, TypeOK
  <1>5. Busy = {} /\ InChan = {}
    BY <1>1 DEF Init, Busy, InChan, Range
  <1>6. AbsentStay /\ OnePlace /\ NoneUnreadable /\ FiledFirst
    BY <1>1, <1>5 DEF Init, AbsentStay, OnePlace, NoneUnreadable, FiledFirst
  <1>7. ResultsBeforeCount
    BY <1>1 DEF Init, ResultsBeforeCount, Flagged
  <1>8. NilUntouched /\ MainInv /\ PanicSparesReport
    BY <1>5 DEF Init, NilUntouched, MainInv, PanicSparesReport
  <1> QED
    BY <1>4, <1>6, <1>7, <1>8 DEF IInv

(* A step that moves no entry keeps the entries where they are.            *)
LEMMA Bystander ==
    ASSUME IInv,
           UNCHANGED <<config, unread, fileChan, workerVars, found, counted>>
    PROVE  AbsentStay' /\ OnePlace' /\ NoneUnreadable' /\ FiledFirst' /\ ResultsBeforeCount'
  <1>1. Busy' = Busy /\ InChan' = InChan /\ Present' = Present
    BY DEF Busy, InChan, Present, Capacity, workerVars, config
  <1>2. AbsentStay'
    BY <1>1 DEF IInv, AbsentStay, workerVars
  <1>3. OnePlace' /\ NoneUnreadable'
    BY <1>1 DEF IInv, OnePlace, NoneUnreadable, workerVars, config
  <1>4. FiledFirst'
    BY DEF IInv, FiledFirst, workerVars, config
  <1>5. ResultsBeforeCount'
    BY DEF IInv, ResultsBeforeCount, Flagged, workerVars, config
  <1> QED
    BY <1>2, <1>3, <1>4, <1>5

-----------------------------------------------------------------------------
(* The variables keep their types.                                         *)
LEMMA TypeStep == TypeOK /\ NoneUnreadable /\ [Next]_vars => TypeOK'
  <1> SUFFICES ASSUME TypeOK, NoneUnreadable, [Next]_vars PROVE TypeOK'
    OBVIOUS
  <1>1. Capacity \in Nat
    BY CapacityType
  <1>2. CASE ReaderPanics
    BY <1>2 DEF ReaderPanics, TypeOK, config, readerVars, workerVars, collectorVars, Capacity
  <1>3. ASSUME NEW e \in Entries, SkipEntry(e) PROVE TypeOK'
    BY <1>3 DEF SkipEntry, TypeOK, config, workerVars, collectorVars, Capacity
  <1>4. ASSUME NEW e \in Entries, ReadEntry(e) PROVE TypeOK'
    <2>1. fileChan' \in Seq(Entries) /\ Len(fileChan') <= Capacity
      BY <1>1, <1>4 DEF ReadEntry, TypeOK
    <2> QED
      BY <1>4, <2>1 DEF ReadEntry, TypeOK, config, workerVars, collectorVars, Capacity
  <1>5. CASE EndOfKeys
    BY <1>5 DEF EndOfKeys, TypeOK, config, workerVars, collectorVars, Capacity
  <1>6. CASE CommitBatch
    BY <1>6 DEF CommitBatch, TypeOK, config, workerVars, collectorVars, Capacity
  <1>7. ASSUME NEW w \in Workers, ReceiveEntry(w) PROVE TypeOK'
    <2>1. /\ fileChan' \in Seq(Entries) /\ Len(fileChan') <= Capacity
          /\ Head(fileChan) \in Entries
      BY <1>1, <1>7 DEF ReceiveEntry, TypeOK
    <2> QED
      BY <1>7, <2>1 DEF ReceiveEntry, TypeOK, config, readerVars, collectorVars, Capacity
  <1>8. ASSUME NEW w \in Workers, TakeResult(w) PROVE TypeOK'
    <2>1. held[w] \in Entries
      BY <1>8 DEF TakeResult, NoneUnreadable, Busy
    <2> QED
      BY <1>8, <2>1 DEF TakeResult, TypeOK, config, readerVars, Capacity
  <1>9. ASSUME NEW w \in Workers, TakeNum(w) PROVE TypeOK'
    <2>1. held[w] \in Entries
      BY <1>9 DEF TakeNum, NoneUnreadable, Busy
    <2> QED
      BY <1>9, <2>1 DEF TakeNum, TypeOK, config, readerVars, Capacity
  <1>10. CASE WriteReport
    <2>1. ReportOf(job, found) \subseteq SUBSET Entries
      BY DEF ReportOf, Groups, Group, TypeOK
    <2> QED
      BY <1>10, <2>1 DEF WriteReport, TypeOK, config, readerVars, workerVars, collectorVars, Capacity
  <1>11. CASE CloseDatabase
    BY <1>11 DEF CloseDatabase, TypeOK, config, readerVars, workerVars, collectorVars, Capacity
  <1>12. CASE Exit
    BY <1>12 DEF Exit, TypeOK, config, readerVars, workerVars, collectorVars, Capacity
  <1>13. CASE UNCHANGED vars
    BY <1>13 DEF vars, TypeOK, config, readerVars, workerVars, collectorVars, Capacity
  <1> QED
    BY <1>2, <1>3, <1>4, <1>5, <1>6, <1>7, <1>8, <1>9, <1>10, <1>11, <1>12, <1>13
       DEF Next, ReaderStep, WorkerStep, MainStep, Spin

-----------------------------------------------------------------------------
(* An entry passed over leaves the unread ones and goes nowhere.           *)
LEMMA SkipEntryInv ==
    ASSUME IInv, NEW e \in Entries, SkipEntry(e)
    PROVE  AbsentStay' /\ OnePlace' /\ NoneUnreadable' /\ FiledFirst'
           /\ ResultsBeforeCount' /\ NilUntouched' /\ MainInv' /\ PanicSparesReport'
  <1> USE DEF SkipEntry, config, workerVars, collectorVars
  <1>1. Busy' = Busy /\ InChan' = InChan /\ Present' = Present
    BY DEF Busy, InChan, Present, Capacity
  <1>2. AbsentStay'
    BY <1>1 DEF IInv, AbsentStay
  <1>3. OnePlace'
    BY <1>1 DEF IInv, OnePlace
  <1>4. NoneUnreadable' /\ FiledFirst'
    BY <1>1 DEF IInv, NoneUnreadable, FiledFirst
  <1>5. ResultsBeforeCount'
    BY DEF IInv, ResultsBeforeCount, Flagged
  <1>6. NilUntouched' /\ MainInv' /\ PanicSparesReport'
    BY <1>1 DEF IInv, NilUntouched, MainInv, PanicSparesReport
  <1> QED
    BY <1>2, <1>3, <1>4, <1>5, <1>6

(* The reader puts the next entry at the end of the channel.               *)
LEMMA ReadEntryInv ==
    ASSUME IInv, NEW e \in Entries, ReadEntry(e)
    PROVE  AbsentStay' /\ OnePlace' /\ NoneUnreadable' /\ FiledFirst'
           /\ ResultsBeforeCount' /\ NilUntouched' /\ MainInv' /\ PanicSparesReport'
  <1> USE DEF ReadEntry, config, workerVars, collectorVars
  <1>1. Busy' = Busy /\ Present' = Present
    BY DEF Busy, Present, Capacity
  <1>2. /\ Len(fileChan') = Len(fileChan) + 1
        /\ \A i \in 1..Len(fileChan) : fileChan'[i] = fileChan[i]
        /\ fileChan'[Len(fileChan) + 1] = e
        /\ Len(fileChan) \in Nat
    BY DEF IInv, TypeOK
  <1>3. InChan' = InChan \cup {e}
    <2>1. fileChan \in Seq(Entries) /\ fileChan' \in Seq(Entries)
      BY DEF IInv, TypeOK
    <2>2. DOMAIN fileChan = 1..Len(fileChan) /\ DOMAIN fileChan' = 1..Len(fileChan')
      BY <2>1
    <2>3. 1..Len(fileChan') = 1..Len(fileChan) \cup {Len(fileChan) + 1}
      BY <1>2
    <2> QED
      BY <1>2, <2>2, <2>3 DEF InChan, Range
  <1>4. e \in unread /\ e \notin InChan /\ e \notin unreadable
    BY DEF IInv, OnePlace, NextKey
  <1>5. AbsentStay'
    BY <1>1 DEF IInv, AbsentStay
  <1>6. \A i, k \in 1..Len(fileChan') : fileChan'[i] = fileChan'[k] => i = k
    <2>1. \A i \in 1..Len(fileChan) : fileChan[i] \in InChan
      BY DEF IInv, TypeOK, InChan, Range
    <2> QED
      BY <1>2, <1>4, <2>1 DEF IInv, OnePlace
  <1>7. OnePlace'
    BY <1>1, <1>3, <1>4, <1>6 DEF IInv, OnePlace
  <1>8. NoneUnreadable' /\ FiledFirst'
    BY <1>1, <1>3, <1>4 DEF IInv, NoneUnreadable, FiledFirst
  <1>9. ResultsBeforeCount'
    BY DEF IInv, ResultsBeforeCount, Flagged
  <1>10. NilUntouched' /\ MainInv' /\ PanicSparesReport'
    BY <1>1 DEF IInv, NilUntouched, MainInv, PanicSparesReport
  <1> QED
    BY <1>5, <1>7, <1>8, <1>9, <1>10

(* A worker takes the entry at the head of the channel.                    *)
LEMMA ReceiveEntryInv ==
    ASSUME IInv, NEW w \in Workers, ReceiveEntry(w)
    PROVE  AbsentStay' /\ OnePlace' /\ NoneUnreadable' /\ FiledFirst'
           /\ ResultsBeforeCount' /\ NilUntouched' /\ MainInv' /\ PanicSparesReport'
  <1> DEFINE e == Head(fileChan)
  <1> USE DEF ReceiveEntry, config, readerVars, collectorVars
  <1>1. /\ fileChan \in Seq(Entries) /\ fileChan # <<>>
        /\ e = fileChan[1] /\ 1 \in 1..Len(fileChan) /\ e \in Entries
        /\ Len(fileChan') = Len(fileChan) - 1
        /\ \A i \in 1..Len(fileChan') : i + 1 \in 1..Len(fileChan) /\ fileChan'[i] = fileChan[i + 1]
    BY DEF IInv, TypeOK
  <1>2. InChan = {fileChan[i] : i \in 1..Len(fileChan)}
        /\ InChan' = {fileChan'[i] : i \in 1..Len(fileChan')}
    <2>1. fileChan' \in Seq(Entries)
      BY <1>1
    <2>2. DOMAIN fileChan = 1..Len(fileChan) /\ DOMAIN fileChan' = 1..Len(fileChan')
      BY <1>1, <2>1
    <2> QED
      BY <2>2 DEF InChan, Range
  <1>3. InChan' \subseteq InChan \ {e} /\ e \in InChan
    BY <1>1, <1>2 DEF IInv, OnePlace
  <1>4. w \notin Busy /\ Busy' = Busy \cup {w}
    BY DEF Busy, IInv, TypeOK
  <1>5. held' = [held EXCEPT ![w] = e] /\ held'[w] = e /\ \A v \in Workers \ {w} : held'[v] = held[v] /\ worker'[v] = worker[v]
    BY DEF IInv, TypeOK
  <1>6. Present' = Present
    BY DEF Present, Capacity
  <1>7. AbsentStay'
    BY <1>5, <1>6 DEF IInv, AbsentStay, TypeOK
  <1>8. e \notin unread \cup counted \cup found \cup unreadable
    BY <1>3 DEF IInv, OnePlace, NoneUnreadable
  <1>9. \A i, k \in 1..Len(fileChan') : fileChan'[i] = fileChan'[k] => i = k
    BY <1>1 DEF IInv, OnePlace
  <1>10. OnePlace'
    <2>1. \A v \in Busy : held'[v] = held[v] /\ held[v] # e
      BY <1>3, <1>4, <1>5 DEF IInv, OnePlace, Busy
    <2>2. \A v \in Busy' : held'[v] \notin unread \cup InChan' \cup counted
      BY <2>1, <1>3, <1>4, <1>5, <1>8 DEF IInv, OnePlace
    <2>3. \A u, v \in Busy' : held'[u] = held'[v] => u = v
      BY <2>1, <1>4, <1>5 DEF IInv, OnePlace
    <2> QED
      BY <2>2, <2>3, <1>3, <1>9 DEF IInv, OnePlace
  <1>11. NoneUnreadable'
    BY <1>1, <1>3, <1>4, <1>5, <1>8 DEF IInv, NoneUnreadable, Busy
  <1>12. worker'[w] = IF Verdict(job, e).hit THEN "flag" ELSE "num"
    BY DEF IInv, TypeOK
  <1>13. FiledFirst'
    BY <1>5, <1>8, <1>12 DEF IInv, FiledFirst
  <1>14. ResultsBeforeCount'
    <2>1. \A v \in Workers : worker[v] = "num" => worker'[v] = "num" /\ held'[v] = held[v]
      BY <1>5
    <2>2. {held[v] : v \in {u \in Workers : worker[u] = "num"}}
              \subseteq {held'[v] : v \in {u \in Workers : worker'[u] = "num"}}
      BY <2>1
    <2> QED
      BY <2>2 DEF IInv, ResultsBeforeCount, Flagged
  <1>15. NilUntouched'
    BY DEF IInv, NilUntouched
  <1>16. MainInv' /\ PanicSparesReport'
    BY <1>6 DEF IInv, MainInv, PanicSparesReport
  <1> QED
    BY <1>7, <1>10, <1>11, <1>13, <1>14, <1>15, <1>16

(* A flagged entry is filed.                                               *)
LEMMA TakeResultInv ==
    ASSUME IInv, NEW w \in Workers, TakeResult(w)
    PROVE  AbsentStay' /\ OnePlace' /\ NoneUnreadable' /\ FiledFirst'
           /\ ResultsBeforeCount' /\ NilUntouched' /\ MainInv' /\ PanicSparesReport'
  <1> DEFINE e == held[w]
  <1> USE DEF TakeResult, config, readerVars
  <1>1. InChan' = InChan /\ Present' = Present
    BY DEF InChan, Present, Capacity
  <1>2. w \in Busy /\ Busy' = Busy
    BY DEF Busy, IInv, TypeOK
  <1>3. worker'[w] = "num" /\ \A v \in Workers \ {w} : worker'[v] = worker[v]
    BY DEF IInv, TypeOK
  <1>4. e \in Entries \ unreadable /\ Verdict(job, e).hit /\ e \notin unread \cup InChan \cup counted
    BY <1>2 DEF IInv, NoneUnreadable, OnePlace, FiledFirst
  <1>5. AbsentStay'
    BY <1>1, <1>3 DEF IInv, AbsentStay, TypeOK
  <1>6. OnePlace'
    BY <1>1, <1>2, <1>4 DEF IInv, OnePlace
  <1>7. NoneUnreadable'
    BY <1>1, <1>2 DEF IInv, NoneUnreadable
  <1>8. FiledFirst'
    <2>1. ASSUME NEW v \in Workers, worker'[v] = "flag" PROVE Verdict(job, held[v]).hit /\ held[v] \notin found'
      <3>1. v # w /\ worker[v] = "flag" /\ v \in Busy
        BY <1>3, <2>1 DEF Busy
      <3> QED
        BY <3>1, <1>2 DEF IInv, FiledFirst, OnePlace
    <2>2. ASSUME NEW v \in Workers, worker'[v] = "num", Verdict(job, held[v]).hit PROVE held[v] \in found'
      BY <1>3, <2>2 DEF IInv, FiledFirst
    <2> QED
      BY <2>1, <2>2 DEF FiledFirst
  <1>9. ResultsBeforeCount'
    <2>1. \A v \in Workers : worker[v] = "num" => worker'[v] = "num"
      BY <1>3
    <2>2. {held[v] : v \in {u \in Workers : worker[u] = "num"}} \cup {e}
              \subseteq {held'[v] : v \in {u \in Workers : worker'[u] = "num"}}
      BY <2>1, <1>3
    <2> QED
      BY <2>2, <1>4 DEF IInv, ResultsBeforeCount, Flagged
  <1>10. NilUntouched'
    BY <1>2 DEF IInv, NilUntouched
  <1>11. MainInv' /\ PanicSparesReport'
    BY <1>1 DEF IInv, MainInv, PanicSparesReport
  <1> QED
    BY <1>5, <1>6, <1>7, <1>8, <1>9, <1>10, <1>11

(* An entry is counted, and perhaps it was the last one.                   *)
LEMMA TakeNumInv ==
    ASSUME IInv, NEW w \in Workers, TakeNum(w)
    PROVE  AbsentStay' /\ OnePlace' /\ NoneUnreadable' /\ FiledFirst'
           /\ ResultsBeforeCount' /\ NilUntouched' /\ MainInv' /\ PanicSparesReport'
  <1> DEFINE e == held[w]
  <1> USE DEF TakeNum, config, readerVars
  <1>1. InChan' = InChan /\ Present' = Present
    BY DEF InChan, Present, Capacity
  <1>2. w \in Busy /\ Busy' = Busy \ {w}
    BY DEF Busy, IInv, TypeOK
  <1>3. /\ worker'[w] = "receiving" /\ worker[w] = "num"
        /\ \A v \in Workers \ {w} : worker'[v] = worker[v] /\ held'[v] = held[v]
    BY DEF IInv, TypeOK
  <1>4. e \in Entries \ unreadable /\ e \notin unread \cup InChan \cup counted
    BY <1>2 DEF IInv, NoneUnreadable, OnePlace
  <1>5. AbsentStay'
    BY <1>1, <1>3 DEF IInv, AbsentStay, TypeOK
  <1>6. OnePlace'
    <2>1. \A v \in Busy' : held'[v] = held[v] /\ held[v] # e
      BY <1>2, <1>3 DEF IInv, OnePlace, Busy
    <2> QED
      BY <2>1, <1>1, <1>2, <1>4 DEF IInv, OnePlace
  <1>7. NoneUnreadable'
    BY <1>1, <1>2, <1>3, <1>4 DEF IInv, NoneUnreadable, Busy
  <1>8. FiledFirst'
    BY <1>3 DEF IInv, FiledFirst
  <1>9. ResultsBeforeCount'
    <2>1. \A v \in Workers : worker[v] = "num" => v = w \/ (worker'[v] = "num" /\ held'[v] = held[v])
      BY <1>3
    <2>2. counted' = counted \cup {e}
      OBVIOUS
    <2>3. counted \cup {held[v] : v \in {u \in Workers : worker[u] = "num"}}
              \subseteq counted' \cup {held'[v] : v \in {u \in Workers : worker'[u] = "num"}}
      BY <2>1, <2>2
    <2>4. Verdict(job, e).hit => e \in found
      BY <1>3 DEF IInv, FiledFirst
    <2> QED
      BY <2>2, <2>3, <2>4 DEF IInv, ResultsBeforeCount, Flagged
  <1>10. NilUntouched' /\ database # "nil"
    BY <1>2 DEF IInv, NilUntouched
  <1>11. w \in Present
    BY <1>3 DEF IInv, AbsentStay
  <1>12. MainInv' /\ PanicSparesReport'
    BY <1>1, <1>10, <1>11 DEF IInv, MainInv, PanicSparesReport
  <1> QED
    BY <1>5, <1>6, <1>7, <1>8, <1>9, <1>10, <1>12

-----------------------------------------------------------------------------
(* Each action preserves the invariant.                                    *)
LEMMA StepInv == IInv /\ [Next]_vars => IInv'
  <1> SUFFICES ASSUME IInv, [Next]_vars PROVE IInv'
    OBVIOUS
  <1>1. TypeOK'
    BY TypeStep DEF IInv
  <1> DEFINE Rest == /\ AbsentStay' /\ OnePlace' /\ NoneUnreadable' /\ FiledFirst'
                     /\ ResultsBeforeCount' /\ NilUntouched' /\ MainInv' /\ PanicSparesReport'
  <1> SUFFICES Rest
    BY <1>1 DEF IInv
  <1>2. CASE ReaderPanics
    <2>1. UNCHANGED <<config, unread, fileChan, workerVars, found, counted>>
      BY <1>2 DEF ReaderPanics, readerVars, collectorVars
    <2>2. Busy' = Busy /\ Present' = Present
      BY <2>1 DEF Busy, Present, Capacity, workerVars, config
    <2>3. NilUntouched' /\ MainInv' /\ PanicSparesReport'
      BY <1>2, <2>1, <2>2
         DEF IInv, NilUntouched, MainInv, PanicSparesReport, ReaderPanics, readerVars, config
    <2> QED
      BY <2>1, <2>3, Bystander
  <1>3. ASSUME NEW e \in Entries, SkipEntry(e) PROVE Rest
    BY <1>3, SkipEntryInv
  <1>4. ASSUME NEW e \in Entries, ReadEntry(e) PROVE Rest
    BY <1>4, ReadEntryInv
  <1>5. CASE EndOfKeys
    <2>1. UNCHANGED <<config, unread, fileChan, workerVars, found, counted>>
      BY <1>5 DEF EndOfKeys, collectorVars
    <2>2. Busy' = Busy /\ Present' = Present
      BY <2>1 DEF Busy, Present, Capacity, workerVars, config
    <2>3. NilUntouched' /\ MainInv' /\ PanicSparesReport'
      BY <1>5, <2>1, <2>2
         DEF IInv, NilUntouched, MainInv, PanicSparesReport, EndOfKeys, config
    <2> QED
      BY <2>1, <2>3, Bystander
  <1>6. CASE CommitBatch
    <2>1. UNCHANGED <<config, unread, fileChan, workerVars, found, counted>>
      BY <1>6 DEF CommitBatch, collectorVars
    <2>2. Busy' = Busy /\ Present' = Present
      BY <2>1 DEF Busy, Present, Capacity, workerVars, config
    <2>3. database # "nil"
      BY <1>6 DEF CommitBatch, IInv, NilUntouched
    <2>4. database = "closed" => report = ReportOf(job, found)
      BY <1>6 DEF CommitBatch, Alive, IInv, MainInv
    <2>5. NilUntouched' /\ MainInv' /\ PanicSparesReport'
      BY <1>6, <2>1, <2>2, <2>3, <2>4
         DEF IInv, NilUntouched, MainInv, PanicSparesReport, CommitBatch, config
    <2> QED
      BY <2>1, <2>5, Bystander
  <1>7. ASSUME NEW w \in Workers, ReceiveEntry(w) PROVE Rest
    BY <1>7, ReceiveEntryInv
  <1>8. ASSUME NEW w \in Workers, TakeResult(w) PROVE Rest
    BY <1>8, TakeResultInv
  <1>9. ASSUME NEW w \in Workers, TakeNum(w) PROVE Rest
    BY <1>9, TakeNumInv
  <1>10. CASE MainStep
    <2>1. UNCHANGED <<config, unread, fileChan, workerVars, found, counted>>
      BY <1>10 DEF MainStep, WriteReport, CloseDatabase, Exit, readerVars, collectorVars
    <2>2. Busy' = Busy /\ Present' = Present
      BY <2>1 DEF Busy, Present, Capacity, workerVars, config
    <2>3. ASSUME WriteReport PROVE NilUntouched' /\ MainInv' /\ PanicSparesReport'
      BY <2>1, <2>2, <2>3
         DEF IInv, NilUntouched, MainInv, PanicSparesReport, WriteReport, config
    <2>4. ASSUME CloseDatabase PROVE NilUntouched' /\ MainInv' /\ PanicSparesReport'
      BY <2>1, <2>2, <2>4
         DEF IInv, NilUntouched, MainInv, PanicSparesReport, CloseDatabase, config
    <2>5. ASSUME Exit PROVE NilUntouched' /\ MainInv' /\ PanicSparesReport'
      BY <2>1, <2>2, <2>5
         DEF IInv, NilUntouched, MainInv, PanicSparesReport, Exit, config
    <2>6. NilUntouched' /\ MainInv' /\ PanicSparesReport'
      BY <1>10, <2>3, <2>4, <2>5 DEF MainStep
    <2> QED
      BY <2>1, <2>6, Bystander
  <1>11. CASE UNCHANGED vars
    <2>1. UNCHANGED <<config, unread, fileChan, workerVars, found, counted>>
      BY <1>11 DEF vars, readerVars, collectorVars
    <2>2. Busy' = Busy /\ Present' = Present
      BY <2>1 DEF Busy, Present, Capacity, workerVars, config
    <2>3. NilUntouched' /\ MainInv' /\ PanicSparesReport'
      BY <1>11, <2>1, <2>2
         DEF IInv, NilUntouched, MainInv, PanicSparesReport, vars, config, readerVars
    <2> QED
      BY <2>1, <2>3, Bystander
  <1> QED
    BY <1>2, <1>3, <1>4, <1>5, <1>6, <1>7, <1>8, <1>9, <1>10, <1>11
       DEF Next, ReaderStep, WorkerStep, Spin

(* The strengthened invariant holds throughout: the steps of the reader,   *)
(* of each worker with the collector, and of main preserve it.             *)
THEOREM Invariance == Spec => []IInv
  BY InitInv, StepInv, PTL DEF Spec

-----------------------------------------------------------------------------
(* What the invariant says of a phase that has ended by itself.            *)
LEMMA InvEnds == IInv => EndsOnlyOnCount
  <1> SUFFICES ASSUME IInv, main \in {"reporting", "closing", "exiting", "exited"}
               PROVE  /\ expected \in 1 .. Cardinality(Entries \ unreadable)
                      /\ atomicCount = expected
                      /\ job.phase # "download" => cpus >= 6
    BY DEF EndsOnlyOnCount
  <1>1. expected = Cardinality(counted) /\ counted # {} /\ Present # {}
    BY DEF IInv, MainInv
  <1>2. counted \subseteq Entries \ unreadable
    BY DEF IInv, NoneUnreadable, TypeOK
  <1>3. IsFiniteSet(Entries \ unreadable) /\ IsFiniteSet(counted)
    <2>1. IsFiniteSet(Entries \ unreadable)
      BY FS_Subset, ScanAssumption
    <2> QED
      BY <1>2, <2>1, FS_Subset
  <1>4. Cardinality(counted) \in Nat /\ Cardinality(Entries \ unreadable) \in Nat
        /\ Cardinality(counted) <= Cardinality(Entries \ unreadable)
    BY <1>2, <1>3, FS_Subset, FS_CardinalityType
  <1>5. Cardinality(counted) # 0
    BY <1>1, <1>3, FS_EmptySet
  <1>6. cpus \in Nat \ {0} /\ Capacity >= 2
    BY <1>1, CapacityType, ScanAssumption DEF Present, IInv, TypeOK
  <1>7. job.phase # "download" => cpus >= 6
    BY <1>6 DEF Capacity, MaxConcurrency, SystemMaxConcurrency
  <1> QED
    BY <1>1, <1>4, <1>5, <1>7 DEF atomicCount

(* The collector's map is the flagged part of what has been judged.        *)
LEMMA FoundIsFlagged == IInv => found = Flagged(job, counted \cup found)
  <1> SUFFICES ASSUME IInv PROVE found = Flagged(job, counted \cup found)
    OBVIOUS
  <1>1. Flagged(job, counted) \subseteq found
    BY DEF IInv, ResultsBeforeCount
  <1>2. \A e \in found : Verdict(job, e).hit
    BY DEF IInv, ResultsBeforeCount, Flagged
  <1> QED
    BY <1>1, <1>2 DEF Flagged

(* The group of a member of a group is that group.                         *)
LEMMA GroupOfMember ==
    ASSUME NEW j, NEW S, NEW e \in S, NEW f \in Group(j, e, S)
    PROVE  Group(j, f, S) = Group(j, e, S) /\ f \in S
  BY DEF Group

(* A phase that was told the number of entries has counted all of them.    *)
LEMMA InvComplete == IInv => ReportComplete
  <1> SUFFICES ASSUME IInv, Written, expected = Cardinality(Entries), job.phase # "download",
                      NEW e \in Entries
               PROVE  e \in UNION report <=>
                          /\ Verdict(job, e).hit
                          /\ Cardinality(Group(job, e, Flagged(job, Entries))) > Threshold(job)
    BY DEF ReportComplete
  <1>1. expected = Cardinality(counted) /\ report = ReportOf(job, found)
    BY DEF IInv, MainInv, Written
  <1>2. counted = Entries
    BY <1>1, FS_Subset, ScanAssumption DEF IInv, TypeOK
  <1>3. found = Flagged(job, Entries)
    <2>1. counted \cup found = Entries
      BY <1>2 DEF IInv, TypeOK
    <2> QED
      BY <2>1, FoundIsFlagged
  <1>4. ASSUME e \in UNION report
        PROVE  Verdict(job, e).hit /\ Cardinality(Group(job, e, found)) > Threshold(job)
    <2>1. PICK f \in found : e \in Group(job, f, found) /\ Cardinality(Group(job, f, found)) > Threshold(job)
      BY <1>1, <1>4 DEF ReportOf, Groups
    <2>2. Group(job, e, found) = Group(job, f, found) /\ e \in found
      BY <2>1, GroupOfMember
    <2> QED
      BY <1>3, <2>1, <2>2 DEF Flagged
  <1>5. ASSUME Verdict(job, e).hit, Cardinality(Group(job, e, found)) > Threshold(job)
        PROVE  e \in UNION report
    <2>1. e \in found
      BY <1>3, <1>5 DEF Flagged
    <2>2. Group(job, e, found) \in ReportOf(job, found)
      BY <1>5, <2>1 DEF ReportOf, Groups
    <2>3. e \in Group(job, e, found)
      BY <2>1 DEF Group
    <2> QED
      BY <1>1, <2>2, <2>3
  <1> QED
    BY <1>3, <1>4, <1>5

-----------------------------------------------------------------------------
(* The variables always have their types.                                  *)
THEOREM TypeCorrect == Spec => []TypeOK
  BY Invariance, PTL DEF IInv

(* A flagged entry is filed before it is counted, for any number of        *)
(* workers that send on the two channels concurrently.                     *)
THEOREM FiledBeforeCounted == Spec => []ResultsBeforeCount
  BY Invariance, PTL DEF IInv

(* A phase told the number of entries reports every entry that belongs in  *)
(* a report and no other, whatever the database and the verdicts.          *)
THEOREM CompleteReport == Spec => []ReportComplete
  BY Invariance, InvComplete, PTL

(* No phase ends by itself but on a count that its database can meet.      *)
THEOREM EndsOnCount == Spec => []EndsOnlyOnCount
  BY Invariance, InvEnds, PTL

(* Nothing that workers and reader do after the collector has left changes *)
(* what it has collected.                                                  *)
THEOREM FrozenOnceDone == Spec => FrozenAfterDone
  <1>1. [Next]_vars => [main # "waiting" => UNCHANGED <<found, counted, countNum>>]_vars
    <2> SUFFICES ASSUME Next, main # "waiting"
                 PROVE  UNCHANGED <<found, counted, countNum>>
      OBVIOUS
    <2>1. ASSUME ReaderStep PROVE UNCHANGED collectorVars
      BY <2>1 DEF ReaderStep, ReaderPanics, SkipEntry, ReadEntry, EndOfKeys, CommitBatch
    <2>2. ASSUME NEW w \in Workers, WorkerStep(w) PROVE UNCHANGED collectorVars
      BY <2>2 DEF WorkerStep, ReceiveEntry, TakeResult, TakeNum
    <2>3. ASSUME MainStep PROVE UNCHANGED collectorVars
      BY <2>3 DEF MainStep, WriteReport, CloseDatabase, Exit
    <2> QED
      BY <2>1, <2>2, <2>3 DEF Next, Spin, vars, collectorVars
  <1> QED
    BY <1>1, PTL DEF Spec, FrozenAfterDone

(* A panic of the reader comes before anything was done or after the       *)
(* report was written.                                                     *)
THEOREM PanicAfterReport == Spec => []PanicSparesReport
  BY Invariance, PTL DEF IInv

-----------------------------------------------------------------------------
(* The results beyond the threshold of the groups of R, as pairs of a      *)
(* group and a number.                                                     *)
Pairs(j, R) ==
    {gi \in R \X (1 .. Cardinality(Entries)) : gi[2] <= Cardinality(gi[1]) - Threshold(j)}

(* The collector has counted the results beyond the threshold of each      *)
(* group it has filed.                                                     *)
CountInv == job.phase # "download" => countNum = Cardinality(Pairs(job, ReportOf(job, found)))

(* A column of n pairs has n members.                                      *)
LEMMA ColumnSize ==
    ASSUME NEW x, NEW n \in Nat
    PROVE  /\ IsFiniteSet({<<x, i>> : i \in 1..n})
           /\ Cardinality({<<x, i>> : i \in 1..n}) = n
  <1> DEFINE C == {<<x, i>> : i \in 1..n}
             f == [i \in 1..n |-> <<x, i>>]
  <1>1. f \in Bijection(1..n, C)
    <2>1. f \in [1..n -> C]
      OBVIOUS
    <2>2. \A a, b \in 1..n : f[a] = f[b] => a = b
      OBVIOUS
    <2>3. \A t \in C : \E s \in 1..n : f[s] = t
      OBVIOUS
    <2> HIDE DEF f, C
    <2> QED
      BY <2>1, <2>2, <2>3 DEF Bijection, Injection, Surjection, IsInjective
  <1>2. ExistsBijection(1..n, C)
    BY <1>1 DEF ExistsBijection
  <1>3. IsFiniteSet(1..n) /\ Cardinality(1..n) = n
    BY FS_Interval
  <1> HIDE DEF C
  <1>4. IsFiniteSet(C) /\ Cardinality(C) = n
    BY <1>2, <1>3, FS_Bijection
  <1> QED
    BY <1>4 DEF C

(* Sets of entries are finite, and no larger than all of them.             *)
LEMMA EntriesFinite ==
    ASSUME NEW S, S \subseteq Entries
    PROVE  /\ IsFiniteSet(S) /\ Cardinality(S) \in Nat
           /\ Cardinality(Entries) \in Nat /\ Cardinality(S) <= Cardinality(Entries)
  <1>1. IsFiniteSet(Entries)
    BY ScanAssumption
  <1>2. S \in SUBSET Entries
    OBVIOUS
  <1> QED
    BY <1>1, <1>2, FS_Subset, FS_CardinalityType

(* The pairs are finitely many.                                            *)
LEMMA PairsFinite ==
    ASSUME NEW j, NEW R, R \subseteq SUBSET Entries
    PROVE  IsFiniteSet(Pairs(j, R)) /\ Cardinality(Pairs(j, R)) \in Nat
  <1>1. IsFiniteSet(Entries) /\ Cardinality(Entries) \in Nat
    BY ScanAssumption, FS_CardinalityType
  <1>2. IsFiniteSet(R)
    BY <1>1, FS_SUBSET, FS_Subset
  <1>3. IsFiniteSet(1 .. Cardinality(Entries))
    BY <1>1, FS_Interval
  <1>4. IsFiniteSet(R \X (1 .. Cardinality(Entries)))
    BY <1>2, <1>3, FS_Product
  <1>5. Pairs(j, R) \in SUBSET (R \X (1 .. Cardinality(Entries)))
    BY DEF Pairs
  <1>6. IsFiniteSet(Pairs(j, R))
    BY <1>4, <1>5, FS_Subset
  <1> QED
    BY <1>6, FS_CardinalityType

(* A group contributes what it has beyond the threshold.                   *)
LEMMA PairsOfGroup ==
    ASSUME NEW j \in Jobs, NEW R, R \subseteq SUBSET Entries, NEW x \in R, Cardinality(x) > Threshold(j)
    PROVE  Cardinality(Pairs(j, R)) = Cardinality(Pairs(j, R \ {x})) + Cardinality(x) - Threshold(j)
  <1> DEFINE n == Cardinality(x) - Threshold(j)
             C == {<<x, i>> : i \in 1..n}
             P == Pairs(j, R \ {x})
             N == Cardinality(Entries)
  <1>1. /\ Threshold(j) \in Nat /\ Cardinality(x) \in Nat
        /\ Cardinality(x) <= N /\ N \in Nat
    BY ScanAssumption, EntriesFinite DEF Threshold
  <1>2. n \in Nat /\ n <= N
    BY <1>1
  <1>3. IsFiniteSet(C) /\ Cardinality(C) = n
    <2> HIDE DEF n
    <2> QED
      BY <1>2, ColumnSize
  <1>4. IsFiniteSet(P) /\ Cardinality(P) \in Nat
    BY PairsFinite
  <1>5. Pairs(j, R) = P \cup C
    <2> HIDE DEF N
    <2>1. \A i : i \in 1..n <=> i \in 1..N /\ i <= n
      <3> HIDE DEF n
      <3> QED
        BY <1>1, <1>2
    <2>2. C = {gi \in {x} \X (1..N) : gi[2] <= Cardinality(gi[1]) - Threshold(j)}
      <3>1. C = {gi \in {x} \X (1..N) : gi[2] <= n}
        <4> HIDE DEF n
        <4> QED
          BY <2>1
      <3> QED
        BY <3>1
    <2> HIDE DEF C, n
    <2> QED
      BY <2>2 DEF Pairs, N
  <1>6. P \cap C = {}
    BY DEF Pairs
  <1> HIDE DEF P, C, n
  <1>7. Cardinality(P \cup C) = Cardinality(P) + Cardinality(C) - Cardinality(P \cap C)
    BY <1>3, <1>4, FS_Union
  <1>8. Cardinality(P \cap C) = 0
    BY <1>6, FS_EmptySet
  <1>9. Cardinality(Pairs(j, R)) = Cardinality(P) + n
    BY <1>2, <1>3, <1>4, <1>5, <1>7, <1>8
  <1> QED
    BY <1>1, <1>4, <1>9 DEF n, P

(* A group that is set aside, whether it is reported or not.               *)
LEMMA PairsSplit ==
    ASSUME NEW j \in Jobs, NEW R, R \subseteq SUBSET Entries, NEW x, x \subseteq Entries,
           x \in R <=> Cardinality(x) > Threshold(j)
    PROVE  Cardinality(Pairs(j, R)) = Cardinality(Pairs(j, R \ {x}))
              + IF Cardinality(x) > Threshold(j) THEN Cardinality(x) - Threshold(j) ELSE 0
  <1>1. Threshold(j) \in Nat /\ Cardinality(x) \in Nat /\ Cardinality(Pairs(j, R \ {x})) \in Nat
    BY ScanAssumption, EntriesFinite, PairsFinite DEF Threshold
  <1>2. CASE x \in R
    BY <1>1, <1>2, PairsOfGroup
  <1>3. CASE x \notin R
    <2>1. R \ {x} = R
      BY <1>3
    <2>2. Cardinality(Pairs(j, R)) = Cardinality(Pairs(j, R \ {x})) /\ ~(Cardinality(x) > Threshold(j))
      BY <1>3, <2>1
    <2> QED
      BY <1>1, <2>2
  <1> QED
    BY <1>2, <1>3

(* The count goes up by one when the group outgrows the threshold with it: *)
(* an entry that is filed moves its group, and no other.                   *)
LEMMA PairsGrow ==
    ASSUME NEW j \in Jobs, j.phase # "download", NEW S, S \subseteq Entries, NEW e \in Entries, e \notin S
    PROVE  Cardinality(Pairs(j, ReportOf(j, S \cup {e}))) =
              Cardinality(Pairs(j, ReportOf(j, S)))
              + IF Cardinality(Group(j, e, S \cup {e})) > Threshold(j) THEN 1 ELSE 0
  <1> DEFINE U == S \cup {e}
             G == Group(j, e, U)
             g == G \ {e}
             T == Threshold(j)
  <1>1. /\ Groups(j, U) \ {G} = Groups(j, S) \ {g}
        /\ G \in Groups(j, U) /\ (g # {} => g \in Groups(j, S))
        /\ e \in G /\ G \subseteq U
    <2>1. e \in G /\ G \subseteq U /\ G \in Groups(j, U) /\ e \in U
      BY DEF Group, Groups
    <2>2. ASSUME NEW f \in S, f \in G
          PROVE  Group(j, f, S) = g /\ Group(j, f, U) = G
      BY <2>2 DEF Group
    <2>3. ASSUME NEW f \in S, f \notin G
          PROVE  Group(j, f, S) = Group(j, f, U) /\ f \in Group(j, f, S)
      BY <2>3 DEF Group
    <2>4. Groups(j, U) = {Group(j, f, U) : f \in S} \cup {G}
      BY DEF Groups
    <2> HIDE DEF U, G, T
    <2>5. Groups(j, S) = {Group(j, f, S) : f \in S}
      BY DEF Groups
    <2>6. ASSUME NEW x, x \in Groups(j, U) \ {G} PROVE x \in Groups(j, S) \ {g}
      <3>1. PICK f \in S : x = Group(j, f, U)
        BY <2>4, <2>6
      <3>2. f \notin G
        BY <2>2, <2>6, <3>1
      <3> QED
        BY <2>3, <2>5, <3>1, <3>2
    <2>7. ASSUME NEW x, x \in Groups(j, S) \ {g} PROVE x \in Groups(j, U) \ {G}
      <3>1. PICK f \in S : x = Group(j, f, S)
        BY <2>5, <2>7
      <3>2. f \notin G
        BY <2>2, <2>7, <3>1
      <3> QED
        BY <2>3, <2>4, <3>1, <3>2
    <2>8. Groups(j, U) \ {G} = Groups(j, S) \ {g}
      BY <2>6, <2>7
    <2>9. g # {} => g \in Groups(j, S)
      <3> SUFFICES ASSUME NEW f \in g PROVE g \in Groups(j, S)
        OBVIOUS
      <3>1. f \in S /\ f \in G
        BY <2>1 DEF U
      <3> QED
        BY <2>2, <2>5, <3>1
    <2> QED
      BY <2>1, <2>8, <2>9 DEF G, U
  <1>2. /\ Groups(j, S) \subseteq SUBSET Entries /\ Groups(j, U) \subseteq SUBSET Entries
        /\ G \subseteq Entries /\ g \subseteq Entries /\ T \in Nat
    BY ScanAssumption DEF Groups, Group, Threshold
  <1>3. /\ IsFiniteSet(G) /\ Cardinality(G) \in Nat /\ Cardinality(g) \in Nat
    BY <1>2, EntriesFinite
  <1>4. Cardinality(g) = Cardinality(G) - 1
    BY <1>1, <1>3, FS_RemoveElement
  <1> DEFINE R == ReportOf(j, S)
             RU == ReportOf(j, U)
  <1>5. R = {x \in Groups(j, S) : Cardinality(x) > T} /\ RU = {x \in Groups(j, U) : Cardinality(x) > T}
    BY DEF ReportOf
  <1>6. Cardinality(g) > T => g # {}
    <2>1. g = {} => Cardinality(g) = 0
      BY FS_EmptySet
    <2>2. Cardinality(g) = 0 => ~(Cardinality(g) > T)
      <3>1. T \in Nat
        BY <1>2
      <3> HIDE DEF T
      <3> QED
        BY <3>1
    <2> QED
      BY <2>1, <2>2
  <1> HIDE DEF G, R, RU, T, U
  <1>7. /\ G \in RU <=> Cardinality(G) > T
        /\ g \in R <=> Cardinality(g) > T
        /\ RU \ {G} = R \ {g} /\ R \subseteq SUBSET Entries /\ RU \subseteq SUBSET Entries
    BY <1>1, <1>2, <1>5, <1>6
  <1>8. Cardinality(Pairs(j, RU)) = Cardinality(Pairs(j, RU \ {G}))
              + IF Cardinality(G) > T THEN Cardinality(G) - T ELSE 0
    BY <1>2, <1>7, PairsSplit DEF T
  <1>9. Cardinality(Pairs(j, R)) = Cardinality(Pairs(j, R \ {g}))
              + IF Cardinality(g) > T THEN Cardinality(g) - T ELSE 0
    BY <1>2, <1>7, PairsSplit DEF T
  <1>10. Cardinality(Pairs(j, R \ {g})) \in Nat
    BY <1>7, PairsFinite
  <1>11. Cardinality(Pairs(j, RU \ {G})) = Cardinality(Pairs(j, R \ {g}))
    BY <1>7
  <1> DEFINE c == Cardinality(G)
             n == Cardinality(Pairs(j, R \ {g}))
             p == Cardinality(Pairs(j, R))
             q == Cardinality(Pairs(j, RU))
  <1>12. /\ T \in Nat /\ c \in Nat /\ n \in Nat
         /\ q = n + IF c > T THEN c - T ELSE 0
         /\ p = n + IF c - 1 > T THEN c - 1 - T ELSE 0
    BY <1>2, <1>3, <1>4, <1>8, <1>9, <1>10, <1>11
  <1> HIDE DEF c, n, p, q
  <1>13. q = p + IF c > T THEN 1 ELSE 0
    BY <1>12
  <1> QED
    BY <1>13 DEF c, p, q, R, RU, G, T, U

(* Nothing is counted before something is filed.                           *)
LEMMA CountInit ==
    ASSUME Init
    PROVE  CountInv
  <1>1. ReportOf(job, found) = {}
    BY DEF Init, ReportOf, Groups
  <1>2. Pairs(job, ReportOf(job, found)) = {}
    BY <1>1 DEF Pairs
  <1> QED
    BY <1>2, FS_EmptySet DEF Init, CountInv

(* Only the collector's receive of a result files and counts.              *)
LEMMA CountStep ==
    ASSUME IInv, CountInv, [Next]_vars
    PROVE  CountInv'
  <1>1. ASSUME UNCHANGED <<config, found, countNum>> PROVE CountInv'
    BY <1>1 DEF CountInv, config
  <1>2. ASSUME ReaderStep PROVE UNCHANGED <<config, found, countNum>>
    BY <1>2 DEF ReaderStep, ReaderPanics, SkipEntry, ReadEntry, EndOfKeys, CommitBatch, collectorVars
  <1>3. ASSUME NEW w \in Workers, ReceiveEntry(w) \/ TakeNum(w)
        PROVE  UNCHANGED <<config, found, countNum>>
    BY <1>3 DEF ReceiveEntry, TakeNum, collectorVars
  <1>4. ASSUME MainStep PROVE UNCHANGED <<config, found, countNum>>
    BY <1>4 DEF MainStep, WriteReport, CloseDatabase, Exit, collectorVars
  <1>5. ASSUME NEW w \in Workers, TakeResult(w) PROVE CountInv'
    <2>1. /\ held[w] \in Entries /\ held[w] \notin found /\ found \subseteq Entries /\ job \in Jobs
      BY <1>5 DEF IInv, TypeOK, NoneUnreadable, FiledFirst, Busy, TakeResult
    <2>2. /\ found' = found \cup {held[w]} /\ job' = job
          /\ countNum' = countNum + IF Cardinality(Group(job, held[w], found')) > Threshold(job) THEN 1 ELSE 0
      BY <1>5 DEF TakeResult, config
    <2> SUFFICES ASSUME job.phase # "download"
                 PROVE  countNum' = Cardinality(Pairs(job, ReportOf(job, found')))
      BY <2>2 DEF CountInv
    <2>3. Cardinality(Pairs(job, ReportOf(job, found'))) =
             Cardinality(Pairs(job, ReportOf(job, found)))
             + IF Cardinality(Group(job, held[w], found')) > Threshold(job) THEN 1 ELSE 0
      BY <2>1, <2>2, PairsGrow
    <2> QED
      BY <2>2, <2>3 DEF CountInv
  <1>6. CASE UNCHANGED vars
    BY <1>1, <1>6 DEF vars, collectorVars
  <1> QED
    BY <1>1, <1>2, <1>3, <1>4, <1>5, <1>6 DEF Next, WorkerStep, Spin

(* A report with a group has a result beyond the threshold.                *)
LEMMA InvCount ==
    ASSUME IInv, CountInv
    PROVE  CountNumAgrees
  <1> SUFFICES ASSUME job.phase # "download" PROVE
        /\ countNum = Cardinality(Pairs(job, ReportOf(job, found)))
        /\ Written => (countNum = 0 <=> report = {})
    BY DEF CountNumAgrees, Pairs
  <1>1. countNum = Cardinality(Pairs(job, ReportOf(job, found)))
    BY DEF CountInv
  <1>2. ReportOf(job, found) \subseteq SUBSET Entries /\ Threshold(job) \in Nat
    <2>1. Threshold(job) \in Nat
      BY ScanAssumption DEF Threshold
    <2>2. found \subseteq Entries
      BY DEF IInv, TypeOK
    <2> QED
      BY <2>1, <2>2 DEF ReportOf, Groups, Group
  <1>3. countNum = 0 <=> Pairs(job, ReportOf(job, found)) = {}
    <2>1. IsFiniteSet(Pairs(job, ReportOf(job, found)))
      BY <1>2, PairsFinite
    <2> QED
      BY <1>1, <2>1, FS_EmptySet
  <1>4. ASSUME NEW x \in ReportOf(job, found)
        PROVE  <<x, 1>> \in Pairs(job, ReportOf(job, found))
    <2>1. Cardinality(x) > Threshold(job) /\ x \subseteq Entries
      BY <1>2 DEF ReportOf
    <2>2. Cardinality(x) \in Nat /\ Cardinality(Entries) \in Nat /\ Cardinality(x) <= Cardinality(Entries)
      BY <2>1, EntriesFinite
    <2>3. 1 \in 1..Cardinality(Entries) /\ 1 <= Cardinality(x) - Threshold(job)
      BY <1>2, <2>1, <2>2
    <2> QED
      BY <2>3 DEF Pairs
  <1>5. Pairs(job, ReportOf(job, found)) = {} <=> ReportOf(job, found) = {}
    BY <1>4 DEF Pairs
  <1>6. Written => report = ReportOf(job, found)
    BY DEF Written, IInv, MainInv
  <1> QED
    BY <1>1, <1>3, <1>5, <1>6

(* The number a phase returns is the number of results beyond the          *)
(* threshold of their groups, and 0 exactly when nothing is reported.      *)
THEOREM CountAgrees == Spec => []CountNumAgrees
  <1>1. Init => CountInv
    BY CountInit
  <1>2. IInv /\ CountInv /\ [Next]_vars => CountInv'
    BY CountStep
  <1>3. IInv /\ CountInv => CountNumAgrees
    BY InvCount
  <1> QED
    BY <1>1, <1>2, <1>3, Invariance, PTL DEF Spec

-----------------------------------------------------------------------------
(* The phase starts as the contract does.                                  *)
LEMMA InitRefines == Init => Contract!Init
  <1> SUFFICES ASSUME Init PROVE Contract!Init
    OBVIOUS
  <1>1. Judged = {} /\ Cardinality(Judged) = 0
    BY FS_EmptySet DEF Init, Judged
  <1>2. Cardinality(Entries) \in Nat /\ expected \in Nat
    BY ScanAssumption, FS_CardinalityType DEF Init
  <1> QED
    BY <1>1, <1>2 DEF Init, Contract!Init, PhaseState

(* An entry that is judged for the first time raises their number by one.  *)
LEMMA OneMoreJudged ==
    ASSUME IInv, NEW e \in Entries, e \notin Judged, Judged' = Judged \cup {e}
    PROVE  Cardinality(Judged') = Cardinality(Judged) + 1
  <1>1. IsFiniteSet(Judged)
    BY FS_Subset, ScanAssumption DEF IInv, TypeOK, Judged
  <1> QED
    BY <1>1, FS_AddElement

(* Every step of the goroutines is a step of the contract or a stutter.    *)
LEMMA StepRefines ==
    ASSUME IInv, IInv', [Next]_vars
    PROVE  [Contract!Next]_(Contract!phaseVars)
  <1> DEFINE Same == UNCHANGED <<job, expected, Judged, report, PhaseState>>
  <1>1. CASE Same
    BY <1>1 DEF Contract!phaseVars
  <1>2. ASSUME ReaderPanics PROVE Contract!Panic
    <2>1. main = "waiting" /\ main' = "panicked" /\ Judged = {}
      BY <1>2 DEF ReaderPanics, Alive, IInv, NilUntouched, Judged
    <2>2. UNCHANGED <<job, expected, counted, found, report>>
      BY <1>2 DEF ReaderPanics, config, collectorVars
    <2> QED
      BY <2>1, <2>2 DEF Contract!Panic, PhaseState, Judged
  <1>3. ASSUME NEW e \in Entries, SkipEntry(e) \/ ReadEntry(e) PROVE Same
    BY <1>3 DEF SkipEntry, ReadEntry, config, collectorVars, Judged, PhaseState
  <1>4. ASSUME EndOfKeys PROVE Same
    BY <1>4 DEF EndOfKeys, config, collectorVars, Judged, PhaseState
  <1>5. ASSUME CommitBatch PROVE Same \/ Contract!Panic
    <2>1. UNCHANGED <<job, expected, counted, found, report>>
      BY <1>5 DEF CommitBatch, config, collectorVars
    <2>2. CASE database # "closed"
      BY <1>5, <2>1, <2>2 DEF CommitBatch, Judged, PhaseState
    <2>3. CASE database = "closed"
      <3>1. main = "exiting" /\ main' = "panicked"
        BY <1>5, <2>3 DEF CommitBatch, Alive, IInv, MainInv
      <3> QED
        BY <2>1, <3>1 DEF Contract!Panic, PhaseState, Judged
    <2> QED
      BY <2>2, <2>3
  <1>6. ASSUME NEW w \in Workers, ReceiveEntry(w) PROVE Same
    BY <1>6 DEF ReceiveEntry, config, collectorVars, Judged, PhaseState
  <1>7. ASSUME NEW w \in Workers, TakeResult(w) PROVE Contract!Judge
    <2>1. /\ held[w] \in Entries \ Judged
          /\ Judged' = Judged \cup {held[w]}
      BY <1>7 DEF TakeResult, IInv, NoneUnreadable, OnePlace, FiledFirst, Busy, Judged
    <2>2. Cardinality(Judged') = Cardinality(Judged) + 1
      BY <2>1, OneMoreJudged
    <2> QED
      BY <1>7, <2>1, <2>2 DEF TakeResult, config, Contract!Judge, PhaseState
  <1>8. ASSUME NEW w \in Workers, TakeNum(w) PROVE Same \/ Contract!Judge
    <2>1. /\ held[w] \in Entries
          /\ Judged' = Judged \cup {held[w]}
      BY <1>8 DEF TakeNum, IInv, NoneUnreadable, Busy, Judged
    <2>2. main = "waiting" /\ main' \in {"waiting", "reporting"}
          /\ UNCHANGED <<job, expected, found, report>>
      BY <1>8 DEF TakeNum, config
    <2>3. CASE held[w] \in Judged
      BY <2>1, <2>2, <2>3 DEF PhaseState
    <2>4. CASE held[w] \notin Judged
      <3>1. Cardinality(Judged') = Cardinality(Judged) + 1
        BY <2>1, <2>4, OneMoreJudged
      <3> QED
        BY <2>1, <2>2, <2>4, <3>1 DEF Contract!Judge, PhaseState
    <2> QED
      BY <2>3, <2>4
  <1>9. ASSUME WriteReport PROVE Contract!Write
    <2>1. /\ main = "reporting" /\ main' = "closing"
          /\ UNCHANGED <<job, expected, counted, found>>
          /\ report' = ReportOf(job, found)
      BY <1>9 DEF WriteReport, config, collectorVars
    <2>2. expected \in Nat \ {0} /\ expected = Cardinality(counted)
      BY <2>1, InvEnds DEF EndsOnlyOnCount, atomicCount
    <2>3. Cardinality(counted) <= Cardinality(Judged)
      BY FS_Subset, ScanAssumption DEF IInv, TypeOK, Judged
    <2>4. report' = ReportOf(job, Flagged(job, Judged))
      BY <2>1, FoundIsFlagged DEF Judged
    <2> QED
      BY <2>1, <2>2, <2>3, <2>4 DEF Contract!Write, PhaseState, Judged
  <1>10. ASSUME CloseDatabase PROVE Same
    BY <1>10 DEF CloseDatabase, config, collectorVars, Judged, PhaseState
  <1>11. ASSUME Exit PROVE Contract!Exit
    BY <1>11 DEF Exit, config, collectorVars, PhaseState, Judged, Contract!Exit
  <1>12. CASE UNCHANGED vars
    BY <1>12 DEF Contract!phaseVars, vars, config, collectorVars, Judged, PhaseState
  <1> HIDE DEF Same
  <1> QED
    BY <1>1, <1>2, <1>3, <1>4, <1>5, <1>6, <1>7, <1>8, <1>9, <1>10, <1>11, <1>12
       DEF Next, ReaderStep, WorkerStep, MainStep, Spin, Contract!Next

(* The goroutines of a phase keep the contract that frs counts on: a phase *)
(* that ends by itself has judged what it was told to, and its report is   *)
(* made of what it judged.                                                 *)
THEOREM Refinement == Spec => ImplementsContract
  <1>1. Init => Contract!Init
    BY InitRefines
  <1>2. IInv /\ IInv' /\ [Next]_vars => [Contract!Next]_(Contract!phaseVars)
    BY StepRefines
  <1> QED
    BY <1>1, <1>2, Invariance, PTL DEF Spec, ImplementsContract, Contract!Spec
=============================================================================
