---------------------------- MODULE OriginProofs ----------------------------
(***************************************************************************)
(* What holds of Origin for every set of files and workers, every keying   *)
(* and every batch size.                                                   *)
(*                                                                         *)
(* The inductive invariant IInv says where each file is.  A worker is busy *)
(* with a file from the moment it receives it until it has counted it, so  *)
(* the counter lags behind the visited files by the number of busy         *)
(* workers; the main goroutine returns only after one signal per worker,   *)
(* and a worker that has signalled is not busy.                            *)
(***************************************************************************)
EXTENDS Origin, FiniteSetTheorems, SequenceTheorems, TLAPS

Busy == {w \in Workers : worker[w] \in {"stat", "enqueue", "count"}}

Exited == {w \in Workers : worker[w] = "exited"}

(* A busy worker holds a file that was visited.                            *)
HeldVisited == \A w \in Busy : held[w] \in Visited

(* The queue holds visited files, and less than a batch of them.           *)
QueueVisited == Range(queue) \subseteq Visited /\ Len(queue) < BatchSize

(* The counter lags behind the visited files by the busy workers.          *)
CountLag == count + Cardinality(Busy) = Cardinality(Visited)

(* Signals received are workers that have left.                            *)
DonesExact == dones = Cardinality(Exited)

(* The main goroutine returns after all workers, with an empty queue.      *)
ReturnedLast == main = "returned" => Exited = Workers /\ queue = <<>>

(* The database gains entries of visited files only.                       *)
VisitedStored == db \subseteq KeysOf(Visited)

(* An entry is of this run or of an earlier one, and those are finitely    *)
(* many.                                                                   *)
OldApart == db \cap old = {} /\ IsFiniteSet(old)

IInv ==
    /\ TypeOK
    /\ HeldVisited
    /\ QueueVisited
    /\ CountLag
    /\ DonesExact
    /\ ReturnedLast
    /\ NoFileLost
    /\ VisitedStored
    /\ OldApart

-----------------------------------------------------------------------------
(* Appending a line adds its file to the files queued.                     *)
LEMMA RangeAppend ==
    ASSUME NEW q \in Seq(Paths), NEW p \in Paths
    PROVE  /\ Append(q, p) \in Seq(Paths)
           /\ Len(Append(q, p)) = Len(q) + 1
           /\ Range(Append(q, p)) = Range(q) \cup {p}
  <1>1. /\ Append(q, p) \in Seq(Paths)
        /\ Len(Append(q, p)) = Len(q) + 1
        /\ \A i \in 1..Len(q) : Append(q, p)[i] = q[i]
        /\ Append(q, p)[Len(q) + 1] = p
    BY AppendProperties
  <1>2. /\ DOMAIN q = 1..Len(q)
        /\ DOMAIN Append(q, p) = 1..(Len(q) + 1)
        /\ Len(q) \in Nat
    BY <1>1, LenProperties
  <1>3. 1..(Len(q) + 1) = 1..Len(q) \cup {Len(q) + 1}
    BY <1>2
  <1> QED
    BY <1>1, <1>2, <1>3 DEF Range

(* The files and workers are finitely many, and so are their subsets.      *)
LEMMA FiniteParts ==
    ASSUME TypeOK
    PROVE  /\ IsFiniteSet(Visited) /\ Cardinality(Visited) \in Nat
           /\ IsFiniteSet(Busy) /\ Cardinality(Busy) \in Nat
           /\ IsFiniteSet(Exited) /\ Cardinality(Exited) \in Nat
  BY BatchAssumption, OriginAssumption, FS_Subset, FS_CardinalityType
     DEF Visited, Busy, Exited

(* Before the walk nothing is queued, saved or counted.                    *)
LEMMA InitInv == Init => IInv
  <1> SUFFICES ASSUME Init PROVE IInv
    OBVIOUS
  <1> USE DEF Init, BatchInit
  <1>1. TypeOK
    BY EmptySeq, BatchAssumption DEF TypeOK, BatchTypeOK
  <1>2. Visited = {} /\ Busy = {} /\ Exited = {} /\ Range(queue) = {}
    BY DEF Visited, Busy, Exited, Range
  <1>3. QueueVisited /\ Len(queue) = 0
    BY <1>2, BatchAssumption, EmptySeq DEF QueueVisited
  <1>4. CountLag /\ DonesExact
    BY <1>2, FS_EmptySet DEF CountLag, DonesExact
  <1>5. OldApart
    BY BatchAssumption DEF OldApart
  <1> QED
    BY <1>1, <1>2, <1>3, <1>4, <1>5
       DEF IInv, HeldVisited, ReturnedLast, NoFileLost, VisitedStored

-----------------------------------------------------------------------------
(* The queue hands every line over: after an Enqueue, each line that was   *)
(* queued and the new one are queued still or have their key saved, and    *)
(* the queue is short of a batch again.                                    *)
LEMMA EnqueueHandsOver ==
    ASSUME BatchTypeOK, OldApart, Len(queue) < BatchSize, UNCHANGED opened,
           NEW p \in Paths, Enqueue(p)
    PROVE  /\ BatchTypeOK' /\ OldApart' /\ Len(queue') < BatchSize
           /\ Range(queue') \subseteq Range(queue) \cup {p}
           /\ db \subseteq db'
           /\ db' \subseteq db \cup KeysOf(Range(queue) \cup {p})
           /\ \A x \in Range(queue) \cup {p} :
                  x \in Range(queue') \/ KeyOf[x] \in db'
  <1> DEFINE q == Append(queue, p)
  <1>1. /\ q \in Seq(Paths)
        /\ Len(q) = Len(queue) + 1
        /\ Range(q) = Range(queue) \cup {p}
    BY RangeAppend DEF BatchTypeOK
  <1>2. Len(queue) \in Nat /\ BatchSize \in Nat \ {0}
    BY LenProperties, BatchAssumption DEF BatchTypeOK
  <1>3. Range(q) \subseteq Paths
    BY <1>1, LenProperties DEF Range
  <1> HIDE DEF q
  <1>4. CASE ~WouldFlush
    <2>1. queue' = q /\ db' = db /\ old' = old
      BY <1>4 DEF Enqueue, q
    <2> QED
      BY <1>1, <1>2, <1>4, <2>1 DEF WouldFlush, BatchTypeOK, OldApart
  <1>5. CASE WouldFlush
    <2>1. /\ queue' = <<>> /\ db' = db \cup KeysOf(Range(q))
          /\ old' = old \ KeysOf(Range(q))
      BY <1>5 DEF Enqueue, Save, q
    <2>2. <<>> \in Seq(Paths) /\ Len(<<>>) = 0 /\ Range(<<>>) = {}
      BY EmptySeq DEF Range
    <2>3. KeysOf(Range(q)) \subseteq Keys
      BY <1>3, BatchAssumption DEF KeysOf
    <2>4. \A x \in Range(q) : KeyOf[x] \in KeysOf(Range(q))
      BY DEF KeysOf
    <2>5. Range(queue') = {} /\ Len(queue') = 0
      BY <2>1, <2>2
    <2>6. BatchTypeOK'
      BY <2>1, <2>2, <2>3 DEF BatchTypeOK
    <2>7. db' = db \cup KeysOf(Range(queue) \cup {p})
      BY <1>1, <2>1
    <2>8. \A x \in Range(queue) \cup {p} : KeyOf[x] \in db'
      BY <1>1, <2>1, <2>4
    <2>9. Len(queue') < BatchSize
      BY <1>2, <2>5
    <2>10. Range(queue') \subseteq Range(queue) \cup {p}
      BY <2>5
    <2>11. OldApart'
      BY <2>1, FS_Subset DEF OldApart
    <2> QED
      BY <2>6, <2>7, <2>8, <2>9, <2>10, <2>11
  <1> QED
    BY <1>4, <1>5

(* A worker that only changes what it does with its file, without becoming *)
(* or ceasing to be busy, leaves the counts of workers as they are.        *)
LEMMA StillBusy ==
    ASSUME TypeOK, NEW w \in Busy, NEW s \in {"stat", "enqueue", "count"},
           worker' = [worker EXCEPT ![w] = s]
    PROVE  Busy' = Busy /\ Exited' = Exited
  BY DEF TypeOK, Busy, Exited

(* Steps that touch neither the files in flight nor the counters.          *)
LEMMA Bystander ==
    ASSUME IInv, TypeOK', main' = "returned" => main = "returned",
           UNCHANGED <<bqVars, todo, workerVars, dones, count>>
    PROVE  IInv'
  <1> USE DEF IInv, bqVars, workerVars
  <1>1. UNCHANGED <<Visited, Busy, Exited>>
    BY DEF Visited, Busy, Exited
  <1>2. HeldVisited' /\ QueueVisited'
    BY <1>1 DEF HeldVisited, QueueVisited
  <1>3. CountLag' /\ DonesExact' /\ ReturnedLast'
    BY <1>1 DEF CountLag, DonesExact, ReturnedLast
  <1>4. NoFileLost' /\ VisitedStored' /\ OldApart'
    BY <1>1 DEF NoFileLost, VisitedStored, OldApart, InHand
  <1> QED
    BY <1>2, <1>3, <1>4

(* The walk hands a file over: one more visited file, one more busy worker.*)
LEMMA SendFileInv ==
    ASSUME IInv, NEW w \in Workers, NEW p \in Paths, SendFile(w, p)
    PROVE  IInv'
  <1> USE DEF IInv, SendFile, bqVars
  <1>1. TypeOK'
    BY DEF TypeOK, BatchTypeOK
  <1>2. /\ Visited' = Visited \cup {p} /\ p \notin Visited
        /\ Busy' = Busy \cup {w} /\ w \notin Busy
        /\ Exited' = Exited
    BY DEF TypeOK, Visited, Busy, Exited
  <1>3. HeldVisited'
    BY <1>2 DEF TypeOK, HeldVisited, Busy
  <1>4. QueueVisited'
    BY <1>2 DEF QueueVisited
  <1>5. CountLag'
    <2>1. /\ Cardinality(Visited') = Cardinality(Visited) + 1
          /\ Cardinality(Busy') = Cardinality(Busy) + 1
      BY <1>2, FiniteParts, FS_AddElement
    <2> QED
      BY <2>1, FiniteParts DEF CountLag, TypeOK
  <1>6. DonesExact' /\ ReturnedLast'
    BY <1>2 DEF DonesExact, ReturnedLast
  <1>7. NoFileLost'
    BY <1>2 DEF TypeOK, NoFileLost, InHand
  <1>8. VisitedStored' /\ OldApart'
    BY <1>2 DEF VisitedStored, OldApart, KeysOf
  <1> QED
    BY <1>1, <1>3, <1>4, <1>5, <1>6, <1>7, <1>8

(* The worker keeps its file from the stat to the queue.                   *)
LEMMA StatMetadataInv ==
    ASSUME IInv, NEW w \in Workers, StatMetadata(w)
    PROVE  IInv'
  <1> USE DEF IInv, StatMetadata, bqVars, walkVars
  <1>1. TypeOK'
    BY DEF TypeOK, BatchTypeOK
  <1>2. Visited' = Visited /\ Busy' = Busy /\ Exited' = Exited
    BY StillBusy DEF Visited, Busy
  <1>3. HeldVisited' /\ QueueVisited' /\ CountLag' /\ DonesExact'
    BY <1>2 DEF HeldVisited, QueueVisited, CountLag, DonesExact
  <1>4. ReturnedLast'
    BY DEF ReturnedLast, Alive
  <1>5. NoFileLost'
    BY <1>2 DEF TypeOK, NoFileLost, InHand
  <1>6. VisitedStored' /\ OldApart'
    BY <1>2 DEF VisitedStored, OldApart
  <1> QED
    BY <1>1, <1>3, <1>4, <1>5, <1>6

(* The worker's file passes from its hand to the queue or the database.    *)
LEMMA EnqueueFileInv ==
    ASSUME IInv, NEW w \in Workers, EnqueueFile(w)
    PROVE  IInv'
  <1> USE DEF IInv
  <1> DEFINE p == held[w]
  <1>1. /\ Alive /\ worker[w] = "enqueue" /\ Enqueue(p) /\ UNCHANGED opened
        /\ worker' = [worker EXCEPT ![w] = "count"]
        /\ UNCHANGED <<todo, gone, walkErr, held, main, dones, count>>
    BY DEF EnqueueFile, walkVars
  <1>2. Visited' = Visited /\ Busy' = Busy /\ Exited' = Exited /\ w \in Busy
    BY <1>1, StillBusy DEF Visited, Busy
  <1>3. p \in Visited /\ p \in Paths
    BY <1>2 DEF HeldVisited, Visited
  <1>4. /\ BatchTypeOK' /\ OldApart' /\ Len(queue') < BatchSize
        /\ Range(queue') \subseteq Range(queue) \cup {p}
        /\ db \subseteq db'
        /\ db' \subseteq db \cup KeysOf(Range(queue) \cup {p})
        /\ \A x \in Range(queue) \cup {p} :
               x \in Range(queue') \/ KeyOf[x] \in db'
    BY <1>1, <1>3, EnqueueHandsOver DEF TypeOK, QueueVisited
  <1> HIDE DEF p
  <1>5. TypeOK'
    BY <1>1, <1>4 DEF TypeOK
  <1>6. HeldVisited' /\ CountLag' /\ DonesExact'
    BY <1>1, <1>2 DEF HeldVisited, CountLag, DonesExact
  <1>7. QueueVisited'
    BY <1>2, <1>3, <1>4 DEF QueueVisited
  <1>8. ReturnedLast'
    BY <1>1 DEF ReturnedLast, Alive
  <1>9. NoFileLost'
    <2> SUFFICES ASSUME NEW x \in Visited
                 PROVE  InHand(x)' \/ x \in Range(queue') \/ KeyOf[x] \in db'
      BY <1>2 DEF NoFileLost
    <2>1. CASE x \in Range(queue) \cup {p}
      BY <1>4, <2>1
    <2>2. CASE KeyOf[x] \in db
      BY <1>4, <2>2
    <2>3. CASE InHand(x) /\ x # p
      <3>1. PICK v \in Workers : held[v] = x /\ worker[v] \in {"stat", "enqueue"}
        BY <2>3 DEF InHand
      <3>2. v # w
        BY <2>3, <3>1 DEF p
      <3> QED
        BY <1>1, <3>1, <3>2 DEF InHand, TypeOK
    <2> QED
      BY <2>1, <2>2, <2>3 DEF NoFileLost
  <1>10. VisitedStored'
    BY <1>2, <1>3, <1>4 DEF VisitedStored, QueueVisited, KeysOf
  <1> QED
    BY <1>4, <1>5, <1>6, <1>7, <1>8, <1>9, <1>10

(* One file counted, one busy worker less.                                 *)
LEMMA CountFileInv ==
    ASSUME IInv, NEW w \in Workers, CountFile(w)
    PROVE  IInv'
  <1> USE DEF IInv, CountFile, bqVars, walkVars
  <1>1. TypeOK'
    BY DEF TypeOK, BatchTypeOK
  <1>2. /\ Visited' = Visited /\ Exited' = Exited
        /\ Busy' = Busy \ {w} /\ w \in Busy
    BY DEF TypeOK, Visited, Busy, Exited
  <1>3. HeldVisited'
    BY <1>2 DEF TypeOK, HeldVisited, Busy
  <1>4. QueueVisited' /\ DonesExact'
    BY <1>2 DEF QueueVisited, DonesExact
  <1>5. CountLag'
    <2>1. Cardinality(Busy') = Cardinality(Busy) - 1
      BY <1>2, FiniteParts, FS_RemoveElement
    <2> QED
      BY <1>2, <2>1, FiniteParts DEF CountLag, TypeOK
  <1>6. ReturnedLast'
    BY DEF ReturnedLast, Alive
  <1>7. NoFileLost'
    BY <1>2 DEF TypeOK, NoFileLost, InHand
  <1>8. VisitedStored' /\ OldApart'
    BY <1>2 DEF VisitedStored, OldApart
  <1> QED
    BY <1>1, <1>3, <1>4, <1>5, <1>6, <1>7, <1>8

(* A worker leaves with empty hands, and its signal is counted.            *)
LEMMA WorkerEndsInv ==
    ASSUME IInv, NEW w \in Workers, WorkerEnds(w)
    PROVE  IInv'
  <1> USE DEF IInv, WorkerEnds, bqVars, walkVars
  <1>1. TypeOK'
    BY DEF TypeOK, BatchTypeOK
  <1>2. /\ Visited' = Visited /\ Busy' = Busy
        /\ Exited' = Exited \cup {w} /\ w \notin Exited
    BY DEF TypeOK, Visited, Busy, Exited
  <1>3. HeldVisited' /\ QueueVisited' /\ CountLag'
    BY <1>2 DEF HeldVisited, QueueVisited, CountLag
  <1>4. DonesExact'
    BY <1>2, FiniteParts, FS_AddElement DEF DonesExact
  <1>5. ReturnedLast'
    BY DEF ReturnedLast
  <1>6. NoFileLost' /\ VisitedStored' /\ OldApart'
    BY <1>2 DEF TypeOK, NoFileLost, InHand, VisitedStored, OldApart
  <1> QED
    BY <1>1, <1>3, <1>4, <1>5, <1>6

(* One signal per worker: all have left.                                   *)
LEMMA AllExited ==
    ASSUME IInv, dones = Cardinality(Workers)
    PROVE  Exited = Workers /\ Busy = {}
  <1>1. Exited = Workers
    BY OriginAssumption, FS_Subset DEF IInv, DonesExact, Exited
  <1> QED
    BY <1>1 DEF Busy, Exited

(* The last save empties the queue into the database.                      *)
LEMMA FinishInv ==
    ASSUME IInv, Finish
    PROVE  IInv'
  <1> USE DEF IInv, Finish, DrainAndSave, Save, walkVars, workerVars
  <1>1. Exited = Workers /\ Busy = {}
    BY AllExited
  <1>2. Visited' = Visited /\ Busy' = Busy /\ Exited' = Exited
    BY DEF Visited, Busy, Exited
  <1>3. Range(<<>>) = {} /\ <<>> \in Seq(Paths) /\ Len(<<>>) = 0
    BY EmptySeq DEF Range
  <1>4. /\ db' = db \cup KeysOf(Range(queue)) /\ queue' = <<>>
        /\ old' = old \ KeysOf(Range(queue))
    OBVIOUS
  <1>5. KeysOf(Visited) \subseteq Keys
    BY BatchAssumption DEF KeysOf, Visited
  <1>6. db' \subseteq KeysOf(Visited)
    BY <1>4 DEF VisitedStored, QueueVisited, KeysOf
  <1>7. TypeOK'
    BY <1>3, <1>4, <1>5, <1>6 DEF TypeOK, BatchTypeOK
  <1>8. HeldVisited' /\ CountLag' /\ DonesExact' /\ VisitedStored'
    BY <1>2, <1>6 DEF HeldVisited, CountLag, DonesExact, VisitedStored
  <1>9. QueueVisited'
    <2>1. Range(queue') = {} /\ Len(queue') = 0
      BY <1>3, <1>4
    <2> QED
      BY <2>1, BatchAssumption DEF QueueVisited
  <1>10. ReturnedLast'
    BY <1>1, <1>2, <1>4 DEF ReturnedLast
  <1>11. NoFileLost'
    BY <1>2, <1>4 DEF NoFileLost, InHand, KeysOf
  <1>12. OldApart'
    BY <1>4, FS_Subset DEF OldApart
  <1> QED
    BY <1>7, <1>8, <1>9, <1>10, <1>11, <1>12

(* Each action preserves the invariant.                                    *)
LEMMA StepInv == IInv /\ [Next]_vars => IInv'
  <1> SUFFICES ASSUME IInv, [Next]_vars PROVE IInv'
    OBVIOUS
  <1>1. ASSUME NEW p \in Paths, Vanish(p) PROVE IInv'
    <2>1. TypeOK'
      BY <1>1 DEF IInv, TypeOK, BatchTypeOK, Vanish, bqVars, workerVars
    <2> QED
      BY <1>1, <2>1, Bystander DEF Vanish
  <1>2. ASSUME NEW w \in Workers, NEW p \in Paths, SendFile(w, p) PROVE IInv'
    BY <1>2, SendFileInv
  <1>3. ASSUME NEW p \in Paths, WalkError(p) PROVE IInv'
    <2>1. TypeOK'
      BY <1>3 DEF IInv, TypeOK, BatchTypeOK, WalkError, bqVars, workerVars
    <2> QED
      BY <1>3, <2>1, Bystander DEF WalkError
  <1>4. CASE WalkEnds
    <2>1. TypeOK'
      BY <1>4 DEF IInv, TypeOK, BatchTypeOK, WalkEnds, bqVars, walkVars, workerVars
    <2> QED
      BY <1>4, <2>1, Bystander DEF WalkEnds, walkVars
  <1>5. CASE Finish
    BY <1>5, FinishInv
  <1>6. CASE FinishPanics
    <2>1. TypeOK'
      BY <1>6 DEF IInv, TypeOK, BatchTypeOK, FinishPanics, bqVars, walkVars, workerVars
    <2> QED
      BY <1>6, <2>1, Bystander DEF FinishPanics, walkVars
  <1>7. ASSUME NEW w \in Workers, StatFatal(w) \/ EnqueuePanics(w) PROVE IInv'
    <2>1. TypeOK'
      BY <1>7 DEF IInv, TypeOK, BatchTypeOK, StatFatal, EnqueuePanics,
                  bqVars, walkVars, workerVars
    <2> QED
      BY <1>7, <2>1, Bystander DEF StatFatal, EnqueuePanics, walkVars
  <1>8. ASSUME NEW w \in Workers, StatMetadata(w) PROVE IInv'
    BY <1>8, StatMetadataInv
  <1>9. ASSUME NEW w \in Workers, EnqueueFile(w) PROVE IInv'
    BY <1>9, EnqueueFileInv
  <1>10. ASSUME NEW w \in Workers, CountFile(w) PROVE IInv'
    BY <1>10, CountFileInv
  <1>11. ASSUME NEW w \in Workers, WorkerEnds(w) PROVE IInv'
    BY <1>11, WorkerEndsInv
  <1>12. CASE UNCHANGED vars
    <2>1. TypeOK'
      BY <1>12 DEF IInv, TypeOK, BatchTypeOK, vars, bqVars, walkVars, workerVars
    <2> QED
      BY <1>12, <2>1, Bystander DEF vars, walkVars
  <1> QED
    BY <1>1, <1>2, <1>3, <1>4, <1>5, <1>6, <1>7, <1>8, <1>9, <1>10, <1>11, <1>12
       DEF Next, MainStep, WorkerStep, Terminated

(* The strengthened invariant holds throughout: the steps of the walk, of   *)
(* the workers and of the main goroutine each preserve all of its parts.   *)
THEOREM Invariance == Spec => []IInv
  BY InitInv, StepInv, PTL DEF Spec

-----------------------------------------------------------------------------
(* What the invariant gives a reader of the database.                      *)
LEMMA InvComplete == IInv => ReturnIsComplete
  <1> SUFFICES ASSUME IInv, main = "returned" 
               PROVE  count = Cardinality(Visited) /\ db = KeysOf(Visited)
    BY DEF ReturnIsComplete
  <1>1. Exited = Workers /\ queue = <<>>
    BY DEF IInv, ReturnedLast
  <1>2. Busy = {} /\ \A w \in Workers : worker[w] = "exited"
    BY <1>1 DEF Busy, Exited
  <1>3. count = Cardinality(Visited)
    BY <1>2, FS_EmptySet, FiniteParts DEF IInv, CountLag, TypeOK
  <1>4. Range(queue) = {}
    BY <1>1 DEF Range
  <1>5. KeysOf(Visited) \subseteq db
    BY <1>2, <1>4 DEF IInv, NoFileLost, InHand, KeysOf
  <1> QED
    BY <1>3, <1>5 DEF IInv, VisitedStored

(* Two files of one key make the entries fewer than the count, and nothing *)
(* else does: a keying onto the entries is one to one if they are as many. *)
LEMMA InvCounts == IInv => CountMatchesEntries
  <1> SUFFICES ASSUME IInv, main = "returned"
               PROVE  /\ Cardinality(db \cup old) <= count + Cardinality(old)
                      /\ Cardinality(db \cup old) = count + Cardinality(old)
                           <=> \A p, q \in Visited : KeyOf[p] = KeyOf[q] => p = q
    BY DEF CountMatchesEntries
  <1> DEFINE keying == [p \in Visited |-> KeyOf[p]]
  <1>1. count = Cardinality(Visited) /\ db = KeysOf(Visited)
    BY InvComplete DEF ReturnIsComplete
  <1>2. keying \in Surjection(Visited, db)
    BY <1>1 DEF Surjection, KeysOf
  <1>3. keying \in Injection(Visited, db) <=> \A p, q \in Visited : KeyOf[p] = KeyOf[q] => p = q
    BY <1>2 DEF Injection, IsInjective, Surjection
  <1>4. IsFiniteSet(Visited)
    BY FiniteParts DEF IInv
  <1> HIDE DEF keying
  <1>5. /\ Cardinality(db) <= Cardinality(Visited)
        /\ Cardinality(db) = Cardinality(Visited) <=> keying \in Injection(Visited, db)
    BY <1>2, <1>4, FS_Surjection
  <1>6. /\ IsFiniteSet(db) /\ Cardinality(db) \in Nat /\ Cardinality(old) \in Nat
        /\ Cardinality(db \cup old) = Cardinality(db) + Cardinality(old)
    <2>1. IsFiniteSet(db) /\ IsFiniteSet(old) /\ db \cap old = {}
      BY <1>2, <1>4, FS_Surjection DEF IInv, OldApart
    <2>2. /\ Cardinality(db) \in Nat /\ Cardinality(old) \in Nat
          /\ Cardinality(db \cap old) = 0
      BY <2>1, FS_CardinalityType, FS_EmptySet
    <2>3. Cardinality(db \cup old)
              = Cardinality(db) + Cardinality(old) - Cardinality(db \cap old)
      BY <2>1, FS_Union
    <2> QED
      BY <2>1, <2>2, <2>3
  <1>7. Cardinality(Visited) \in Nat
    BY FiniteParts DEF IInv
  <1> QED
    BY <1>1, <1>3, <1>5, <1>6, <1>7

(* A sequence has no more elements than places.                            *)
LEMMA RangeBound ==
    ASSUME NEW S, NEW q \in Seq(S)
    PROVE  IsFiniteSet(Range(q)) /\ Cardinality(Range(q)) <= Len(q)
  <1> DEFINE n == Len(q)
  <1>1. n \in Nat /\ DOMAIN q = 1..n /\ q \in [1..n -> S]
    BY LenProperties
  <1> HIDE DEF n
  <1>2. q \in [1..n -> Range(q)] /\ \A x \in Range(q) : \E i \in 1..n : q[i] = x
    BY <1>1 DEF Range
  <1>3. q \in Surjection(1..n, Range(q))
    BY <1>2 DEF Surjection
  <1>4. IsFiniteSet(1..n) /\ Cardinality(1..n) = n
    <2>1. 1 \in Int /\ n \in Int
      BY <1>1
    <2>2. IsFiniteSet(1..n) /\ Cardinality(1..n) = IF 1 > n THEN 0 ELSE n - 1 + 1
      BY <2>1, FS_Interval
    <2> QED
      BY <1>1, <2>2
  <1>5. IsFiniteSet(Range(q)) /\ Cardinality(Range(q)) <= n
    BY <1>3, <1>4, FS_Surjection
  <1> QED
    BY <1>5 DEF n

(* Files that are only in memory fill less than a batch and the hands.     *)
LEMMA InvBounded == IInv => BoundedLoss
  <1> SUFFICES ASSUME IInv
               PROVE  Cardinality({p \in Visited : KeyOf[p] \notin db})
                          <= BatchSize - 1 + Cardinality(Workers)
    BY DEF BoundedLoss
  <1> DEFINE Lost == {p \in Visited : KeyOf[p] \notin db}
             Hands == {held[w] : w \in Workers}
  <1>1. IsFiniteSet(Hands) /\ Cardinality(Hands) <= Cardinality(Workers)
    <2>1. held \in Surjection(Workers, Hands)
      BY DEF IInv, TypeOK, Surjection
    <2> QED
      BY <2>1, OriginAssumption, FS_Surjection
  <1>2. IsFiniteSet(Range(queue)) /\ Cardinality(Range(queue)) <= Len(queue)
    BY RangeBound DEF IInv, TypeOK, BatchTypeOK
  <1>3. Lost \subseteq Range(queue) \cup Hands
    BY DEF IInv, NoFileLost, InHand
  <1>4. /\ IsFiniteSet(Range(queue) \cup Hands)
        /\ Cardinality(Range(queue) \cup Hands)
               <= Cardinality(Range(queue)) + Cardinality(Hands)
    <2>1. /\ IsFiniteSet(Range(queue) \cap Hands)
          /\ Cardinality(Range(queue) \cap Hands) \in Nat
          /\ Cardinality(Range(queue)) \in Nat
          /\ Cardinality(Hands) \in Nat
      BY <1>1, <1>2, FS_Intersection, FS_CardinalityType
    <2> HIDE DEF Hands
    <2>2. /\ IsFiniteSet(Range(queue) \cup Hands)
          /\ Cardinality(Range(queue) \cup Hands)
                 = Cardinality(Range(queue)) + Cardinality(Hands)
                       - Cardinality(Range(queue) \cap Hands)
      BY <1>1, <1>2, FS_Union
    <2> QED
      BY <2>1, <2>2
  <1>5. Cardinality(Lost) <= Cardinality(Range(queue) \cup Hands)
    BY <1>3, <1>4, FS_Subset
  <1>6. /\ Cardinality(Lost) \in Nat
        /\ Cardinality(Range(queue) \cup Hands) \in Nat
        /\ Cardinality(Range(queue)) \in Nat
        /\ Cardinality(Hands) \in Nat
        /\ Cardinality(Workers) \in Nat
        /\ Len(queue) \in Nat
    BY <1>1, <1>2, <1>3, <1>4, OriginAssumption, FS_Subset, FS_CardinalityType,
       LenProperties DEF IInv, TypeOK, BatchTypeOK
  <1>7. Len(queue) <= BatchSize - 1
    BY <1>6, BatchAssumption DEF IInv, QueueVisited
  <1> HIDE DEF Lost, Hands
  <1>8. Cardinality(Lost) <= BatchSize - 1 + Cardinality(Workers)
    BY <1>1, <1>2, <1>4, <1>5, <1>6, <1>7, BatchAssumption
  <1> QED
    BY <1>8 DEF Lost

(* The variables always have their types.                                  *)
THEOREM TypeCorrect == Spec => []TypeOK
  BY Invariance, PTL DEF IInv

(* No visited file is lost while the process lives, for any number of      *)
(* workers flushing concurrently and whatever the database held before.    *)
THEOREM FilesAccountedFor == Spec => []NoFileLost
  BY Invariance, PTL DEF IInv

(* A returned count is the number of visited files, all of them stored.    *)
THEOREM CompleteOnReturn == Spec => []ReturnIsComplete
  BY Invariance, InvComplete, PTL

(* The entries differ from the count handed to the scan phases by what an  *)
(* earlier run has left and by visited files that share a key, whatever    *)
(* the keying is, and by nothing else.                                     *)
THEOREM CountHandedOn == Spec => []CountMatchesEntries
  BY Invariance, InvCounts, PTL

(* A crash loses less than a batch plus one file per worker.               *)
THEOREM CrashLosesLittle == Spec => []BoundedLoss
  BY Invariance, InvBounded, PTL

-----------------------------------------------------------------------------
(* Every step of the extraction is a step of Collection or a stutter.      *)
LEMMA StepImplements ==
    ASSUME IInv, IInv', [Next]_vars
    PROVE  [Promise!Next]_(Promise!collectionVars)
  <1> DEFINE Same == UNCHANGED <<todo, db, old>> /\ Alive /\ Alive'
             Dies == UNCHANGED <<todo, db, old>> /\ Alive /\ main' = "crashed"
  <1>1. CASE Same
    BY <1>1 DEF Promise!collectionVars, Visited, Alive
  <1>2. CASE Dies
    BY <1>2 DEF Promise!Next, Promise!Crash, Visited, Alive
  <1>3. ASSUME NEW p \in Paths, Vanish(p) PROVE Same
    BY <1>3 DEF Vanish, Alive, bqVars
  <1>4. ASSUME NEW w \in Workers, NEW p \in Paths, SendFile(w, p)
        PROVE  Promise!Visit
    <2>1. Visited' = Visited \cup {p} /\ p \in Paths \ Visited
      BY <1>4 DEF SendFile, IInv, TypeOK, Visited
    <2>2. Cardinality(Visited') = Cardinality(Visited) + 1
      BY <2>1, FiniteParts, FS_AddElement DEF IInv
    <2> QED
      BY <1>4, <2>1, <2>2 DEF SendFile, Promise!Visit, Alive, bqVars
  <1>5. ASSUME NEW p \in Paths, WalkError(p) PROVE Same
    BY <1>5 DEF WalkError, Alive, bqVars
  <1>6. ASSUME WalkEnds PROVE Same
    BY <1>6 DEF WalkEnds, Alive, bqVars, walkVars
  <1>7. ASSUME Finish PROVE Promise!Return
    <2>1. main = "waiting" /\ main' = "returned" /\ UNCHANGED <<todo, count>>
      BY <1>7 DEF Finish, walkVars
    <2>3. old' = old \ db'
      BY <1>7 DEF Finish, DrainAndSave, Save, IInv, OldApart
    <2>2. count' = Cardinality(Visited') /\ db' = KeysOf(Visited')
      <3>1. ReturnIsComplete'
        BY InvComplete, PTL
      <3> QED
        BY <2>1, <3>1 DEF ReturnIsComplete
    <2> QED
      BY <2>1, <2>2, <2>3 DEF Promise!Return, Alive, Visited, KeysOf
  <1>8. ASSUME FinishPanics PROVE Dies
    BY <1>8 DEF FinishPanics, Alive, bqVars, walkVars
  <1>9. ASSUME NEW w \in Workers, StatFatal(w) \/ EnqueuePanics(w) PROVE Dies
    BY <1>9 DEF StatFatal, EnqueuePanics, bqVars, walkVars
  <1>10. ASSUME NEW w \in Workers, StatMetadata(w) \/ CountFile(w) \/ WorkerEnds(w)
         PROVE  Same
    BY <1>10 DEF StatMetadata, CountFile, WorkerEnds, Alive, bqVars, walkVars
  <1>11. ASSUME NEW w \in Workers, EnqueueFile(w)
         PROVE  Promise!Store \/ Same
    <2>1. /\ Alive /\ UNCHANGED <<todo, main, count>>
          /\ held[w] \in Visited /\ Enqueue(held[w])
      BY <1>11 DEF EnqueueFile, walkVars, IInv, HeldVisited, Busy
    <2>2. CASE ~WouldFlush
      BY <2>1, <2>2 DEF Enqueue, Alive
    <2>3. CASE WouldFlush
      <3>1. Range(Append(queue, held[w])) \in SUBSET Visited
        BY <2>1, RangeAppend DEF IInv, TypeOK, BatchTypeOK, QueueVisited, Visited
      <3>2. /\ db' = db \cup KeysOf(Range(Append(queue, held[w])))
            /\ old' = old \ KeysOf(Range(Append(queue, held[w])))
        BY <2>1, <2>3 DEF Enqueue, Save
      <3> QED
        BY <2>1, <3>1, <3>2 DEF Promise!Store, Alive, Visited, KeysOf
    <2> QED
      BY <2>2, <2>3
  <1>12. CASE UNCHANGED vars
    BY <1>12 DEF Promise!collectionVars, vars, bqVars, walkVars, Visited, Alive
  <1> HIDE DEF Same, Dies
  <1> QED
    BY <1>1, <1>2, <1>3, <1>4, <1>5, <1>6, <1>7, <1>8, <1>9, <1>10, <1>11, <1>12
       DEF Next, MainStep, WorkerStep, Terminated, Promise!Next

(* The concurrent extraction keeps what Collection promises to frs: what   *)
(* it stores was visited, what it does not replace stays, and a returned   *)
(* count and database are complete.                                        *)
THEOREM Refinement == Spec => ImplementsCollection
  <1>1. Init => Promise!Init
    <2>1. Init => Cardinality(Visited) = 0
      BY FS_EmptySet DEF Init, Visited
    <2> QED
      BY <2>1 DEF Init, BatchInit, Promise!Init, Visited, Alive
  <1>2. IInv /\ IInv' /\ [Next]_vars => [Promise!Next]_(Promise!collectionVars)
    BY StepImplements
  <1> QED
    BY <1>1, <1>2, Invariance, PTL DEF Spec, ImplementsCollection, Promise!Spec
=============================================================================
