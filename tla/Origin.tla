------------------------------- MODULE Origin -------------------------------
(***************************************************************************)
(* extract -origin: the main goroutine walks a directory tree and hands    *)
(* each file over an unbuffered channel to one of NumWorkers goroutines,   *)
(* which stat it, queue its metadata line and count it.  When the walk is  *)
(* over the channel is closed, the workers leave one by one, and the main  *)
(* goroutine saves what is left in the queue and returns the count.        *)
(*                                                                         *)
(* Files disappear while this runs.  One that is gone before its directory *)
(* is listed is not met; one that is gone between the listing and its      *)
(* lstat ends the walk; one that a worker can no longer stat ends the      *)
(* process (log.Fatal), and with it the lines still queued.                *)
(*                                                                         *)
(* The order in which the walk meets the files is left open.               *)
(***************************************************************************)
EXTENDS BatchQueue

CONSTANTS
    Workers,    (* the goroutines that take files from the channel         *)
    None        (* no file                                                 *)

ASSUME OriginAssumption ==
    /\ IsFiniteSet(Workers)
    /\ Workers # {}
    /\ None \notin Paths

VARIABLES
    todo,       (* files the walk has still to meet                        *)
    gone,       (* files that have disappeared or become unreadable        *)
    walkErr,    (* the walk ended on an error                              *)
    main,       (* "walking", "waiting" for workers, "returned", "crashed" *)
    worker,     (* "receiving", "stat", "enqueue", "count" or "exited"     *)
    held,       (* the file each worker is busy with                       *)
    dones,      (* workers whose signal on done has been received          *)
    count       (* the shared atomic counter                               *)

walkVars == <<todo, gone, walkErr>>
workerVars == <<worker, held>>
vars == <<bqVars, walkVars, workerVars, main, dones, count>>

Alive == main \in {"walking", "waiting"}

Visited == Paths \ todo

TypeOK ==
    /\ BatchTypeOK
    /\ todo \in SUBSET Paths
    /\ gone \in SUBSET Paths
    /\ walkErr \in BOOLEAN
    /\ main \in {"walking", "waiting", "returned", "crashed"}
    /\ worker \in [Workers -> {"receiving", "stat", "enqueue", "count", "exited"}]
    /\ held \in [Workers -> Paths \cup {None}]
    /\ dones \in Nat
    /\ count \in Nat

Init ==
    /\ BatchInit
    /\ todo = Paths
    /\ gone = {}
    /\ walkErr = FALSE
    /\ main = "walking"
    /\ worker = [w \in Workers |-> "receiving"]
    /\ held = [w \in Workers |-> None]
    /\ dones = 0
    /\ count = 0

-----------------------------------------------------------------------------
(* The file system: another process deletes a file or takes a permission.  *)
Vanish(p) ==
    /\ Alive
    /\ p \notin gone
    /\ gone' = gone \cup {p}
    /\ UNCHANGED <<bqVars, todo, walkErr, workerVars, main, dones, count>>

(* The walk meets a file and a worker that is at the channel receives it.  *)
SendFile(w, p) ==
    /\ main = "walking"
    /\ p \in todo \ gone
    /\ worker[w] = "receiving"
    /\ todo' = todo \ {p}
    /\ held' = [held EXCEPT ![w] = p]
    /\ worker' = [worker EXCEPT ![w] = "stat"]
    /\ UNCHANGED <<bqVars, gone, walkErr, main, dones, count>>

(* The walk function returns the error it is called with: the rest of the  *)
(* tree is skipped, the error printed, and the channel closed all the same.*)
WalkError(p) ==
    /\ main = "walking"
    /\ p \in todo \cap gone
    /\ walkErr' = TRUE
    /\ main' = "waiting"
    /\ UNCHANGED <<bqVars, todo, gone, workerVars, dones, count>>

(* Every file that is still there has been met.                            *)
WalkEnds ==
    /\ main = "walking"
    /\ todo \subseteq gone
    /\ main' = "waiting"
    /\ UNCHANGED <<bqVars, walkVars, workerVars, dones, count>>

-----------------------------------------------------------------------------
StatMetadata(w) ==
    /\ Alive
    /\ worker[w] = "stat"
    /\ held[w] \notin gone
    /\ worker' = [worker EXCEPT ![w] = "enqueue"]
    /\ UNCHANGED <<bqVars, walkVars, held, main, dones, count>>

(* log.Fatal: no deferred call runs and the queue is never saved.          *)
StatFatal(w) ==
    /\ Alive
    /\ worker[w] = "stat"
    /\ held[w] \in gone
    /\ main' = "crashed"
    /\ UNCHANGED <<bqVars, walkVars, workerVars, dones, count>>

EnqueueFile(w) ==
    /\ Alive
    /\ worker[w] = "enqueue"
    /\ WouldFlush => opened
    /\ Enqueue(held[w])
    /\ worker' = [worker EXCEPT ![w] = "count"]
    /\ UNCHANGED <<opened, walkVars, held, main, dones, count>>

(* Save on the nil handle of a database that could not be opened.          *)
EnqueuePanics(w) ==
    /\ Alive
    /\ worker[w] = "enqueue"
    /\ WouldFlush
    /\ ~opened
    /\ main' = "crashed"
    /\ UNCHANGED <<bqVars, walkVars, workerVars, dones, count>>

(* Counting forgotten when it is the first, and counting the wrong way.    *)
CountSkipsFirst(w) ==
    /\ Alive
    /\ worker[w] = "count"
    /\ count' = IF count = 0 /\ queue = <<>> THEN count ELSE count + 1
    /\ held' = [held EXCEPT ![w] = None]
    /\ worker' = [worker EXCEPT ![w] = "receiving"]
    /\ UNCHANGED <<bqVars, walkVars, main, dones>>

CountDown(w) ==
    /\ Alive
    /\ worker[w] = "count"
    /\ count' = count - 1
    /\ held' = [held EXCEPT ![w] = None]
    /\ worker' = [worker EXCEPT ![w] = "receiving"]
    /\ UNCHANGED <<bqVars, walkVars, main, dones>>

CountFile(w) ==
    /\ Alive
    /\ worker[w] = "count"
    /\ count' = count + 1
    /\ held' = [held EXCEPT ![w] = None]
    /\ worker' = [worker EXCEPT ![w] = "receiving"]
    /\ UNCHANGED <<bqVars, walkVars, main, dones>>

(* A worker that leaves as soon as the channel is closed.                  *)
WorkerEndsEarly(w) ==
    /\ main = "waiting"
    /\ worker[w] \in {"receiving", "enqueue", "count"}
    /\ worker' = [worker EXCEPT ![w] = "exited"]
    /\ dones' = dones + 1
    /\ UNCHANGED <<bqVars, walkVars, held, main, count>>

(* A worker that returns without its signal.                               *)
WorkerEndsSilently(w) ==
    /\ main = "waiting"
    /\ worker[w] = "receiving"
    /\ worker' = [worker EXCEPT ![w] = "exited"]
    /\ UNCHANGED <<bqVars, walkVars, held, main, dones, count>>

(* The range over the closed channel ends, and done is received by main.   *)
WorkerEnds(w) ==
    /\ main = "waiting"
    /\ worker[w] = "receiving"
    /\ worker' = [worker EXCEPT ![w] = "exited"]
    /\ dones' = dones + 1
    /\ UNCHANGED <<bqVars, walkVars, held, main, count>>

-----------------------------------------------------------------------------
(* All workers have signalled: save the rest, write the FileCount line and *)
(* return the count.  Save opens a batch even for no line at all.          *)
Finish ==
    /\ main = "waiting"
    /\ dones = Cardinality(Workers)
    /\ opened
    /\ DrainAndSave
    /\ main' = "returned"
    /\ UNCHANGED <<opened, walkVars, workerVars, dones, count>>

FinishPanics ==
    /\ main = "waiting"
    /\ dones = Cardinality(Workers)
    /\ ~opened
    /\ main' = "crashed"
    /\ UNCHANGED <<bqVars, walkVars, workerVars, dones, count>>

(* The process has ended, one way or the other.                            *)
Terminated == ~Alive /\ UNCHANGED vars

WorkerStep(w) ==
    \/ StatMetadata(w)
    \/ StatFatal(w)
    \/ EnqueueFile(w)
    \/ EnqueuePanics(w)
    \/ CountFile(w)
    \/ WorkerEnds(w)

MainStep ==
    \/ \E w \in Workers, p \in Paths : SendFile(w, p)
    \/ \E p \in Paths : WalkError(p)
    \/ WalkEnds
    \/ Finish
    \/ FinishPanics

Next ==
    \/ \E p \in Paths : Vanish(p)
    \/ MainStep
    \/ \E w \in Workers : WorkerStep(w)
    \/ Terminated

Spec == Init /\ [][Next]_vars

(* The Go scheduler runs every goroutine that can run.                     *)
FairSpec ==
    /\ Spec
    /\ WF_vars(MainStep)
    /\ \A w \in Workers : WF_vars(WorkerStep(w))

-----------------------------------------------------------------------------
InHand(p) == \E w \in Workers : held[w] = p /\ worker[w] \in {"stat", "enqueue"}

(* No file is lost between the walk and the database, whoever flushes and  *)
(* however many workers enqueue at once: a visited file is in a worker's   *)
(* hand, in the queue, or its key is in the database, until the process    *)
(* dies (Enqueue, flush and DequeueAll hand lines over under one mutex).   *)
NoFileLost ==
    \A p \in Visited : InHand(p) \/ p \in Range(queue) \/ KeyOf[p] \in db

(* When Origin returns, the atomic counter has seen every visited file     *)
(* once, and every visited file, and no other, has an entry of this run in *)
(* the database, whatever an earlier run has left there.                   *)
ReturnIsComplete ==
    main = "returned" =>
        /\ count = Cardinality(Visited)
        /\ db = KeysOf(Visited)

(* frs passes the returned count to the scan phases, which stop when they  *)
(* have seen that many entries, of whichever run.  The entries exceed the  *)
(* count by no more than what an earlier run has left and this one has not *)
(* replaced, and fall short of that exactly when two visited files share a *)
(* key: only with no leftovers and no shared key do the numbers agree for  *)
(* certain.                                                                *)
CountMatchesEntries ==
    main = "returned" =>
        /\ Cardinality(db \cup old) <= count + Cardinality(old)
        /\ Cardinality(db \cup old) = count + Cardinality(old)
             <=> \A p, q \in Visited : KeyOf[p] = KeyOf[q] => p = q

(* A crash of the process loses less than one batch and what the workers   *)
(* had in hand: everything else was committed by a flush.                  *)
BoundedLoss ==
    main = "crashed" =>
        Cardinality({p \in Visited : KeyOf[p] \notin db})
            <= BatchSize - 1 + Cardinality(Workers)

(* The process always ends: the closed channel reaches every worker and    *)
(* their signals reach the main goroutine.                                 *)
OriginEnds == <>(~Alive)

(* The extraction implements what Collection promises to frs.              *)
Promise == INSTANCE Collection WITH
    visited <- Visited,
    number  <- Cardinality(Visited),
    stored  <- db,
    kept    <- old,
    outcome <- IF Alive THEN "running" ELSE main,
    total   <- IF main = "returned" THEN count ELSE 0

ImplementsCollection == Promise!Spec
=============================================================================
