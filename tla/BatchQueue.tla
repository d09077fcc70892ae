----------------------------- MODULE BatchQueue -----------------------------
(***************************************************************************)
(* The buffer of extracted lines in front of the key-value database        *)
(* (internal/extract/extract.go, type BatchQueue and method Save).         *)
(*                                                                         *)
(* A queued line is "<path>::<metadata>" and is represented by its path.   *)
(* Save cuts the line at "::" and uses what stands before the first one as *)
(* the key, so two paths that contain "::" may share a key: KeyOf gives    *)
(* the key of each path's line.                                            *)
(*                                                                         *)
(* The database is whatever the task's directory holds: when that was not  *)
(* cleared, it has entries already.  Of an entry only the key is kept, and *)
(* whether the value is of this run (db) or of an earlier one (old).       *)
(*                                                                         *)
(* Enqueue and DequeueAll run under the queue's mutex from their first to  *)
(* their last instruction, the database commit of a full batch included,   *)
(* so each is one step.                                                    *)
(***************************************************************************)
EXTENDS Integers, Sequences, FiniteSets, Functions

CONSTANTS
    Paths,      (* the files that can be extracted                         *)
    Keys,       (* the database keys                                       *)
    KeyOf,      (* the key under which a path's line is saved              *)
    BatchSize,  (* number of lines that triggers a flush                   *)
    Leftovers   (* what earlier runs may have left: sets of keys           *)

ASSUME BatchAssumption ==
    /\ IsFiniteSet(Paths)
    /\ KeyOf \in [Paths -> Keys]
    /\ BatchSize \in Nat \ {0}
    /\ \A L \in Leftovers : L \in SUBSET Keys /\ IsFiniteSet(L)

VARIABLES
    queue,      (* lines not yet handed to the database                    *)
    db,         (* keys whose entry this run has committed                 *)
    old,        (* keys whose entry an earlier run has left                *)
    opened      (* FALSE when pebble.Open failed: the handle is nil        *)

bqVars == <<queue, db, old, opened>>

BatchTypeOK ==
    /\ queue \in Seq(Paths)
    /\ db \in SUBSET Keys
    /\ old \in SUBSET Keys
    /\ opened \in BOOLEAN

KeysOf(S) == {KeyOf[p] : p \in S}

(* pebble.Open takes the database it finds, and reports an error on the    *)
(* log only.                                                               *)
BatchInit ==
    /\ queue = <<>>
    /\ db = {}
    /\ old \in Leftovers
    /\ opened \in BOOLEAN

(* A batch that replaces all that was there.                               *)
SaveAnew(items) ==
    /\ db' = KeysOf(Range(items))
    /\ old' = {}

(* One synced batch, so a crash leaves all of it or nothing.  An entry     *)
(* that is there already is replaced.                                      *)
Save(items) ==
    /\ db' = db \cup KeysOf(Range(items))
    /\ old' = old \ KeysOf(Range(items))

(* A flush that leaves out the new line, and no flush at all.              *)
FlushDropsItem(item) ==
    \/ /\ Len(queue) + 1 < BatchSize
       /\ queue' = Append(queue, item)
       /\ UNCHANGED <<db, old>>
    \/ /\ Len(queue) + 1 >= BatchSize
       /\ Save(queue)
       /\ queue' = <<>>

NeverFlushes(item) == queue' = Append(queue, item) /\ UNCHANGED <<db, old>>

(* The line that fills the batch flushes the whole queue with it.          *)
WouldFlush == Len(queue) + 1 >= BatchSize

Enqueue(item) ==
    LET q == Append(queue, item) IN
    \/ /\ ~WouldFlush
       /\ queue' = q
       /\ UNCHANGED <<db, old>>
    \/ /\ WouldFlush
       /\ Save(q)
       /\ queue' = <<>>

(* DequeueAll followed by Save of what it returned.                        *)
DrainAndSave ==
    /\ Save(queue)
    /\ queue' = <<>>
=============================================================================
