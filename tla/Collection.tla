----------------------------- MODULE Collection -----------------------------
(***************************************************************************)
(* What an extraction child promises frs: it hands the entries of the      *)
(* files it visits to the database and, if it returns, every visited file  *)
(* has its entry and the count it prints is the number of visited files.   *)
(* It may also die at any time; what is stored by then stays stored.       *)
(* Entries that the database had before remain, except those of its keys.  *)
(***************************************************************************)
EXTENDS Integers

CONSTANTS Paths, KeyOf, Leftovers

VARIABLES
    visited,    (* files taken up so far                                   *)
    number,     (* how many they are                                       *)
    stored,     (* keys of the entries it has stored                       *)
    kept,       (* keys of the entries that were there, not yet replaced   *)
    outcome,    (* "running", "returned" or "crashed"                      *)
    total       (* the count returned; 0 until then                        *)

collectionVars == <<visited, number, stored, kept, outcome, total>>

Init ==
    /\ visited = {}
    /\ number = 0
    /\ stored = {}
    /\ kept \in Leftovers
    /\ outcome = "running"
    /\ total = 0

Visit ==
    /\ outcome = "running"
    /\ \E p \in Paths \ visited : visited' = visited \cup {p}
    /\ number' = number + 1
    /\ UNCHANGED <<stored, kept, outcome, total>>

Store ==
    /\ outcome = "running"
    /\ \E batch \in SUBSET visited :
          /\ stored' = stored \cup {KeyOf[p] : p \in batch}
          /\ kept' = kept \ {KeyOf[p] : p \in batch}
    /\ UNCHANGED <<visited, number, outcome, total>>

Return ==
    /\ outcome = "running"
    /\ outcome' = "returned"
    /\ stored' = {KeyOf[p] : p \in visited}
    /\ kept' = kept \ stored'
    /\ total' = number
    /\ UNCHANGED <<visited, number>>

Crash ==
    /\ outcome = "running"
    /\ outcome' = "crashed"
    /\ UNCHANGED <<visited, number, stored, kept, total>>

Next == Visit \/ Store \/ Return \/ Crash

Spec == Init /\ [][Next]_collectionVars
=============================================================================
