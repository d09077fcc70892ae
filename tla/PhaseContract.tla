--------------------------- MODULE PhaseContract ----------------------------
(***************************************************************************)
(* What a scan child promises frs: it judges the entries of the task's     *)
(* database in some order, and if it ends by itself it has judged at least *)
(* as many as it was told to expect, and its report is made of what it has *)
(* judged.  A child told to expect none never ends.  It may die while it   *)
(* starts, before it has judged anything, and once its report is written.  *)
(***************************************************************************)
EXTENDS Integers

CONSTANTS
    Entries,        (* the entries of the task's database                  *)
    Jobs,           (* the kinds of scan                                   *)
    ReportOn(_, _)  (* the report of a job on a set of judged entries      *)

VARIABLES
    task,           (* the job at hand; never changes                      *)
    quota,          (* the number of entries to expect; never changes      *)
    judged,         (* the entries judged so far                           *)
    amount,         (* how many they are                                   *)
    written,        (* the report, empty until it is written               *)
    phaseState      (* "scanning", "written", "exited" or "panicked"       *)

phaseVars == <<task, quota, judged, amount, written, phaseState>>

Init ==
    /\ task \in Jobs
    /\ quota \in Nat
    /\ judged = {}
    /\ amount = 0
    /\ written = {}
    /\ phaseState = "scanning"

Judge ==
    /\ phaseState = "scanning"
    /\ \E e \in Entries \ judged : judged' = judged \cup {e}
    /\ amount' = amount + 1
    /\ UNCHANGED <<task, quota, written, phaseState>>

Write ==
    /\ phaseState = "scanning"
    /\ 0 < quota /\ quota <= amount
    /\ written' = ReportOn(task, judged)
    /\ phaseState' = "written"
    /\ UNCHANGED <<task, quota, judged, amount>>

Exit ==
    /\ phaseState = "written"
    /\ phaseState' = "exited"
    /\ UNCHANGED <<task, quota, judged, amount, written>>

Panic ==
    /\ \/ phaseState = "written"
       \/ phaseState = "scanning" /\ judged = {}
    /\ phaseState' = "panicked"
    /\ UNCHANGED <<task, quota, judged, amount, written>>

Next == Judge \/ Write \/ Exit \/ Panic

Spec == Init /\ [][Next]_phaseVars
=============================================================================
