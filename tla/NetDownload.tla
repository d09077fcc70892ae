---------------------------- MODULE NetDownload ----------------------------
(***************************************************************************)
(* A fetch followed by extract -download: each file that has an entry in   *)
(* the database is copied to the local disk by SingleFileDownload          *)
(* (internal/netdisk/export.go), which asks for a region hash and then for *)
(* the stream.  Each of the two, when it fails, makes a recursive call     *)
(* with the retry count plus one and then simply goes on: the call's       *)
(* result is dropped, and the stream is asked for with an empty hash.      *)
(* Asked so, the server refuses or sends some other body with status 200.  *)
(*                                                                         *)
(* The phase's reader, worker and collector are in ScanPhase; here one     *)
(* file is downloaded after the other, as its single worker does.  The     *)
(* stream request has no time limit and may never be answered.             *)
(***************************************************************************)
EXTENDS NetDisk

CONSTANTS
    MaxRetry,       (* retries are made up to this count                   *)
    MaxDownloads    (* bound: files the download process takes up          *)

ASSUME RetryAssumption == MaxRetry \in Nat /\ MaxDownloads \in Nat

VARIABLES
    remaining,  (* entries the worker has still to take                    *)
    current,    (* the file in hand, as a set                              *)
    attempts,   (* active calls of SingleFileDownload, inner first:        *)
                (* retry count, what it does next, result of the check     *)
    disk,       (* local copy of a file: "none", "whole", "cut", "other"   *)
    requests,   (* requests made for a file                                *)
    synced,     (* files reported with the tag "synced"                    *)
    failed      (* files logged as "downloaded failed"                     *)

dlVars == <<remaining, current, attempts, disk, requests, synced, failed>>
vars == <<ndVars, dlVars>>

DownloadTypeOK ==
    /\ TypeOK
    /\ remaining \in SUBSET Paths
    /\ current \in SUBSET Paths /\ Cardinality(current) <= 1
    /\ attempts \in Seq([retry : 0..MaxRetry, at : {"check", "stream", "return"},
                         hash : BOOLEAN, ok : BOOLEAN])
    /\ disk \in [Paths -> {"none", "whole", "cut", "other"}]
    /\ requests \in [Paths -> Nat]
    /\ synced \in SUBSET Paths /\ failed \in SUBSET Paths

DownloadInit ==
    /\ Init
    /\ remaining = {} /\ current = {} /\ attempts = <<>>
    /\ disk = [f \in Paths |-> "none"]
    /\ requests = [f \in Paths |-> 0]
    /\ synced = {} /\ failed = {}

NetDiskStep ==
    /\ ProgramStep \/ DiskChanges
    /\ remaining' = IF main' = "returned" THEN {f \in Paths : KeyOf[f] \in db' \cup old'} ELSE {}
    /\ UNCHANGED <<current, attempts, disk, requests, synced, failed>>

Attempt(n) == [retry |-> n, at |-> "check", hash |-> FALSE, ok |-> FALSE]

TakeEntry ==
    /\ main = "returned" /\ current = {}
    /\ Cardinality(synced \cup failed) < MaxDownloads
    /\ \E f \in remaining :
          /\ current' = {f}
          /\ remaining' = remaining \ {f}
    /\ attempts' = <<Attempt(0)>>
    /\ UNCHANGED <<ndVars, disk, requests, synced, failed>>

File == CHOOSE f \in current : TRUE
Inner == attempts[1]
Asked == requests' = [requests EXCEPT ![File] = @ + 1]

(* A call that is given up one retry too early.                            *)
RetryOnceLess(call) ==
    attempts' = (IF Inner.retry + 1 < MaxRetry THEN <<Attempt(Inner.retry + 1)>> ELSE <<>>)
                \o <<call>> \o Tail(attempts)

(* The rest of a call, behind the recursive call it makes if the retry     *)
(* count allows: with a count over MaxRetry it returns an error at once.   *)
Retry(call) ==
    attempts' = (IF Inner.retry < MaxRetry THEN <<Attempt(Inner.retry + 1)>> ELSE <<>>)
                \o <<call>> \o Tail(attempts)

DownloadCheck ==
    /\ attempts # <<>> /\ Inner.at = "check"
    /\ Asked
    /\ \/ attempts' = [attempts EXCEPT ![1] = [@ EXCEPT !.at = "stream", !.hash = TRUE]]
       \/ attempts' = [attempts EXCEPT ![1] = [@ EXCEPT !.at = "stream"]]
       \/ Retry([Inner EXCEPT !.at = "stream"])
    /\ UNCHANGED <<ndVars, remaining, current, disk, synced, failed>>

(* downloadPartialFile: the local file is created, or truncated, when the  *)
(* status is 200, and written while the body arrives.                      *)
StreamArrives ==
    /\ attempts # <<>> /\ Inner.at = "stream"
    /\ Asked
    /\ disk' = [disk EXCEPT ![File] = IF Inner.hash THEN "whole" ELSE "other"]
    /\ attempts' = [attempts EXCEPT ![1] = [@ EXCEPT !.at = "return", !.ok = TRUE]]
    /\ UNCHANGED <<ndVars, remaining, current, synced, failed>>

StreamBreaks ==
    /\ attempts # <<>> /\ Inner.at = "stream"
    /\ Asked
    /\ disk' \in {disk, [disk EXCEPT ![File] = "cut"]}
    /\ Retry([Inner EXCEPT !.at = "return"])
    /\ UNCHANGED <<ndVars, remaining, current, synced, failed>>

(* A nested call's result is dropped; the outermost one's is the verdict.  *)
AttemptReturns ==
    /\ attempts # <<>> /\ Inner.at = "return"
    /\ attempts' = Tail(attempts)
    /\ IF Len(attempts) = 1
       THEN /\ synced' = IF Inner.ok THEN synced \cup current ELSE synced
            /\ failed' = IF Inner.ok THEN failed ELSE failed \cup current
            /\ current' = {}
       ELSE UNCHANGED <<synced, failed, current>>
    /\ UNCHANGED <<ndVars, remaining, disk, requests>>

SingleFileDownload == DownloadCheck \/ StreamArrives \/ StreamBreaks \/ AttemptReturns

Ended ==
    \/ main = "crashed"
    \/ /\ main = "returned" /\ current = {}
       /\ remaining = {} \/ Cardinality(synced \cup failed) = MaxDownloads

Terminated == Ended /\ UNCHANGED vars

Next == NetDiskStep \/ TakeEntry \/ SingleFileDownload \/ Terminated

Spec == DownloadInit /\ [][Next]_vars

-----------------------------------------------------------------------------
Power(b, n) ==
    LET Product[k \in 0..n] == IF k = 0 THEN 1 ELSE b * Product[k - 1]
    IN  Product[n]

(* What a verdict of the download phase is worth.  A file reported as      *)
(* synced was streamed to its end, although not always the file itself:    *)
(* the stream may have been asked for without a hash.  One that is given   *)
(* up and left without any local copy has been tried once at each retry    *)
(* count.  And the recursion, which runs twice per attempt, stays below    *)
(* two requests per node of a full binary tree: 30 requests a file.        *)
RetryAccount ==
    \A f \in Paths :
        /\ f \in synced => disk[f] \in {"whole", "other"} /\ f \notin failed
        /\ f \in failed /\ disk[f] = "none" => requests[f] >= 2 * (MaxRetry + 1)
        /\ requests[f] <= 2 * (Power(2, MaxRetry + 1) - 1)
=============================================================================
