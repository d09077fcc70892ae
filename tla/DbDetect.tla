------------------------------ MODULE DbDetect ------------------------------
(***************************************************************************)
(* The programs that look for encrypted rows in a table (cmd/mysql.go,     *)
(* cmd/oracle.go, cmd/mssql.go).  With -detect they read the table page by *)
(* page, in rounds of one goroutine per page; each goroutine posts its     *)
(* rows to a detection service on the same host, `activeio` (engine 0) or  *)
(* `river` (engine 1), and sends what comes of it over an unbuffered       *)
(* channel to the main goroutine.  With -entropy a second process is given *)
(* the row that was found and reads the rows around it.                    *)
(*                                                                         *)
(* A row is represented by its content: "clean", or an encrypted one that  *)
(* is plain, holds a "#" or holds a "::".  Both strings are separators: "#"*)
(* between columns in what -entropy is given, "::" between the position    *)
(* and the body in the message to main.  The detection services, which are *)
(* not in the repository, find every encrypted row they are sent.          *)
(***************************************************************************)
EXTENDS Integers, Sequences, FiniteSets, FiniteSetsExt, SequencesExt

CONSTANTS
    Programs,       (* "mysql", "oracle", "mssql"                          *)
    Tables,         (* the tables looked at: sequences of contents         *)
    Threads,        (* values of -thread                                   *)
    Size,           (* rows per page                                       *)
    Half,           (* rows before and after the break point: 250          *)
    MaxRounds,      (* bound on the round counter                          *)
    MaxFaults,      (* bound: queries and requests that go wrong           *)
    MaxDeletes      (* bound: rows deleted meanwhile                       *)

Contents == {"clean", "enc", "enc#", "enc::"}

(* With Half = 1 oracle's window at row 0 would not be the first rows.     *)
ASSUME DbDetectAssumption ==
    /\ Programs \subseteq {"mysql", "oracle", "mssql"}
    /\ Tables \subseteq Seq(Contents)
    /\ Threads \subseteq Nat
    /\ Size \in Nat \ {0}
    /\ Half \in Nat \ {0, 1}
    /\ {MaxRounds, MaxFaults, MaxDeletes} \subseteq Nat

VARIABLES
    program, engine, thread,
    table,      (* contents of the rows, in the order they are read        *)
    sameDay,    (* it is the day under which the connection was cached     *)
    main,       (* "connect", "draining", "closing", "returning", "ended"  *)
                (* or, after os.Exit, "exited"                             *)
    round,      (* count: the rounds begun so far                          *)
    done,       (* this round is the last one                              *)
    noDetected,
    task,       (* the goroutines of the round: page, state, rows, messages*)
    printed,    (* verdict lines on standard output: 0, 1 or 2             *)
    detected,   (* what main prints behind its 1; a 2 may come in between, *)
                (* and the end of the process too                          *)
    window,     (* what -entropy read and printed                          *)
    lost,       (* pages that had rows and got no verdict                  *)
    falseEnd,   (* rounds in which a page with rows was taken for empty    *)
    faults, deletes

startVars == <<program, engine, thread>>
loopVars == <<main, round, done, noDetected, printed, detected>>
historyVars == <<lost, falseEnd>>
vars == <<startVars, table, sameDay, loopVars, task, window, historyVars, faults, deletes>>

Encrypted(c) == c # "clean"

(* Messages on the channel, and what a detection prints behind the 1: a row's*)
(* content (engine 0) or its number (engine 1).                             *)
Message == [kind : {"no data", "error", "clean", "garbled", "found"},
            text : Contents \cup {""}, number : Nat]
Msg(kind) == [kind |-> kind, text |-> "", number |-> 0]
Found(text, number) == [kind |-> "found", text |-> text, number |-> number]

TypeOK ==
    /\ program \in Programs /\ engine \in {0, 1} /\ thread \in Threads
    /\ table \in Seq(Contents)
    /\ sameDay \in BOOLEAN /\ done \in BOOLEAN /\ noDetected \in BOOLEAN
    /\ main \in {"connect", "draining", "closing", "returning", "ended", "exited"}
    /\ round \in 0..MaxRounds
    /\ \A g \in DOMAIN task :
          /\ task[g].page \in Nat
          /\ task[g].state \in {"query", "post", "send", "exit"}
          /\ task[g].rows \in SUBSET Nat
          /\ task[g].out \in Seq(Message)
    /\ printed \in Seq(0..2) /\ detected \in Message
    /\ faults \in 0..MaxFaults /\ deletes \in 0..MaxDeletes

NoWindow == [state |-> "none", point |-> 0, rows |-> {}, start |-> 0, end |-> 0]

Init ==
    /\ program \in Programs /\ engine \in {0, 1} /\ thread \in Threads
    /\ table \in Tables
    /\ sameDay = TRUE
    /\ main = "connect"
    /\ round = 0 /\ done = FALSE /\ noDetected = TRUE
    /\ task = <<>>
    /\ printed = <<>> /\ detected = Msg("clean")
    /\ window = NoWindow
    /\ lost = {} /\ falseEnd = {}
    /\ faults = 0 /\ deletes = 0

Fault == faults < MaxFaults /\ faults' = faults + 1
NoFault == UNCHANGED faults

-----------------------------------------------------------------------------
(* The connection, and the round that follows.                             *)

NewRound(count) ==
    /\ main' = "draining"
    /\ done' = FALSE
    /\ task' = [g \in 1..thread |->
                   [page |-> count * thread + g - 1, state |-> "query", rows |-> {}, out |-> <<>>]]

(* Open and ping; on an error print 2 and exit with status 0.              *)
Connect ==
    /\ main = "connect"
    /\ \/ /\ NewRound(0)
          /\ NoFault
          /\ UNCHANGED printed
       \/ /\ Fault
          /\ printed' = <<2>>
          /\ main' = "exited"
          /\ UNCHANGED <<done, task>>
    /\ UNCHANGED <<startVars, table, sameDay, round, noDetected, detected, window, historyVars,
                   deletes>>

CreateDatabaseMySQL == program = "mysql" /\ Connect
CreateDatabaseOracle == program = "oracle" /\ Connect
CreateDatabaseSQLServer == program = "mssql" /\ Connect

(* Midnight: the cache is asked for a key with today's date from now on.   *)
Midnight ==
    /\ main = "draining" /\ sameDay
    /\ sameDay' = FALSE
    /\ UNCHANGED <<startVars, table, loopVars, task, window, historyVars, faults, deletes>>

DeleteRow ==
    /\ main \in {"draining", "closing"} /\ deletes < MaxDeletes
    /\ deletes' = deletes + 1
    /\ \E r \in DOMAIN table : table' = RemoveAt(table, r)
    /\ UNCHANGED <<startVars, sameDay, loopVars, task, window, historyVars, faults>>

-----------------------------------------------------------------------------
(* The rows of a page: LIMIT size OFFSET index*size; ROWNUM between two    *)
(* bounds; OFFSET and FETCH NEXT over ROW_NUMBER().                        *)
MySQLPage(index) == {r \in DOMAIN table : index * Size < r /\ r <= index * Size + Size}

OraclePageFromZero(index) == {r \in DOMAIN table : r < (index + 1) * Size /\ r >= index * Size}
OraclePage(index) == {r \in DOMAIN table : r <= (index + 1) * Size /\ r >= 1 + index * Size}
SQLServerPage(index) == {r \in DOMAIN table : r - index * Size \in 1..Size}

(* While main has not returned, the other goroutines run on.               *)
Alive == main \in {"draining", "closing", "returning"}

(* One run of a goroutine up to the query's result.  The connection may be *)
(* lost in the middle, or a column not scan: rows.Err is not asked and the *)
(* error of QueryCombine dropped, so what has been read is taken for all.  *)
(* Without a cached connection the result is empty.  A query that cannot   *)
(* start, as none can once main has closed the database, prints 2; the end *)
(* of the process is a step of its own.                                    *)
Query(g, page) ==
    /\ task[g].state = "query"
    /\ Alive
    /\ LET got(rows) ==
             /\ task' = IF rows = {}
                        THEN [task EXCEPT ![g].state = "send", ![g].out = <<Msg("no data")>>]
                        ELSE [task EXCEPT ![g].state = "post", ![g].rows = rows]
             /\ lost' = IF rows # page THEN lost \cup {task[g].page} ELSE lost
             /\ falseEnd' = IF rows = {} /\ page # {} THEN falseEnd \cup {round} ELSE falseEnd
             /\ UNCHANGED loopVars
       IN \/ sameDay /\ got(page) /\ NoFault
          \/ ~sameDay /\ got({}) /\ NoFault
          \/ sameDay /\ Fault /\ \E r \in page : got({q \in page : q < r})
          \/ /\ sameDay
             /\ Fault \/ (main = "returning" /\ NoFault)
             /\ printed' = Append(printed, 2)
             /\ task' = [task EXCEPT ![g].state = "exit"]
             /\ UNCHANGED <<main, round, done, noDetected, detected, historyVars>>
    /\ UNCHANGED <<startVars, table, sameDay, window, deletes>>

(* Its os.Exit ends the process, whatever the others have printed since.   *)
Exit(g) ==
    /\ task[g].state = "exit"
    /\ Alive
    /\ main' = "exited"
    /\ UNCHANGED <<startVars, table, sameDay, round, done, noDetected, printed, detected, task,
                   window, historyVars, faults, deletes>>

MySQLQueryCombine(g) == program = "mysql" /\ engine = 0 /\ Query(g, MySQLPage(task[g].page))
MySQLQueryCombineByRiver(g) == program = "mysql" /\ engine = 1 /\ Query(g, MySQLPage(task[g].page))
OracleQueryCombine(g) == program = "oracle" /\ engine = 0 /\ Query(g, OraclePage(task[g].page))
OracleQueryCombineByRiver(g) ==
    program = "oracle" /\ engine = 1 /\ Query(g, OraclePage(task[g].page))
SQLServerQueryCombine(g) ==
    program = "mssql" /\ engine = 0 /\ Query(g, SQLServerPage(task[g].page))
SQLServerQueryCombineByRiver(g) ==
    program = "mssql" /\ engine = 1 /\ Query(g, SQLServerPage(task[g].page))

(* What the service finds in the rows it was sent, as the message that is  *)
(* made of it.  activeio returns the content of an encrypted row; a "::"   *)
(* in it cuts the body that main will parse.                               *)
ActiveIOVerdicts(rows) ==
    LET hits == {r \in rows : r \in DOMAIN table /\ Encrypted(table[r])} IN
    IF hits = {} THEN {Msg("clean")}
    ELSE {IF table[r] = "enc::" THEN Msg("garbled") ELSE Found(table[r], 0) : r \in hits}

(* river returns a mark per row; main adds the index of the first one to   *)
(* the number of the page's first row (or of the row before it).           *)
RiverVerdictsFromZero(rows, page) ==
    LET hits == {r \in rows : r \in DOMAIN table /\ Encrypted(table[r])} IN
    IF hits = {} THEN {Msg("clean")}
    ELSE {Found("", page * Size + (Min(hits) - Min(rows)))}
RiverVerdicts(rows, page) ==
    LET hits == {r \in rows : r \in DOMAIN table /\ Encrypted(table[r])} IN
    IF hits = {} THEN {Msg("clean")}
    ELSE {Found("", 1 + page * Size + (Min(hits) - Min(rows)))}

(* The request and the messages it leads to.  After a failed request the   *)
(* error is sent and resp.Body is read from a nil response, a panic that   *)
(* the deferred recover ends; an empty body panics before any message is   *)
(* sent; a body that breaks off gives an error and then either a second    *)
(* one or what there is of the body.                                       *)
Post(g, verdicts) ==
    /\ task[g].state = "post"
    /\ Alive
    /\ \/ /\ NoFault
          /\ \E v \in verdicts :
                /\ task' = [task EXCEPT ![g].state = "send", ![g].out = <<v>>]
                /\ lost' = IF v = Msg("garbled") THEN lost \cup {task[g].page} ELSE lost
       \/ /\ Fault
          /\ \E out \in {<<Msg("error")>>, <<>>, <<Msg("error"), Msg("error")>>,
                        <<Msg("error"), Msg("garbled")>>} :
                task' = [task EXCEPT ![g].state = "send", ![g].out = out]
          /\ lost' = lost \cup {task[g].page}
    /\ UNCHANGED <<startVars, table, sameDay, loopVars, window, falseEnd, deletes>>

DataRequest(g) == engine = 0 /\ Post(g, ActiveIOVerdicts(task[g].rows))
DataRequestByRiver(g) == engine = 1 /\ Post(g, RiverVerdicts(task[g].rows, task[g].page))

MySQLDataRequest(g) == program = "mysql" /\ DataRequest(g)
MySQLDataRequestByRiver(g) == program = "mysql" /\ DataRequestByRiver(g)
OracleDataRequest(g) == program = "oracle" /\ DataRequest(g)
OracleDataRequestByRiver(g) == program = "oracle" /\ DataRequestByRiver(g)
SqlServerDataRequest(g) == program = "mssql" /\ DataRequest(g)
SqlServerDataRequestByRiver(g) == program = "mssql" /\ DataRequestByRiver(g)

-----------------------------------------------------------------------------
(* The main goroutine.                                                     *)

(* Taking any page without data for the end of the drain.                  *)
ReceiveUntilEmpty(g) ==
    /\ main = "draining"
    /\ task[g].state = "send" /\ task[g].out # <<>>
    /\ task' = [task EXCEPT ![g].out = Tail(@)]
    /\ LET msg == Head(task[g].out) IN
       CASE msg.kind = "no data" ->
              /\ done' = TRUE /\ main' = "closing"
              /\ UNCHANGED <<printed, detected, noDetected>>
         [] msg.kind \in {"error", "clean", "garbled"} ->
              UNCHANGED <<main, done, printed, detected, noDetected>>
         [] OTHER ->
              /\ printed' = Append(printed, 1) /\ detected' = msg
              /\ done' = TRUE
              /\ noDetected' = (noDetected /\ engine = 1)
              /\ main' = "closing"
    /\ UNCHANGED <<startVars, table, sameDay, round, window, historyVars, faults, deletes>>

(* A message is received.  The first detection is printed and ends the     *)
(* loop over the channel, whose other senders stay blocked; a page without *)
(* data makes this the last round; all else is passed over.                *)
Receive(g) ==
    /\ main = "draining"
    /\ task[g].state = "send" /\ task[g].out # <<>>
    /\ task' = [task EXCEPT ![g].out = Tail(@)]
    /\ LET msg == Head(task[g].out) IN
       CASE msg.kind = "no data" ->
              /\ done' = TRUE
              /\ UNCHANGED <<main, printed, detected, noDetected>>
         [] msg.kind \in {"error", "clean", "garbled"} ->
              UNCHANGED <<main, done, printed, detected, noDetected>>
         [] OTHER ->
              /\ printed' = Append(printed, 1) /\ detected' = msg
              /\ done' = TRUE
              /\ noDetected' = (noDetected /\ engine = 1)
              /\ main' = "closing"
    /\ UNCHANGED <<startVars, table, sameDay, round, window, historyVars, faults, deletes>>

(* Every goroutine has returned: the channel is closed.                    *)
AllReturned == \A g \in DOMAIN task : task[g].state = "send" /\ task[g].out = <<>>

RoundEnds ==
    /\ main = "draining" /\ AllReturned
    /\ main' = "closing"
    /\ UNCHANGED <<startVars, table, sameDay, round, done, noDetected, task, printed, detected,
                   window, historyVars, faults, deletes>>

(* The next round asks for the pages of this one again.                    *)
StartRoundAgain ==
    /\ main = "closing" /\ ~done
    /\ NewRound(round)
    /\ UNCHANGED <<startVars, table, sameDay, round, noDetected, printed, detected, window,
                   historyVars, faults, deletes>>

(* The counter is raised, and unless this was the last round the next one  *)
(* starts.  Without threads no page is ever asked for.                     *)
StartNextRound ==
    /\ main = "closing" /\ ~done
    /\ round' = Min({round + 1, MaxRounds})
    /\ NewRound(round')
    /\ UNCHANGED <<startVars, table, sameDay, noDetected, printed, detected, window, historyVars,
                   faults, deletes>>

(* The last line: 0 when nothing was detected, except by oracle, which     *)
(* then prints nothing.                                                    *)
EndDetect(lines) ==
    /\ main = "closing" /\ done
    /\ printed' = printed \o lines
    /\ main' = "returning"
    /\ UNCHANGED <<startVars, table, sameDay, round, done, noDetected, detected, task, window, historyVars,
                   faults, deletes>>

(* The database is closed, and main returns.                               *)
Return ==
    /\ main = "returning"
    /\ main' = "ended"
    /\ UNCHANGED <<startVars, table, sameDay, round, done, noDetected, printed, detected, task,
                   window, historyVars, faults, deletes>>

DetectLoop == (\E g \in DOMAIN task : Receive(g)) \/ RoundEnds \/ StartNextRound \/ Return

Zero == IF noDetected THEN <<0>> ELSE <<>>

MySQLDetect == program = "mysql" /\ (DetectLoop \/ EndDetect(Zero))
OracleDetect == program = "oracle" /\ (DetectLoop \/ EndDetect(<<>>))
SQLServerDetect == program = "mssql" /\ (DetectLoop \/ EndDetect(Zero))

-----------------------------------------------------------------------------
(* -entropy, a process of its own, given what -detect printed.             *)

(* engine 0: the first row that has all the column values.  The values are *)
(* cut at "#", and a piece without ":" is an index out of range.           *)
FoundRow == {r \in DOMAIN table : table[r] = detected.text}

Rows(from, to) == {r \in DOMAIN table : from <= r /\ r <= to}

Panic == [NoWindow EXCEPT !.state = "panic"]
Missing == [NoWindow EXCEPT !.state = "missing"]

(* Without the bound at the first row.                                     *)
WindowUnclamped(point) ==
    [state |-> "read", point |-> point,
     rows |-> Rows(point - Half + 1, point + Half), start |-> point - Half, end |-> point + Half - 1]

(* mysql and mssql print bounds one below those of the rows they read.     *)
OffsetWindow(point) ==
    LET offset == point - Half IN
    IF offset < 0
    THEN [state |-> "read", point |-> point,
          rows |-> Rows(1, 2 * Half), start |-> 1, end |-> 2 * Half]
    ELSE [state |-> "read", point |-> point,
          rows |-> Rows(offset + 1, offset + 2 * Half), start |-> offset, end |-> offset + 2 * Half - 1]

RownumWindow(point, near) ==
    LET start == near - Half + 1 IN
    [state |-> "read", point |-> point,
     rows  |-> IF start < 0 THEN Rows(1, 2 * Half) ELSE Rows(start, near + Half),
     start |-> IF start < 0 THEN 1 ELSE start,
     end   |-> IF start < 0 THEN 2 * Half ELSE near + Half]

MySQLEntropy ==
    IF detected.text = "enc#" THEN Panic
    ELSE IF FoundRow = {} THEN Missing ELSE OffsetWindow(Min(FoundRow))

OracleEntropy ==
    IF detected.text = "enc#" THEN Panic
    ELSE IF FoundRow = {} THEN Missing ELSE RownumWindow(Min(FoundRow), Min(FoundRow))

SQLServerEntropy ==
    IF detected.text = "enc#" THEN Panic
    ELSE IF FoundRow = {} THEN Missing ELSE OffsetWindow(Min(FoundRow))

MySQLEntropyByRiver == 
    IF detected.number \notin DOMAIN table THEN Missing ELSE OffsetWindow(detected.number)

(* oracle asks the found row for a ROW_NUMBER that it did not select, and  *)
(* goes on with the number of the empty string, 0.                         *)
OracleEntropyByRiver == 
    IF detected.number \notin DOMAIN table THEN Missing ELSE RownumWindow(detected.number, 0)

SQLServerEntropyByRiver == 
    IF detected.number \notin DOMAIN table THEN Missing ELSE OffsetWindow(detected.number)

Entropy ==
    /\ main = "ended" /\ window = NoWindow
    /\ printed # <<>> /\ printed[1] = 1
    /\ window' = CASE program = "mysql" /\ engine = 0 -> MySQLEntropy
                   [] program = "mysql" /\ engine = 1 -> MySQLEntropyByRiver
                   [] program = "oracle" /\ engine = 0 -> OracleEntropy
                   [] program = "oracle" /\ engine = 1 -> OracleEntropyByRiver
                   [] program = "mssql" /\ engine = 0 -> SQLServerEntropy
                   [] program = "mssql" /\ engine = 1 -> SQLServerEntropyByRiver
    /\ UNCHANGED <<startVars, table, sameDay, loopVars, task, historyVars, faults, deletes>>

-----------------------------------------------------------------------------
Terminated == main \in {"ended", "exited"} /\ UNCHANGED vars

Goroutine(g) ==
    \/ MySQLQueryCombine(g) \/ MySQLQueryCombineByRiver(g)
    \/ OracleQueryCombine(g) \/ OracleQueryCombineByRiver(g)
    \/ SQLServerQueryCombine(g) \/ SQLServerQueryCombineByRiver(g)
    \/ MySQLDataRequest(g) \/ MySQLDataRequestByRiver(g)
    \/ OracleDataRequest(g) \/ OracleDataRequestByRiver(g)
    \/ SqlServerDataRequest(g) \/ SqlServerDataRequestByRiver(g)
    \/ Exit(g)

MainStep ==
    \/ CreateDatabaseMySQL \/ CreateDatabaseOracle \/ CreateDatabaseSQLServer
    \/ MySQLDetect \/ OracleDetect \/ SQLServerDetect

Next ==
    \/ MainStep
    \/ \E g \in DOMAIN task : Goroutine(g)
    \/ Midnight
    \/ DeleteRow
    \/ Entropy
    \/ Terminated

Spec == Init /\ [][Next]_vars

(* The Go scheduler runs what can run; queries return and requests have a  *)
(* time limit of 120 seconds.                                              *)
FairSpec ==
    /\ Spec
    /\ WF_vars(MainStep)
    /\ \A g \in 1..Max(Threads) : WF_vars(g \in DOMAIN task /\ Goroutine(g))

-----------------------------------------------------------------------------
ReportedClean == main = "ended" /\ (printed = <<>> \/ printed[1] = 0)
PageOf(r) == (r - 1) \div Size

(* A table reported clean (0, or no line from oracle) may hold encrypted   *)
(* rows only for a reason that shows in no output: the row's page got no   *)
(* verdict, or an earlier round, or its own, took a page with rows for the *)
(* end of the table, or rows moved.  Within a round the order in which the *)
(* pages answer does not matter, although an empty page ends the search.   *)
CleanVerdict ==
    ReportedClean /\ deletes = 0 =>
        \A r \in DOMAIN table : Encrypted(table[r]) =>
            \/ PageOf(r) \in lost
            \/ \E n \in falseEnd : n <= PageOf(r) \div thread

(* A detection is true and in the right place: what main prints with its 1 *)
(* is the content of an encrypted row (engine 0) or its number (engine 1). *)
(* Whichever goroutines still send, fail and end the process, there is one *)
(* detection and one clean verdict at most, and a clean verdict without a  *)
(* detection stands alone: no query of that search has failed.  Both come  *)
(* together from the programs that do not clear noDetected for engine 1.   *)
DetectionTrue ==
    /\ deletes = 0 /\ 1 \in Range(printed) =>
          IF engine = 0 THEN Encrypted(detected.text) /\ detected.text \in Range(table)
          ELSE detected.number \in DOMAIN table /\ Encrypted(table[detected.number])
    /\ \A i, j \in DOMAIN printed : printed[i] = printed[j] /\ printed[i] # 2 => i = j
    /\ 0 \in Range(printed) =>
          \/ printed = <<0>>
          \/ 1 \in Range(printed) /\ engine = 1 /\ program # "oracle"

(* The rows that -entropy reads include the break point, except those of   *)
(* oracle with engine 1, which always reads the first rows.  There are     *)
(* 2*Half of them when the table has enough on both sides, or one less for *)
(* oracle at a break point of Half - 1, where the lower bound is 0.        *)
EntropyWindow ==
    window.state = "read" =>
        LET river == program = "oracle" /\ engine = 1
            edge  == program = "oracle" /\ ~river /\ window.point = Half - 1
        IN  /\ river \/ window.point \in window.rows
            /\ river => window.rows = Rows(1, 2 * Half)
            /\ Len(table) >= Max({2 * Half, window.point + Half}) =>
                  Cardinality(window.rows) = IF edge THEN 2 * Half - 1 ELSE 2 * Half

(* With at least one thread the detection always ends.                     *)
DetectionEnds == thread > 0 => <>(main \in {"ended", "exited"})
=============================================================================
