--------------------------- MODULE DbDetectProofs ---------------------------
(***************************************************************************)
(* Proofs about DbDetect: CleanVerdict, DetectionTrue and EntropyWindow    *)
(* for every table, thread count, page size and window size, from one      *)
(* inductive invariant.  Its core is CoverInv: the pages behind the        *)
(* current round are accounted for row by row, each goroutine of the round *)
(* knows what it will account for, and `done` without a detection means    *)
(* that the end of the table was seen.                                     *)
(***************************************************************************)
EXTENDS DbDetect, FiniteSetTheorems, SequenceTheorems, WellFoundedInduction, TLAPS

(* A goroutine's entry.                                                    *)
Task == [page : Nat, state : {"query", "post", "send", "exit"}, rows : SUBSET Nat, out : Seq(Message)]

(* TypeOK, with the structure of task, and falseEnd never ahead of round.  *)
TypeInv ==
    /\ program \in Programs /\ engine \in {0, 1} /\ thread \in Threads
    /\ table \in Seq(Contents)
    /\ sameDay \in BOOLEAN
    /\ done \in BOOLEAN
    /\ noDetected \in BOOLEAN
    /\ main \in {"connect", "draining", "closing", "returning", "ended", "exited"}
    /\ round \in 0..MaxRounds
    /\ task \in Seq(Task)
    /\ printed \in Seq(0..2) /\ detected \in Message
    /\ faults \in 0..MaxFaults /\ deletes \in 0..MaxDeletes
    /\ falseEnd \subseteq 0..round

(* In a round: one goroutine per thread, on consecutive pages.             *)
Running == main \in {"draining", "closing", "returning"}
RoundInv ==
    /\ Running => DOMAIN task = 1..thread
                  /\ \A g \in DOMAIN task : task[g].page = round * thread + g - 1
    /\ main = "connect" => round = 0 /\ ~done /\ printed = <<>> /\ noDetected
    /\ done => thread > 0
    /\ main = "returning" => done

(* Main has not printed a detection.                                       *)
NoDetection == 1 \notin Range(printed)

(* No line but a 2 comes twice.                                            *)
Single(lines) == \A i, j \in DOMAIN lines : lines[i] = lines[j] /\ lines[i] # 2 => i = j

(* What is on standard output.  A 2 without a detection is there while its *)
(* goroutine has still to end the process, and so the round does not end.  *)
PrintedInv ==
    /\ Single(printed)
    /\ Running => IF NoDetection THEN noDetected
                  ELSE main # "draining" /\ done /\ noDetected = (engine = 1)
    /\ main \in {"draining", "closing"} => 0 \notin Range(printed)
    /\ 0 \in Range(printed) =>
          printed = <<0>> \/ (~NoDetection /\ engine = 1 /\ program # "oracle")
    /\ printed # <<>> /\ printed[1] = 0 => printed = <<0>>
    /\ main = "draining" /\ printed # <<>> => \E g \in DOMAIN task : task[g].state = "exit"
    /\ main \in {"closing", "returning"} /\ NoDetection => AllReturned /\ printed \in {<<>>, <<0>>}
    /\ window.state = "read" => main = "ended"

(* What is printed of a detection is true of the rows.                     *)
TruthIn(e, rows, msg) ==
    IF e = 0 THEN Encrypted(msg.text) /\ msg.text \in Range(rows)
    ELSE msg.number \in DOMAIN rows /\ Encrypted(rows[msg.number])
Truthful(msg) == TruthIn(engine, table, msg)

(* The rows of a page.                                                     *)
PageRows(p) == {r \in DOMAIN table : p * Size < r /\ r <= p * Size + Size}

(* What a goroutine has in hand is a prefix of its page, and what it will  *)
(* report is true.                                                         *)
TaskTruth(g) ==
    /\ task[g].state = "post" =>
          /\ task[g].rows \subseteq PageRows(task[g].page)
          /\ task[g].page * Size + 1 \in task[g].rows
    /\ \A i \in DOMAIN task[g].out :
          task[g].out[i].kind = "found" => Truthful(task[g].out[i])

(* The detections, printed or on their way, are true while no row moved.   *)
TruthInv ==
    deletes = 0 =>
        /\ NoDetection \/ Truthful(detected)
        /\ Running => \A g \in DOMAIN task : TaskTruth(g)

(* The rows there are to find, and why one may be passed over.             *)
EncryptedRows == {r \in DOMAIN table : Encrypted(table[r])}
Accounted(r) ==
    \/ PageOf(r) \in lost
    \/ \E n \in falseEnd : n <= PageOf(r) \div thread

(* The end was seen: the table has no later page, or a page was taken for it.*)
EndSeen == falseEnd # {} \/ \A r \in DOMAIN table : PageOf(r) < (round + 1) * thread

(* What a goroutine leaves out is accounted for.                           *)
TaskCovers(g) ==
    /\ task[g].state = "post" => task[g].page \in lost \/ task[g].rows = PageRows(task[g].page)
    /\ task[g].state = "send" =>
          /\ \A r \in EncryptedRows : PageOf(r) = task[g].page =>
                \/ task[g].page \in lost
                \/ task[g].out # <<>> /\ Head(task[g].out).kind = "found"
          /\ \A i \in DOMAIN task[g].out : task[g].out[i].kind = "no data" => EndSeen

(* Until there is a detection, every row is behind the current round and   *)
(* accounted for, in the hands of its goroutines, or still to come.        *)
CoverInv ==
    deletes = 0 =>
        /\ (main = "connect" \/ Running) /\ NoDetection =>
              \A r \in EncryptedRows : PageOf(r) < round * thread => Accounted(r)
        /\ Running /\ NoDetection =>
              /\ \A g \in DOMAIN task : TaskCovers(g)
              /\ done => EndSeen

(* The inductive invariant.                                                *)
IInv == TypeInv /\ RoundInv /\ PrintedInv /\ TruthInv /\ CoverInv /\ CleanVerdict /\ EntropyWindow

(* A non-empty set of numbers up to n has a least member.  It rests on the *)
(* order of the finite sets 0..k, and stands in for the induction theorems *)
(* of the library, which take an operator and cannot be cited here.        *)
LEMMA LeastMember ==
  ASSUME NEW n \in Nat, NEW B, B \subseteq 0..n, B # {}
  PROVE  \E k \in B : \A j \in B : k <= j
<1> DEFINE S == 0..n
           R == StrictSubsetOrdering(S)
           T == {0..k : k \in B}
<1>1. IsWellFoundedOn(R, FiniteSubsetsOf(S))
  BY FS_StrictSubsetOrderingWellFounded
<1>2. T \subseteq FiniteSubsetsOf(S) 
  <2> SUFFICES ASSUME NEW k \in B PROVE 0..k \in SUBSET S /\ IsFiniteSet(0..k)
    BY DEF FiniteSubsetsOf
  <2>1. k \in 0..n
    OBVIOUS
  <2> QED BY <2>1, FS_Interval
<1>3. T # {}
  OBVIOUS
<1> HIDE DEF R, T
<1>4. PICK x \in T : \A y \in T : ~(<<y, x>> \in R)
  BY <1>1, <1>2, <1>3, WFMin
<1>5. PICK k \in B : x = 0..k
  BY <1>4 DEF T
<1>6. ASSUME NEW j \in B, j < k PROVE FALSE
  <2> DEFINE p == <<0..j, 0..k>>
  <2>1. /\ 0..j \in T /\ 0..j \subseteq 0..k
        /\ k \notin 0..j /\ k \in 0..k
        /\ 0..j \in SUBSET S /\ 0..k \in SUBSET S
    BY <1>6 DEF T
  <2>2. 0..j # 0..k
    BY <2>1
  <2>3. p \in (SUBSET S) \X (SUBSET S) /\ p[1] \subseteq p[2] /\ p[1] # p[2]
    BY <2>1, <2>2
  <2> HIDE DEF p, S
  <2>4. p \in R
    BY <2>3 DEF R, StrictSubsetOrdering
  <2> QED BY <2>1, <2>4, <1>4, <1>5 DEF p
<1> QED BY <1>6

(* Min of a non-empty set of naturals is its least member.                 *)
LEMMA MinOfSet ==
  ASSUME NEW B, B \subseteq Nat, B # {}
  PROVE  Min(B) \in B /\ \A j \in B : Min(B) <= j
<1>1. PICK n \in B : TRUE
  OBVIOUS
<1>2. PICK k \in B \cap 0..n : \A j \in B \cap 0..n : k <= j
  <2>1. n \in Nat /\ n \in B \cap 0..n /\ B \cap 0..n \subseteq 0..n
    BY <1>1
  <2> QED BY <2>1, LeastMember
<1>3. \A j \in B : k <= j
  <2> SUFFICES ASSUME NEW j \in B, ~(k <= j) PROVE FALSE
    OBVIOUS
  <2>1. j \in 0..n
    OBVIOUS
  <2> QED BY <2>1, <1>2
<1> QED BY <1>2, <1>3 DEF Min

(* Min of two numbers, which caps the round counter.                       *)
LEMMA MinOfTwo ==
  ASSUME NEW a \in Int, NEW b \in Int
  PROVE  Min({a, b}) \in {a, b} /\ Min({a, b}) <= a /\ Min({a, b}) <= b
<1>1. \E x \in {a, b} : \A y \in {a, b} : x =< y
  <2>1. CASE a <= b BY <2>1
  <2>2. CASE ~(a <= b) BY <2>2
  <2> QED BY <2>1, <2>2
<1> QED BY <1>1 DEF Min

(* Max of two numbers, in what EntropyWindow asks of the table.            *)
LEMMA MaxOfTwo ==
  ASSUME NEW a \in Int, NEW b \in Int
  PROVE  Max({a, b}) \in {a, b} /\ Max({a, b}) >= a /\ Max({a, b}) >= b
<1>1. \E x \in {a, b} : \A y \in {a, b} : x >= y
  <2>1. CASE a <= b BY <2>1
  <2>2. CASE ~(a <= b) BY <2>2
  <2> QED BY <2>1, <2>2
<1> QED BY <1>1 DEF Max

(* Distributivity and monotonicity of products, for round * thread and     *)
(* page * Size.                                                            *)
LEMMA Products ==
  ASSUME NEW m \in Int, NEW n \in Int, NEW t \in Nat
  PROVE  /\ m * t \in Int
         /\ (m + 1) * t = m * t + t
         /\ m < n => m * t + t <= n * t
<1>1. (m+1) * t = m * t + t
  OBVIOUS
<1>2. m * t \in Int OBVIOUS
<1>3. ASSUME m < n PROVE m * t + t <= n * t
  <2>1. PICK d \in Nat : n = (m + 1) + d
    BY <1>3
  <2>2. n * t = (m+1) * t + d * t
    BY <2>1
  <2>3. d * t >= 0
    OBVIOUS
  <2>. QED BY <2>2, <2>3, <1>1, <1>2
<1> QED BY <1>1, <1>2, <1>3

(* Quotient and remainder.                                                 *)
LEMMA Division ==
  ASSUME NEW p \in Nat, NEW t \in Nat \ {0}
  PROVE  /\ p \div t \in Nat
         /\ (p \div t) * t <= p
         /\ p < (p \div t) * t + t
OBVIOUS

(* The quotient is the only number with that remainder, and grows with p.  *)
LEMMA DivisionUnique ==
  ASSUME NEW p \in Nat, NEW t \in Nat \ {0}, NEW n \in Nat
  PROVE  /\ p \div t = n <=> n * t <= p /\ p < n * t + t
         /\ n * t <= p => n <= p \div t
<1>1. /\ p \div t \in Nat
         /\ (p \div t) * t <= p
         /\ p < (p \div t) * t + t
 BY Division
<1> DEFINE q == p \div t
<1> HIDE DEF q
<1>2. q \in Nat /\ q * t <= p /\ p < q * t + t
  BY <1>1 DEF q
<1>3. q < n => q * t + t <= n * t
  BY <1>2, Products
<1>4. n < q => n * t + t <= q * t
  BY <1>2, Products
<1>5. q*t \in Int /\ n * t \in Int
  BY <1>2, Products
<1> DEFINE a == q * t
           b == n * t
<1>6. /\ a \in Int /\ b \in Int /\ a <= p /\ p < a + t
      /\ q < n => a + t <= b
      /\ n < q => b + t <= a
      /\ q = n => a = b
  BY <1>2, <1>3, <1>4, <1>5
<1> HIDE DEF a, b
<1>7. q = n <=> b <= p /\ p < b + t
  BY <1>2, <1>6
<1>8. b <= p => n <= q
  BY <1>2, <1>6
<1> QED BY <1>7, <1>8 DEF q, b

(* Which page a row is on: LIMIT Size OFFSET p * Size.                     *)
LEMMA PageOfRow ==
  ASSUME NEW r \in Nat \ {0}, NEW p \in Nat
  PROVE  /\ PageOf(r) \in Nat
         /\ PageOf(r) = p <=> p * Size < r /\ r <= p * Size + Size
         /\ p * Size \in Nat
<1>1. r - 1 \in Nat /\ Size \in Nat \ {0}
  BY DbDetectAssumption
<1>2. p * Size \in Nat
  BY <1>1
<1>3.  PageOf(r) = p <=> p * Size <= r - 1 /\ r - 1 < p * Size + Size
  BY <1>1, DivisionUnique DEF PageOf
<1>4. PageOf(r) \in Nat
  BY <1>1, Division DEF PageOf
<1> QED BY <1>1, <1>2, <1>3, <1>4

(* The constants are what DbDetectAssumption says.                         *)
LEMMA ConstantTypes ==
    /\ Size \in Nat \ {0} /\ Half \in Nat \ {0, 1}
    /\ MaxRounds \in Nat /\ MaxFaults \in Nat /\ MaxDeletes \in Nat
    /\ Threads \subseteq Nat
BY DbDetectAssumption

(* The rows of page p are those of which PageOf is p; a page that is not empty*)
(* has its first row.                                                      *)
LEMMA RowsOfPages ==
  ASSUME TypeInv, NEW p \in Nat
  PROVE  /\ PageRows(p) = {r \in DOMAIN table : PageOf(r) = p}
         /\ \A r \in DOMAIN table : r \in Nat \ {0} /\ PageOf(r) \in Nat
         /\ p * Size + 1 \in Nat /\ p * Size \in Nat
         /\ PageRows(p) # {} => p * Size + 1 \in PageRows(p)
<1>1. DOMAIN table = 1..Len(table) /\ Len(table) \in Nat
  BY DEF TypeInv
<1>2. \A r \in DOMAIN table : r \in Nat \ {0}
  BY <1>1
<1>3. \A r \in DOMAIN table : PageOf(r) \in Nat /\ (PageOf(r) = p <=> p * Size < r /\ r <= p * Size + Size)
  BY <1>2, PageOfRow
<1>4. p * Size \in Nat /\ Size \in Nat \ {0}
  BY ConstantTypes
<1> DEFINE a == p * Size
<1> HIDE DEF a
<1>5. a \in Nat
  BY <1>4 DEF a
<1>6. \A r \in 1..Len(table) : a < r /\ r <= a + Size => a + 1 \in 1..Len(table) /\ a < a+1 /\ a + 1 <= a + Size
  BY <1>1, <1>4, <1>5
<1>7. PageRows(p) # {} => p * Size + 1 \in PageRows(p)
  BY <1>1, <1>6 DEF PageRows, a
<1>8. PageRows(p) = {r \in DOMAIN table : PageOf(r) = p}
  BY <1>3 DEF PageRows
<1>9. p * Size + 1 \in Nat
  BY <1>4
<1> QED BY <1>2, <1>3, <1>4, <1>7, <1>8, <1>9

(* The three programs' ways to ask for a page give the same rows.          *)
LEMMA PagesAgree ==
  ASSUME TypeInv, NEW p \in Nat
  PROVE  MySQLPage(p) = PageRows(p) /\ OraclePage(p) = PageRows(p) /\ SQLServerPage(p) = PageRows(p)
<1>1. DOMAIN table \subseteq Nat
  BY RowsOfPages
<1>2. p * Size \in Nat /\ Size \in Nat \ {0}
  BY ConstantTypes
<1>3. (p + 1) * Size = p * Size + Size
  BY <1>2, Products
<1> DEFINE a == p * Size
<1> HIDE DEF a
<1>4. a \in Nat /\ \A r \in Nat : /\ r <= a + Size /\ r >= 1 + a <=> a < r /\ r <= a + Size
                       /\ r - a \in 1..Size <=> a < r /\ r <= a + Size
  BY <1>2 DEF a
<1> QED BY <1>1, <1>3, <1>4 DEF MySQLPage, OraclePage, SQLServerPage, PageRows, a

(* What a goroutine's entry holds.                                         *)
LEMMA TaskTypes ==
  ASSUME TypeInv, NEW g \in DOMAIN task
  PROVE  /\ task[g] \in Task
         /\ task[g].page \in Nat /\ task[g].state \in {"query", "post", "send", "exit"}
         /\ task[g].rows \in SUBSET Nat /\ task[g].out \in Seq(Message)
<1>1. task[g] \in Task
  BY DEF TypeInv
<1> QED BY <1>1 DEF Task

(* A goroutine's query, for whichever program.                             *)
Queries(g) == Query(g, PageRows(task[g].page))
(* A goroutine's request.                                                  *)
Posts(g) ==
    \/ engine = 0 /\ Post(g, ActiveIOVerdicts(task[g].rows))
    \/ engine = 1 /\ Post(g, RiverVerdicts(task[g].rows, task[g].page))

(* The last step of main.                                                  *)
Ends == \/ program # "oracle" /\ EndDetect(Zero)
        \/ program = "oracle" /\ EndDetect(<<>>)

(* The steps of the program, the three programs' actions taken together.   *)
LEMMA NextSteps ==
  ASSUME TypeInv, [Next]_vars
  PROVE  \/ Connect
         \/ Midnight
         \/ DeleteRow
         \/ \E g \in DOMAIN task : Queries(g) \/ Posts(g) \/ Exit(g) \/ Receive(g)
         \/ RoundEnds
         \/ StartNextRound
         \/ Ends
         \/ Return
         \/ Entropy
         \/ UNCHANGED vars
<1>1. ASSUME NEW g \in DOMAIN task, Goroutine(g)
      PROVE  Queries(g) \/ Posts(g) \/ Exit(g)
  <2>1. task[g].page \in Nat
    BY TaskTypes
  <2>2. /\ MySQLPage(task[g].page) = PageRows(task[g].page)
        /\ OraclePage(task[g].page) = PageRows(task[g].page)
        /\ SQLServerPage(task[g].page) = PageRows(task[g].page)
    BY <2>1, PagesAgree
  <2> QED
    BY <1>1, <2>2 DEF Goroutine, Queries, Posts, MySQLQueryCombine, MySQLQueryCombineByRiver,
         OracleQueryCombine, OracleQueryCombineByRiver, SQLServerQueryCombine, SQLServerQueryCombineByRiver,
         MySQLDataRequest, MySQLDataRequestByRiver, OracleDataRequest, OracleDataRequestByRiver,
         SqlServerDataRequest, SqlServerDataRequestByRiver, DataRequest, DataRequestByRiver
<1>2. ASSUME MainStep
      PROVE  \/ Connect \/ RoundEnds \/ StartNextRound \/ Ends \/ Return
             \/ \E g \in DOMAIN task : Receive(g)
  BY <1>2 DEF MainStep, CreateDatabaseMySQL, CreateDatabaseOracle, CreateDatabaseSQLServer,
       MySQLDetect, OracleDetect, SQLServerDetect, DetectLoop, Ends
<1>3. CASE Terminated
  BY <1>3 DEF Terminated
<1> QED BY <1>1, <1>2, <1>3 DEF Next

(* What a round starts with.                                               *)
LEMMA NewRoundStarts ==
  ASSUME TypeInv, NEW count \in Nat, NewRound(count)
  PROVE  /\ main' = "draining" /\ ~done' /\ done' \in BOOLEAN
         /\ task' \in Seq(Task) /\ DOMAIN task' = 1..thread
         /\ \A g \in DOMAIN task' : /\ task'[g].page = count * thread + g - 1
                                    /\ task'[g].state = "query" /\ task'[g].out = <<>>
<1>1. thread \in Nat
  BY ConstantTypes DEF TypeInv
<1>2. count * thread \in Nat
  BY <1>1
<1>3. \A g \in 1..thread : count * thread + g - 1 \in Nat
  BY <1>1, <1>2
<1>4. <<>> \in Seq(Message)
  OBVIOUS
<1> DEFINE row(g) == [page |-> count * thread + g - 1, state |-> "query", rows |-> {}, out |-> <<>>]
<1>5. \A g \in 1..thread : row(g) \in Task
  BY <1>3, <1>4 DEF Task
<1>6. task' = [g \in 1..thread |-> row(g)]
  BY DEF NewRound
<1>7. task' \in [1..thread -> Task]
  BY <1>5, <1>6
<1>8. task' \in Seq(Task)
  BY <1>7, <1>1
<1>9. DOMAIN task' = 1..thread
  BY <1>6
<1>10. main' = "draining" /\ done' = FALSE
  BY DEF NewRound
<1>11. \A g \in DOMAIN task' : task'[g] = row(g)
  BY <1>6, <1>9
<1>12. ~done' /\ done' \in BOOLEAN
  BY <1>10
<1>13. \A g \in 1..thread : /\ row(g).page = count * thread + g - 1
                            /\ row(g).state = "query" /\ row(g).out = <<>>
  OBVIOUS
<1> HIDE DEF row
<1>14. \A g \in DOMAIN task' : /\ task'[g].page = count * thread + g - 1
                               /\ task'[g].state = "query" /\ task'[g].out = <<>>
  BY <1>9, <1>11, <1>13
<1> QED BY <1>8, <1>9, <1>10, <1>12, <1>14

(* What has been accounted for stays so while rows stay where they are.    *)
LEMMA Persistence ==
  ASSUME TypeInv, table' = table, thread' = thread, round' = round,
         lost \subseteq lost', falseEnd \subseteq falseEnd'
  PROVE  /\ EncryptedRows' = EncryptedRows
         /\ \A r : PageOf(r)' = PageOf(r)
         /\ \A r : Accounted(r) => Accounted(r)'
         /\ EndSeen => EndSeen'
         /\ \A p : PageRows(p)' = PageRows(p)
<1>1. EncryptedRows' = EncryptedRows
  BY DEF EncryptedRows, Encrypted
<1>2. \A r : PageOf(r)' = PageOf(r)
  BY DEF PageOf
<1>3. ASSUME NEW r, Accounted(r) PROVE Accounted(r)'
  BY <1>3, <1>2 DEF Accounted
<1>4. ASSUME EndSeen PROVE EndSeen'
  BY <1>4, <1>2 DEF EndSeen
<1>5. \A p : PageRows(p)' = PageRows(p)
  BY DEF PageRows
<1> QED BY <1>1, <1>2, <1>3, <1>4, <1>5

(* So does what a goroutine that did not move has covered.                 *)
LEMMA TaskPersists ==
  ASSUME TypeInv, table' = table, thread' = thread, round' = round,
         lost \subseteq lost', falseEnd \subseteq falseEnd',
         NEW h, task'[h] = task[h], TaskCovers(h)
  PROVE  TaskCovers(h)'
BY Persistence DEF TaskCovers

(* A detection that was true stays true.                                   *)
LEMMA TruthPersists ==
  ASSUME table' = table, engine' = engine
  PROVE  /\ detected' = detected => Truthful(detected)' = Truthful(detected)
         /\ \A h : task'[h] = task[h] /\ TaskTruth(h) => TaskTruth(h)'
<1>1. detected' = detected => Truthful(detected)' = Truthful(detected)
  BY DEF Truthful
<1>2. ASSUME NEW h, task'[h] = task[h], TaskTruth(h) PROVE TaskTruth(h)'
  BY <1>2 DEF TaskTruth, Truthful, PageRows
<1> QED BY <1>1, <1>2

(* Nothing was printed, and no goroutine has failed or returned meanwhile. *)
LEMMA PrintedPersists ==
  ASSUME PrintedInv, UNCHANGED <<program, engine, main, done, noDetected, printed>>,
         window' = window \/ main = "ended",
         \/ task' = task
         \/ \E g \in DOMAIN task : /\ task[g].state \in {"query", "post"}
                                  /\ DOMAIN task' = DOMAIN task
                                  /\ \A h \in DOMAIN task : h # g => task'[h] = task[h]
  PROVE  PrintedInv'
<1>1. (NoDetection <=> NoDetection') /\ (Single(printed) <=> Single(printed)') /\ (Running <=> Running')
  BY DEF NoDetection, Single, Running, Range
<1>2. ASSUME main \in {"closing", "returning"}, NoDetection PROVE AllReturned'
  BY <1>2 DEF PrintedInv, AllReturned
<1>3. ASSUME main = "draining", printed # <<>> PROVE \E g \in DOMAIN task' : task'[g].state = "exit"
  BY <1>3 DEF PrintedInv
<1> QED BY <1>1, <1>2, <1>3 DEF PrintedInv

(* A line more on standard output.                                         *)
LEMMA AppendLine ==
  ASSUME NEW lines \in Seq(0..2), NEW b \in 0..2
  PROVE  /\ Append(lines, b) \in Seq(0..2) /\ Append(lines, b) # <<>>
         /\ Range(Append(lines, b)) = Range(lines) \cup {b}
         /\ lines = <<>> => Append(lines, b) = <<b>>
         /\ lines # <<>> => Append(lines, b)[1] = lines[1] /\ lines[1] \in Range(lines)
         /\ Single(lines) /\ (b \notin Range(lines) \/ b = 2) => Single(Append(lines, b))
<1> DEFINE more == Append(lines, b)
<1>1. /\ more \in Seq(0..2) /\ Len(more) = Len(lines) + 1 /\ Len(lines) \in Nat
      /\ DOMAIN lines = 1..Len(lines) /\ DOMAIN more = 1..(Len(lines) + 1)
      /\ \A i \in 1..Len(lines) : more[i] = lines[i]
      /\ more[Len(lines) + 1] = b
  BY AppendProperties
<1>2. lines = <<>> => more = <<b>>
  OBVIOUS
<1>3. lines # <<>> => 1 \in 1..Len(lines)
  BY EmptySeq
<1> HIDE DEF more
<1>4. Range(more) = Range(lines) \cup {b}
  <2>1. \A i \in DOMAIN more : i \in DOMAIN lines \/ i = Len(lines) + 1
    BY <1>1
  <2>2. \A i \in DOMAIN lines : i \in DOMAIN more
    BY <1>1
  <2> QED BY <1>1, <2>1, <2>2 DEF Range
<1>5. ASSUME Single(lines), b \notin Range(lines) \/ b = 2 PROVE Single(more)
  <2> SUFFICES ASSUME NEW i \in DOMAIN more, NEW j \in DOMAIN more, more[i] = more[j], more[i] # 2
               PROVE  i = j
    BY DEF Single
  <2>1. \A k \in DOMAIN more : k \in DOMAIN lines \/ k = Len(lines) + 1
    BY <1>1
  <2> QED BY <1>1, <1>5, <2>1 DEF Single, Range
<1>6. more # <<>>
  BY <1>1, EmptySeq
<1> QED BY <1>1, <1>2, <1>3, <1>4, <1>5, <1>6 DEF more, Range

(* Until main has ended there is no window.                                *)
LEMMA EntropyOnlyAtEnd ==
  ASSUME PrintedInv, main # "ended", window' = window
  PROVE  EntropyWindow'
BY DEF PrintedInv, EntropyWindow

(* An update of one goroutine's entry.                                     *)
LEMMA UpdateTask ==
  ASSUME TypeInv, NEW g \in DOMAIN task, NEW entry \in Task,
         task' = [task EXCEPT ![g] = entry]
  PROVE  /\ task' \in Seq(Task) /\ DOMAIN task' = DOMAIN task
         /\ task'[g] = entry
         /\ \A h \in DOMAIN task : h # g => task'[h] = task[h]
<1>1. task \in Seq(Task)
  BY DEF TypeInv
<1> QED BY <1>1

(* The connection, with the first round or the exit that follows.          *)
LEMMA ConnectStep ==
  ASSUME IInv, Connect
  PROVE  IInv'
<1> USE DEF IInv
<1>1. /\ main = "connect" /\ round = 0 /\ ~done /\ printed = <<>> /\ noDetected
      /\ UNCHANGED <<startVars, table, sameDay, round, noDetected, detected, window, historyVars, deletes>>
      /\ window' = window /\ window.state # "read"
      /\ faults' \in 0..MaxFaults
  BY ConstantTypes DEF Connect, RoundInv, PrintedInv, Fault, NoFault, TypeInv
<1>2. EntropyWindow'
  BY <1>1, EntropyOnlyAtEnd
<1>3. CASE NewRound(0) /\ UNCHANGED printed
  <2>1. /\ main' = "draining" /\ ~done' /\ done' \in BOOLEAN
        /\ task' \in Seq(Task) /\ DOMAIN task' = 1..thread
        /\ \A g \in DOMAIN task' : /\ task'[g].page = 0 * thread + g - 1
                                   /\ task'[g].state = "query" /\ task'[g].out = <<>>
    BY <1>3, NewRoundStarts
  <2>2. TypeInv'
    BY <1>1, <1>3, <2>1 DEF TypeInv, startVars, historyVars
  <2>3. RoundInv'
    BY <1>1, <2>1 DEF RoundInv, Running, startVars
  <2>4. PrintedInv'
    BY <1>1, <1>3, <2>1 DEF PrintedInv, Running, NoDetection, Single, Range
  <2>5. TruthInv'
    BY <1>1, <1>3, <2>1 DEF TruthInv, TaskTruth, NoDetection, Range
  <2>6. CoverInv'
    <3>1. thread \in Nat
      BY ConstantTypes DEF TypeInv
    <3>2. round' * thread' = 0
      BY <1>1, <3>1 DEF startVars
    <3>3. \A r \in EncryptedRows' : PageOf(r)' \in Nat
      <4>1. TypeInv' => \A r \in DOMAIN table' : PageOf(r)' \in Nat
        <5>1. table' = table /\ \A r \in DOMAIN table : PageOf(r) \in Nat
          BY <1>1, RowsOfPages
        <5> QED BY <5>1 DEF PageOf
      <4> QED BY <4>1, <2>2 DEF EncryptedRows
    <3>4. \A g \in DOMAIN task' : TaskCovers(g)'
      BY <2>1 DEF TaskCovers
    <3> QED BY <2>1, <3>2, <3>3, <3>4 DEF CoverInv
  <2>7. CleanVerdict'
    BY <2>1 DEF CleanVerdict, ReportedClean
  <2> QED BY <1>2, <2>2, <2>3, <2>4, <2>5, <2>6, <2>7
<1>4. CASE printed' = <<2>> /\ main' = "exited" /\ UNCHANGED <<done, task>>
  <2>1. TypeInv'
    BY <1>1, <1>4 DEF TypeInv, startVars, historyVars
  <2>2. RoundInv'
    BY <1>1, <1>4 DEF RoundInv, Running, startVars
  <2>3. PrintedInv'
    BY <1>1, <1>4 DEF PrintedInv, Running, Single, Range
  <2>4. TruthInv' /\ CoverInv' /\ CleanVerdict'
    BY <1>4 DEF TruthInv, CoverInv, CleanVerdict, ReportedClean, Running, NoDetection, Range
  <2> QED BY <1>2, <2>1, <2>2, <2>3, <2>4
<1> QED BY <1>3, <1>4 DEF Connect

(* The change of day.                                                      *)
LEMMA MidnightStep ==
  ASSUME IInv, Midnight
  PROVE  IInv'
<1> USE DEF IInv
<1>1. /\ sameDay' = FALSE /\ main = "draining"
      /\ UNCHANGED <<startVars, table, loopVars, task, window, historyVars, faults, deletes>>
  BY DEF Midnight
<1>2. UNCHANGED <<program, engine, thread, table, main, round, done, noDetected, printed, detected, task, window,
                  lost, falseEnd, faults, deletes>>
  BY <1>1 DEF startVars, loopVars, historyVars
<1>3. TypeInv'
  BY <1>1, <1>2 DEF TypeInv
<1>4. RoundInv' /\ PrintedInv'
  BY <1>2, PrintedPersists DEF RoundInv, Running
<1>5. TruthInv'
  BY <1>2, TruthPersists DEF TruthInv, Running, NoDetection
<1>6. CoverInv'
  BY <1>2 DEF CoverInv, Running, NoDetection, TaskCovers, EndSeen, Accounted, EncryptedRows, Encrypted, PageOf, PageRows, AllReturned
<1>7. CleanVerdict'
  BY <1>1, <1>2 DEF CleanVerdict, ReportedClean
<1> QED BY <1>1, <1>3, <1>4, <1>5, <1>6, <1>7, EntropyOnlyAtEnd, <1>2

(* A deleted row: from then on nothing is promised.                        *)
LEMMA DeleteRowStep ==
  ASSUME IInv, DeleteRow
  PROVE  IInv'
<1> USE DEF IInv
<1>1. PICK r \in DOMAIN table : table' = RemoveAt(table, r)
  BY DEF DeleteRow
<1>2. /\ UNCHANGED <<program, engine, thread, sameDay, main, round, done, noDetected, printed, detected, task, window,
                  lost, falseEnd, faults>>
      /\ main # "ended" /\ deletes' # 0 /\ deletes' \in 0..MaxDeletes
  BY ConstantTypes DEF DeleteRow, startVars, loopVars, historyVars, TypeInv
<1>3. table' \in Seq(Contents)
  <2>1. table \in Seq(Contents) /\ Len(table) \in Nat /\ r \in 1..Len(table)
    BY DEF TypeInv
  <2>2. SubSeq(table, 1, r - 1) \in Seq(Contents) /\ SubSeq(table, r + 1, Len(table)) \in Seq(Contents)
    BY <2>1
  <2> QED BY <1>1, <2>2, ConcatProperties DEF RemoveAt
<1>4. TypeInv'
  BY <1>2, <1>3 DEF TypeInv
<1>5. RoundInv' /\ PrintedInv'
  BY <1>2, PrintedPersists DEF RoundInv, Running
<1>6. TruthInv' /\ CoverInv' /\ CleanVerdict'
  BY <1>2 DEF TruthInv, CoverInv, CleanVerdict
<1> QED BY <1>2, <1>4, <1>5, <1>6, EntropyOnlyAtEnd

(* What a query's result does to its goroutine.                            *)
AfterQuery(g, rows) ==
    /\ task' = IF rows = {}
               THEN [task EXCEPT ![g].state = "send", ![g].out = <<Msg("no data")>>]
               ELSE [task EXCEPT ![g].state = "post", ![g].rows = rows]
    /\ lost' = IF rows # PageRows(task[g].page) THEN lost \cup {task[g].page} ELSE lost
    /\ falseEnd' = IF rows = {} /\ PageRows(task[g].page) # {} THEN falseEnd \cup {round} ELSE falseEnd

(* The messages there are.                                                 *)
LEMMA MessageTypes ==
    /\ Msg("no data") \in Message /\ Msg("error") \in Message
    /\ Msg("clean") \in Message /\ Msg("garbled") \in Message
    /\ Msg("no data").kind = "no data" /\ Msg("error").kind = "error"
    /\ Msg("clean").kind = "clean" /\ Msg("garbled").kind = "garbled"
    /\ \A text \in Contents \cup {""}, number \in Nat : Found(text, number) \in Message
<1>1. \A kind \in {"no data", "error", "clean", "garbled", "found"} : Msg(kind) \in Message
  BY DEF Msg, Message
<1>2. /\ Msg("no data").kind = "no data" /\ Msg("error").kind = "error"
      /\ Msg("clean").kind = "clean" /\ Msg("garbled").kind = "garbled"
  BY DEF Msg
<1>3. ASSUME NEW text \in Contents \cup {""}, NEW number \in Nat
      PROVE  Found(text, number) \in Message
  BY DEF Found, Message
<1> QED BY <1>1, <1>2, <1>3

(* A sequence of one message.                                              *)
LEMMA OneMessage ==
  ASSUME NEW x \in Message
  PROVE  /\ <<x>> \in Seq(Message) /\ DOMAIN <<x>> = {1} /\ <<x>>[1] = x
         /\ Head(<<x>>) = x /\ <<x>> # <<>>
OBVIOUS

(* A query's result preserves the invariant: a prefix of the page, empty or*)
(* not.  An empty result of a page that has rows is entered in falseEnd; an*)
(* empty page tells that no row lies further on.                           *)
LEMMA QueryResult ==
  ASSUME IInv, NEW g \in DOMAIN task, task[g].state = "query", Running,
         NEW rows, rows \subseteq PageRows(task[g].page),
         rows = {} \/ task[g].page * Size + 1 \in rows,
         AfterQuery(g, rows), faults' \in 0..MaxFaults,
         UNCHANGED <<startVars, table, sameDay, loopVars, window, deletes>>
  PROVE  IInv'
<1> USE DEF IInv
<1> DEFINE p == task[g].page
<1>1. /\ UNCHANGED <<program, engine, thread, table, sameDay, main, round, done, noDetected, printed,
                     detected, window, deletes>>
      /\ main # "ended" /\ main # "connect"
      /\ p \in Nat /\ round \in Nat
      /\ lost \subseteq lost' /\ falseEnd \subseteq falseEnd' /\ falseEnd' \subseteq 0..round
  <2>1. p \in Nat
    BY TaskTypes
  <2>2. round \in Nat /\ falseEnd \subseteq 0..round /\ round \in 0..round
    BY ConstantTypes DEF TypeInv
  <2>3. lost \subseteq lost' /\ falseEnd \subseteq falseEnd' /\ falseEnd' \subseteq 0..round
    BY <2>2 DEF AfterQuery
  <2> QED BY <2>1, <2>2, <2>3 DEF startVars, loopVars, Running
<1> DEFINE none == [task[g] EXCEPT !.state = "send", !.out = <<Msg("no data")>>]
           some == [task[g] EXCEPT !.state = "post", !.rows = rows]
           entry == IF rows = {} THEN none ELSE some
<1>2. none \in Task /\ none.page = p /\ none.state = "send" /\ none.out = <<Msg("no data")>>
  <2>1. Msg("no data") \in Message /\ <<Msg("no data")>> \in Seq(Message)
    BY MessageTypes, OneMessage
  <2> QED BY <2>1, TaskTypes DEF Task
<1>3. some \in Task /\ some.page = p /\ some.state = "post" /\ some.rows = rows /\ some.out = task[g].out
  <2>1. rows \in SUBSET Nat
    BY <1>1, RowsOfPages DEF PageRows
  <2> QED BY <2>1, TaskTypes DEF Task
<1>4. task' = [task EXCEPT ![g] = entry]
  BY DEF AfterQuery
<1>5. /\ entry \in Task /\ entry.page = p
      /\ rows = {} => entry.state = "send" /\ entry.out = <<Msg("no data")>>
      /\ rows # {} => entry.state = "post" /\ entry.rows = rows /\ entry.out = task[g].out
  BY <1>2, <1>3
<1> HIDE DEF entry, none, some
<1>6. /\ task' \in Seq(Task) /\ DOMAIN task' = DOMAIN task
      /\ task'[g] = entry
      /\ \A h \in DOMAIN task : h # g => task'[h] = task[h]
  BY <1>4, <1>5, UpdateTask
<1>7. TypeInv'
  BY <1>1, <1>6 DEF TypeInv
<1>8. RoundInv' /\ PrintedInv'
  <2>1. \A h \in DOMAIN task : task'[h].page = task[h].page
    BY <1>5, <1>6
  <2>2. PrintedInv'
    BY <1>1, <1>6, PrintedPersists
  <2> QED BY <1>1, <1>6, <2>1, <2>2 DEF RoundInv, Running
<1>9. TruthInv'
  <2> SUFFICES ASSUME deletes = 0 PROVE TruthInv'
    BY <1>1 DEF TruthInv
  <2>2. \A q : PageRows(q)' = PageRows(q)
    BY <1>1, Persistence
  <2>3. NoDetection' \/ Truthful(detected)'
    BY TruthPersists, <1>1 DEF TruthInv, NoDetection
  <2>4. ASSUME NEW h \in DOMAIN task
        PROVE  TaskTruth(h)'
    <3>0. TaskTruth(h)
      BY DEF TruthInv
    <3>1. CASE h # g
      BY <3>0, <3>1, <1>1, <1>6, TruthPersists
    <3>2. CASE h = g /\ rows = {}
      <4>1. task'[h].state = "send" /\ task'[h].out = <<Msg("no data")>>
        BY <3>2, <1>5, <1>6
      <4>2. \A i \in DOMAIN task'[h].out : task'[h].out[i].kind # "found"
        <5>1. Msg("no data") \in Message /\ Msg("no data").kind = "no data"
          BY MessageTypes
        <5> QED BY <4>1, <5>1, OneMessage
      <4> QED BY <4>1, <4>2 DEF TaskTruth
    <3>3. CASE h = g /\ rows # {}
      <4>1. task'[h].state = "post" /\ task'[h].rows = rows /\ task'[h].page = p /\ task'[h].out = task[h].out
        BY <3>3, <1>5, <1>6
      <4> QED BY <3>0, <3>3, <4>1, <2>2, <1>1 DEF TaskTruth, Truthful
    <3> QED BY <3>1, <3>2, <3>3
  <2> QED BY <2>3, <2>4, <1>1, <1>6 DEF TruthInv, Running
<1>10. CoverInv'
  <2> SUFFICES ASSUME deletes = 0 PROVE CoverInv'
    BY <1>1 DEF CoverInv
  <2>1. /\ EncryptedRows' = EncryptedRows
        /\ \A r : PageOf(r)' = PageOf(r)
        /\ \A r : Accounted(r) => Accounted(r)'
        /\ EndSeen => EndSeen'
        /\ \A q : PageRows(q)' = PageRows(q)
    BY <1>1, Persistence
  <2>2. ASSUME NoDetection, NEW h \in DOMAIN task
        PROVE  TaskCovers(h)'
    <3>0. \A k \in DOMAIN task : TaskCovers(k)
      BY <2>2 DEF CoverInv
    <3>1. CASE h # g
      BY <3>0, <3>1, <1>6, <1>1, TaskPersists
    <3>2. CASE h = g /\ rows = {}
      <4>1. task'[h].state = "send" /\ task'[h].out = <<Msg("no data")>> /\ task'[h].page = p
        BY <3>2, <1>5, <1>6
      <4>2. ASSUME NEW r \in EncryptedRows, PageOf(r) = p PROVE p \in lost'
        <5>1. r \in PageRows(p)
          BY <4>2, <1>1, RowsOfPages DEF EncryptedRows
        <5> QED BY <5>1, <3>2 DEF AfterQuery
      <4>3. EndSeen'
        <5>1. CASE PageRows(p) # {}
          BY <5>1, <3>2, <1>1 DEF AfterQuery, EndSeen
        <5>2. CASE PageRows(p) = {}
          <6>1. p < (round + 1) * thread
            <7>1. g \in 1..thread /\ p = round * thread + g - 1 /\ thread \in Nat
              BY ConstantTypes DEF RoundInv, TypeInv
            <7>2. (round + 1) * thread = round * thread + thread /\ round * thread \in Int
              BY <7>1, <1>1, Products
            <7> QED BY <7>1, <7>2
          <6>2. \A r \in DOMAIN table : PageOf(r) < p
            <7> SUFFICES ASSUME NEW r \in DOMAIN table, ~(PageOf(r) < p) PROVE FALSE
              OBVIOUS
            <7>0. r \in Nat \ {0} /\ PageOf(r) \in Nat /\ PageOf(r) # p
              BY <1>1, <5>2, RowsOfPages
            <7>1. r \in Nat \ {0} /\ PageOf(r) \in Nat /\ PageOf(r) > p
              BY <7>0, <1>1
            <7>2. DOMAIN table = 1..Len(table) /\ Len(table) \in Nat
              BY DEF TypeInv
            <7> DEFINE n == PageOf(r)
            <7> HIDE DEF n
            <7>3. n \in Nat /\ p < n /\ n * Size < r
              BY <7>1, PageOfRow DEF n
            <7>4. p * Size + Size <= n * Size /\ p * Size \in Nat /\ Size \in Nat \ {0} /\ n * Size \in Nat
              BY <1>1, <7>3, Products, ConstantTypes
            <7>5. p * Size + 1 \in DOMAIN table /\ p * Size < p * Size + 1 /\ p * Size + 1 <= p * Size + Size
              BY <7>1, <7>2, <7>3, <7>4
            <7>6. p * Size + 1 \in PageRows(p)
              BY <7>5 DEF PageRows
            <7> QED BY <7>6, <5>2
          <6>3. \A r \in DOMAIN table : PageOf(r) \in Nat
            BY <1>1, RowsOfPages
          <6>4. (round + 1) * thread \in Int
            BY ConstantTypes, <1>1 DEF TypeInv
          <6>5. EndSeen
            BY <6>1, <6>2, <6>3, <6>4, <1>1 DEF EndSeen
          <6> QED BY <6>5, <2>1
        <5> QED BY <5>1, <5>2
      <4> QED BY <4>1, <4>2, <4>3, <2>1 DEF TaskCovers
    <3>3. CASE h = g /\ rows # {}
      <4>1. task'[h].state = "post" /\ task'[h].rows = rows /\ task'[h].page = p
        BY <3>3, <1>5, <1>6
      <4>2. p \in lost' \/ rows = PageRows(p)
        BY DEF AfterQuery
      <4> QED BY <4>1, <4>2, <2>1 DEF TaskCovers
    <3> QED BY <3>1, <3>2, <3>3
  <2>4. ASSUME NEW r \in EncryptedRows, NoDetection, PageOf(r) < round * thread
        PROVE  Accounted(r)'
    BY <2>4, <2>1 DEF CoverInv, Running
  <2>5. ASSUME NoDetection, done PROVE EndSeen'
    BY <2>5, <2>1 DEF CoverInv
  <2> QED BY <1>1, <1>6, <2>1, <2>2, <2>4, <2>5 DEF CoverInv, Running, NoDetection
<1>11. CleanVerdict'
  BY <1>1 DEF CleanVerdict, ReportedClean
<1> QED BY <1>1, <1>7, <1>8, <1>9, <1>10, <1>11, EntropyOnlyAtEnd

(* The queries, in all their outcomes.                                     *)
LEMMA QueryStep ==
  ASSUME IInv, NEW g \in DOMAIN task, Queries(g)
  PROVE  IInv'
<1> USE DEF IInv
<1> DEFINE p == task[g].page
           page == PageRows(p)
<1>1. /\ task[g].state = "query" /\ Running /\ p \in Nat
      /\ UNCHANGED <<startVars, table, sameDay, window, deletes>>
  BY TaskTypes DEF Queries, Query, Running, Alive
<1>2. p * Size + 1 \in page \/ page = {}
  BY <1>1, RowsOfPages
<1>3. /\ NoFault => faults' \in 0..MaxFaults
      /\ Fault => faults' \in 0..MaxFaults
  BY ConstantTypes DEF NoFault, Fault, TypeInv
<1>4. CASE AfterQuery(g, page) /\ UNCHANGED loopVars /\ NoFault
  BY <1>1, <1>2, <1>3, <1>4, QueryResult
<1>5. CASE AfterQuery(g, {}) /\ UNCHANGED loopVars /\ NoFault
  BY <1>1, <1>3, <1>5, QueryResult
<1>6. CASE Fault /\ UNCHANGED loopVars /\ \E r \in page : AfterQuery(g, {q \in page : q < r})
  <2>1. PICK r \in page : AfterQuery(g, {q \in page : q < r})
    BY <1>6
  <2> DEFINE rows == {q \in page : q < r}
  <2>2. rows \subseteq page
    OBVIOUS
  <2>3. rows = {} \/ p * Size + 1 \in rows
    <3>1. r \in Nat /\ \A q \in page : q \in Nat /\ p * Size + 1 <= q
      BY <1>1, RowsOfPages DEF PageRows
    <3>2. p * Size + 1 \in page /\ p * Size + 1 \in Nat
      BY <1>1, <1>2, RowsOfPages
    <3>3. ASSUME NEW q \in rows PROVE p * Size + 1 < r
      BY <3>1, <3>2
    <3> QED BY <3>2, <3>3
  <2> HIDE DEF rows
  <2> QED BY <1>1, <1>3, <1>6, <2>1, <2>2, <2>3, QueryResult DEF rows
<1>7. CASE /\ Fault \/ (main = "returning" /\ NoFault)
           /\ printed' = Append(printed, 2)
           /\ task' = [task EXCEPT ![g].state = "exit"]
           /\ UNCHANGED <<main, round, done, noDetected, detected, historyVars>>
  <2>1. /\ UNCHANGED <<program, engine, thread, table, sameDay, window, deletes, main, round, done, noDetected,
                       detected, lost, falseEnd>>
        /\ main # "ended" /\ main # "connect" /\ faults' \in 0..MaxFaults
    BY <1>1, <1>3, <1>7 DEF startVars, historyVars, Running
  <2> DEFINE entry == [task[g] EXCEPT !.state = "exit"]
  <2>2. entry \in Task /\ entry.page = p /\ entry.state = "exit" /\ entry.out = task[g].out
    BY TaskTypes DEF Task
  <2>3. task' = [task EXCEPT ![g] = entry]
    BY <1>7
  <2> HIDE DEF entry
  <2>4. /\ task' \in Seq(Task) /\ DOMAIN task' = DOMAIN task
        /\ task'[g] = entry
        /\ \A h \in DOMAIN task : h # g => task'[h] = task[h]
    BY <2>2, <2>3, UpdateTask
  <2>5. printed \in Seq(0..2) /\ 2 \in 0..2
    BY DEF TypeInv
  <2>6. /\ printed' \in Seq(0..2) /\ printed' # <<>>
        /\ Range(printed') = Range(printed) \cup {2}
        /\ printed = <<>> => printed' = <<2>>
        /\ printed # <<>> => printed'[1] = printed[1] /\ printed[1] \in Range(printed)
        /\ Single(printed')
    BY <1>7, <2>5, AppendLine DEF PrintedInv
  <2>7. NoDetection' <=> NoDetection
    BY <2>6 DEF NoDetection
  <2>8. NoDetection => main = "draining"
    BY <1>1 DEF PrintedInv, AllReturned, Running
  <2>9. printed # <<0>>
    <3>1. 0 \in Range(<<0>>) /\ 1 \notin Range(<<0>>)
      BY DEF Range
    <3> QED BY <2>8, <3>1 DEF PrintedInv, NoDetection
  <2>10. TypeInv'
    BY <2>1, <2>4, <2>6 DEF TypeInv
  <2>11. RoundInv'
    <3>1. \A h \in DOMAIN task : task'[h].page = task[h].page
      BY <2>2, <2>4
    <3> QED BY <2>1, <2>4, <3>1 DEF RoundInv, Running
  <2>12. PrintedInv'
    <3>1. 0 \in Range(printed') => ~NoDetection' /\ engine' = 1 /\ program' # "oracle"
      BY <2>1, <2>6, <2>7, <2>9 DEF PrintedInv
    <3>2. main \in {"draining", "closing"} => 0 \notin Range(printed')
      BY <2>6 DEF PrintedInv
    <3>3. printed'[1] # 0
      <4>1. <<2>>[1] = 2
        OBVIOUS
      <4> QED BY <2>6, <2>9, <4>1 DEF PrintedInv
    <3>4. \E h \in DOMAIN task' : task'[h].state = "exit"
      BY <2>2, <2>4
    <3>5. Running' => IF NoDetection' THEN noDetected'
                     ELSE main' # "draining" /\ done' /\ noDetected' = (engine' = 1)
      BY <2>1, <2>7 DEF PrintedInv, Running
    <3> QED BY <2>1, <2>6, <2>7, <2>8, <3>1, <3>2, <3>3, <3>4, <3>5 DEF PrintedInv
  <2>13. TruthInv'
    <3> SUFFICES ASSUME deletes = 0 PROVE TruthInv'
      BY <2>1 DEF TruthInv
    <3>1. NoDetection' \/ Truthful(detected)'
      BY TruthPersists, <2>1, <2>7 DEF TruthInv
    <3>2. ASSUME NEW h \in DOMAIN task
          PROVE  TaskTruth(h)'
      <4>0. TaskTruth(h)
        BY <1>1 DEF TruthInv
      <4>1. CASE h # g
        BY <4>0, <4>1, <2>1, <2>4, TruthPersists
      <4>2. CASE h = g
        <5>1. task'[h].state = "exit" /\ task'[h].out = task[h].out
          BY <4>2, <2>2, <2>4
        <5> QED BY <4>0, <5>1, <2>1 DEF TaskTruth, Truthful
      <4> QED BY <4>1, <4>2
    <3> QED BY <3>1, <3>2, <2>4 DEF TruthInv
  <2>14. CoverInv'
    <3> SUFFICES ASSUME deletes = 0, NoDetection PROVE CoverInv'
      BY <2>1, <2>7 DEF CoverInv
    <3>1. /\ EncryptedRows' = EncryptedRows
          /\ \A r : PageOf(r)' = PageOf(r)
          /\ \A r : Accounted(r) => Accounted(r)'
          /\ EndSeen => EndSeen'
      BY <2>1, Persistence
    <3>2. ASSUME NEW h \in DOMAIN task PROVE TaskCovers(h)'
      <4>1. CASE h # g
        BY <4>1, <1>1, <2>1, <2>4, TaskPersists DEF CoverInv
      <4>2. CASE h = g
        BY <4>2, <2>2, <2>4 DEF TaskCovers
      <4> QED BY <4>1, <4>2
    <3> QED BY <1>1, <2>1, <2>4, <3>1, <3>2 DEF CoverInv
  <2>15. CleanVerdict'
    BY <2>1 DEF CleanVerdict, ReportedClean
  <2> QED BY <2>1, <2>10, <2>11, <2>12, <2>13, <2>14, <2>15, EntropyOnlyAtEnd
<1> QED BY <1>4, <1>5, <1>6, <1>7 DEF Queries, Query, AfterQuery

(* A goroutine whose query failed ends the process.                        *)
LEMMA ExitStep ==
  ASSUME IInv, NEW g \in DOMAIN task, Exit(g)
  PROVE  IInv'
<1> USE DEF IInv
<1>1. /\ main' = "exited" /\ main # "ended" /\ main # "connect"
      /\ UNCHANGED <<program, engine, thread, table, sameDay, round, done, noDetected, printed, detected, task,
                     window, lost, falseEnd, faults, deletes>>
  BY DEF Exit, Alive, startVars, historyVars
<1>2. TypeInv' /\ RoundInv'
  BY <1>1 DEF TypeInv, RoundInv, Running
<1>3. PrintedInv'
  BY <1>1 DEF PrintedInv, Running, NoDetection
<1>4. TruthInv'
  BY <1>1, TruthPersists DEF TruthInv, Running, NoDetection
<1>5. CoverInv' /\ CleanVerdict'
  BY <1>1 DEF CoverInv, CleanVerdict, ReportedClean, Running
<1> QED BY <1>1, <1>2, <1>3, <1>4, <1>5, EntropyOnlyAtEnd

(* The messages a request leads to: none is "no data", those that say "found"*)
(* are true, and a page left without a verdict is entered in lost.         *)
LEMMA PostResult ==
  ASSUME IInv, NEW g \in DOMAIN task, task[g].state = "post", Running,
         NEW out \in Seq(Message),
         task' = [task EXCEPT ![g].state = "send", ![g].out = out],
         lost \subseteq lost', faults' \in 0..MaxFaults,
         UNCHANGED <<startVars, table, sameDay, loopVars, window, falseEnd, deletes>>,
         deletes = 0 => \A i \in DOMAIN out :
             out[i].kind # "no data" /\ (out[i].kind = "found" => Truthful(out[i])),
         deletes = 0 /\ NoDetection =>
                        \/ task[g].page \in lost'
                        \/ out # <<>> /\ Head(out).kind = "found"
                        \/ \A r \in EncryptedRows : PageOf(r) # task[g].page
  PROVE  IInv'
<1> USE DEF IInv
<1> DEFINE p == task[g].page
<1>1. /\ UNCHANGED <<program, engine, thread, table, sameDay, main, round, done, noDetected, printed,
                     detected, window, falseEnd, deletes>>
      /\ main # "ended"
      /\ p \in Nat
  BY TaskTypes DEF startVars, loopVars, Running
<1> DEFINE entry == [task[g] EXCEPT !.state = "send", !.out = out]
<1>2. entry \in Task /\ entry.page = p /\ entry.state = "send" /\ entry.out = out
  BY TaskTypes DEF Task
<1>3. task' = [task EXCEPT ![g] = entry]
  OBVIOUS
<1> HIDE DEF entry
<1>4. /\ task' \in Seq(Task) /\ DOMAIN task' = DOMAIN task
      /\ task'[g] = entry
      /\ \A h \in DOMAIN task : h # g => task'[h] = task[h]
  BY <1>2, <1>3, UpdateTask
<1>5. TypeInv'
  BY <1>1, <1>4 DEF TypeInv
<1>6. RoundInv' /\ PrintedInv'
  <2>1. \A h \in DOMAIN task : task'[h].page = task[h].page
    BY <1>2, <1>4
  <2>2. PrintedInv'
    BY <1>1, <1>4, PrintedPersists
  <2> QED BY <1>1, <1>4, <2>1, <2>2 DEF RoundInv, Running
<1>7. TruthInv'
  <2> SUFFICES ASSUME deletes = 0 PROVE TruthInv'
    BY <1>1 DEF TruthInv
  <2>1. NoDetection' \/ Truthful(detected)'
    BY TruthPersists, <1>1 DEF TruthInv, NoDetection
  <2>2. ASSUME NEW h \in DOMAIN task
        PROVE  TaskTruth(h)'
    <3>0. TaskTruth(h)
      BY DEF TruthInv
    <3>1. CASE h # g
      BY <3>0, <3>1, <1>1, <1>4, TruthPersists
    <3>2. CASE h = g
      <4>1. task'[h].state = "send" /\ task'[h].out = out
        BY <3>2, <1>2, <1>4
      <4>2. \A i \in DOMAIN out : out[i].kind = "found" => Truthful(out[i])
        OBVIOUS
      <4> QED BY <4>1, <4>2, <1>1 DEF TaskTruth, Truthful
    <3> QED BY <3>1, <3>2
  <2> QED BY <2>1, <2>2, <1>1, <1>4 DEF TruthInv, Running
<1>8. CoverInv'
  <2> SUFFICES ASSUME deletes = 0 PROVE CoverInv'
    BY <1>1 DEF CoverInv
  <2>1. /\ EncryptedRows' = EncryptedRows
        /\ \A r : PageOf(r)' = PageOf(r)
        /\ \A r : Accounted(r) => Accounted(r)'
        /\ EndSeen => EndSeen'
    BY <1>1, Persistence
  <2>2. ASSUME NoDetection, NEW h \in DOMAIN task
        PROVE  TaskCovers(h)'
    <3>0. \A k \in DOMAIN task : TaskCovers(k)
      BY <2>2 DEF CoverInv
    <3>1. CASE h # g
      BY <3>0, <3>1, <1>4, <1>1, TaskPersists
    <3>2. CASE h = g
      <4>1. task'[h].state = "send" /\ task'[h].out = out /\ task'[h].page = p
        BY <3>2, <1>2, <1>4
      <4> QED BY <4>1, <2>1, <2>2 DEF TaskCovers
    <3> QED BY <3>1, <3>2
  <2>4. ASSUME NEW r \in EncryptedRows, NoDetection, PageOf(r) < round * thread
        PROVE  Accounted(r)'
    BY <2>4, <2>1 DEF CoverInv, Running
  <2>5. ASSUME NoDetection, done PROVE EndSeen'
    BY <2>5, <2>1 DEF CoverInv
  <2> QED BY <1>1, <1>4, <2>1, <2>2, <2>4, <2>5 DEF CoverInv, Running, NoDetection
<1>9. CleanVerdict'
  BY <1>1 DEF CleanVerdict, ReportedClean
<1> QED BY <1>1, <1>5, <1>6, <1>7, <1>8, <1>9, EntropyOnlyAtEnd

(* The encrypted ones of the rows sent.                                    *)
Hits(rows) == {r \in rows : r \in DOMAIN table /\ Encrypted(table[r])}

(* What comes of activeio's answer.                                        *)
LEMMA ActiveIOVerdict ==
  ASSUME TypeInv, engine = 0, NEW rows, NEW v \in ActiveIOVerdicts(rows)
  PROVE  \/ Hits(rows) = {} /\ v = Msg("clean")
         \/ Hits(rows) # {} /\ v = Msg("garbled")
         \/ Hits(rows) # {} /\ v \in Message /\ v.kind = "found" /\ Truthful(v)
<1>1. CASE Hits(rows) = {}
  BY <1>1 DEF ActiveIOVerdicts, Hits
<1>2. CASE Hits(rows) # {}
  <2>1. PICK r \in Hits(rows) : v = IF table[r] = "enc::" THEN Msg("garbled") ELSE Found(table[r], 0)
    BY <1>2 DEF ActiveIOVerdicts, Hits
  <2>2. r \in DOMAIN table /\ Encrypted(table[r]) /\ table[r] \in Contents /\ table[r] \in Range(table)
    BY DEF Hits, TypeInv, Range
  <2>3. CASE v = Found(table[r], 0)
    <3>1. v \in Message
      BY <2>2, <2>3, MessageTypes
    <3>2. v.kind = "found" /\ v.text = table[r]
      BY <2>3 DEF Found
    <3> QED BY <1>2, <2>2, <3>1, <3>2 DEF Truthful, TruthIn
  <2> QED BY <2>1, <2>3, <1>2
<1> QED BY <1>1, <1>2

(* What comes of river's answer: the row number main computes is that of the*)
(* first encrypted row, as the rows sent begin with the page's first.      *)
LEMMA RiverVerdict ==
  ASSUME TypeInv, engine = 1, NEW rows \in SUBSET Nat, NEW p \in Nat, NEW v \in RiverVerdicts(rows, p)
  PROVE  \/ Hits(rows) = {} /\ v = Msg("clean")
         \/ /\ Hits(rows) # {} /\ v \in Message /\ v.kind = "found"
            /\ rows \subseteq PageRows(p) /\ p * Size + 1 \in rows => Truthful(v)
<1>1. CASE Hits(rows) = {}
  BY <1>1 DEF RiverVerdicts, Hits
<1>2. CASE Hits(rows) # {}
  <2> DEFINE first == Min(rows)
             hit == Min(Hits(rows))
             number == 1 + p * Size + (hit - first)
  <2>1. v = Found("", number)
    BY <1>2 DEF RiverVerdicts, Hits
  <2>2. Hits(rows) \subseteq rows /\ Hits(rows) \subseteq Nat
    BY DEF Hits
  <2>3. hit \in Hits(rows) /\ first \in rows /\ \A r \in rows : first <= r
    BY <1>2, <2>2, MinOfSet
  <2>4. p * Size \in Nat
    BY ConstantTypes
  <2> HIDE DEF hit, first
  <2>5. number \in Nat
    BY <2>2, <2>3, <2>4
  <2>6. v \in Message
    BY <2>1, <2>5, MessageTypes
  <2>7. v.kind = "found" /\ v.number = number
    BY <2>1 DEF Found
  <2>8. ASSUME rows \subseteq PageRows(p), p * Size + 1 \in rows
        PROVE  Truthful(v)
    <3>1. \A r \in rows : p * Size + 1 <= r
      BY <2>8, <2>4 DEF PageRows
    <3>2. first = p * Size + 1
      BY <2>3, <2>8, <3>1, <2>4
    <3>3. number = hit
      BY <3>2, <2>2, <2>3, <2>4
    <3>4. hit \in DOMAIN table /\ Encrypted(table[hit])
      BY <2>3 DEF Hits
    <3> HIDE DEF number
    <3> QED BY <2>7, <3>3, <3>4 DEF Truthful, TruthIn
  <2> QED BY <1>2, <2>6, <2>7, <2>8
<1> QED BY <1>1, <1>2

(* The requests, in all their outcomes.                                    *)
LEMMA PostStep ==
  ASSUME IInv, NEW g \in DOMAIN task, Posts(g)
  PROVE  IInv'
<1> USE DEF IInv
<1> DEFINE p == task[g].page
           rows == task[g].rows
<1>1. PICK verdicts : /\ Post(g, verdicts)
                      /\ \/ engine = 0 /\ verdicts = ActiveIOVerdicts(rows)
                         \/ engine = 1 /\ verdicts = RiverVerdicts(rows, p)
  BY DEF Posts
<1>2. /\ task[g].state = "post" /\ Running
      /\ UNCHANGED <<startVars, table, sameDay, loopVars, window, falseEnd, deletes>>
      /\ p \in Nat /\ rows \in SUBSET Nat
  BY <1>1, TaskTypes DEF Post, Running, Alive
<1>3. /\ NoFault => faults' \in 0..MaxFaults
      /\ Fault => faults' \in 0..MaxFaults
  BY ConstantTypes DEF NoFault, Fault, TypeInv
<1>4. ASSUME NoFault, NEW v \in verdicts,
             task' = [task EXCEPT ![g].state = "send", ![g].out = <<v>>],
             lost' = IF v = Msg("garbled") THEN lost \cup {p} ELSE lost
      PROVE  IInv'
  <2>1. deletes = 0 => rows \subseteq PageRows(p) /\ p * Size + 1 \in rows
    <3>1. deletes = 0 => TaskTruth(g)
      BY <1>2 DEF TruthInv
    <3> QED BY <3>1, <1>2 DEF TaskTruth
  <2>2. \/ Hits(rows) = {} /\ v = Msg("clean")
        \/ Hits(rows) # {} /\ v = Msg("garbled")
        \/ Hits(rows) # {} /\ v \in Message /\ v.kind = "found" /\ (deletes = 0 => Truthful(v))
    <3>1. CASE engine = 0 /\ verdicts = ActiveIOVerdicts(rows)
      BY <3>1, <1>4, ActiveIOVerdict
    <3>2. CASE engine = 1 /\ verdicts = RiverVerdicts(rows, p)
      BY <3>2, <1>2, <1>4, <2>1, RiverVerdict
    <3> QED BY <1>1, <3>1, <3>2
  <2>3. v \in Message /\ v.kind # "no data"
    BY <2>2, MessageTypes
  <2>4. <<v>> \in Seq(Message) /\ DOMAIN <<v>> = {1} /\ <<v>>[1] = v /\ Head(<<v>>) = v /\ <<v>> # <<>>
    BY <2>3, OneMessage
  <2>5. deletes = 0 /\ v.kind = "found" => Truthful(v)
    BY <2>2, MessageTypes
  <2>6. deletes = 0 /\ NoDetection =>
            p \in lost' \/ v.kind = "found" \/ \A r \in EncryptedRows : PageOf(r) # p
    <3> SUFFICES ASSUME deletes = 0, NoDetection, Hits(rows) = {}, p \notin lost
                 PROVE  \A r \in EncryptedRows : PageOf(r) # p
      BY <1>4, <2>2
    <3>1. TaskCovers(g)
      BY <1>2 DEF CoverInv
    <3>2. rows = PageRows(p)
      BY <3>1, <1>2 DEF TaskCovers
    <3>3. PageRows(p) = {r \in DOMAIN table : PageOf(r) = p}
      BY <1>2, RowsOfPages
    <3> QED BY <3>2, <3>3 DEF EncryptedRows, Hits
  <2> QED BY <1>2, <1>3, <1>4, <2>3, <2>4, <2>5, <2>6, PostResult
<1>5. ASSUME Fault, NEW out \in {<<Msg("error")>>, <<>>, <<Msg("error"), Msg("error")>>,
                                 <<Msg("error"), Msg("garbled")>>},
             task' = [task EXCEPT ![g].state = "send", ![g].out = out],
             lost' = lost \cup {p}
      PROVE  IInv'
  <2>1. Msg("error") \in Message /\ Msg("garbled") \in Message
    BY MessageTypes
  <2>2. out \in Seq(Message) /\ \A i \in DOMAIN out : out[i] \in {Msg("error"), Msg("garbled")}
    <3>1. ASSUME NEW a \in Message, NEW b \in Message
          PROVE  /\ <<a>> \in Seq(Message) /\ \A i \in DOMAIN <<a>> : <<a>>[i] \in {a, b}
                 /\ <<a, b>> \in Seq(Message) /\ \A i \in DOMAIN <<a, b>> : <<a, b>>[i] \in {a, b}
      OBVIOUS
    <3>2. <<>> \in Seq(Message) /\ DOMAIN <<>> = {}
      OBVIOUS
    <3>3. CASE out = <<>>
      BY <3>2, <3>3
    <3>4. CASE out = <<Msg("error")>>
      BY <2>1, <3>1, <3>4
    <3>5. CASE out = <<Msg("error"), Msg("error")>>
      BY <2>1, <3>1, <3>5
    <3>6. CASE out = <<Msg("error"), Msg("garbled")>>
      BY <2>1, <3>1, <3>6
    <3> QED BY <1>5, <3>3, <3>4, <3>5, <3>6
  <2>3. \A i \in DOMAIN out : out[i].kind # "no data" /\ out[i].kind # "found"
    BY <2>2, MessageTypes
  <2> QED BY <1>2, <1>3, <1>5, <2>2, <2>3, PostResult
<1> QED BY <1>1, <1>4, <1>5 DEF Post

(* What is left of a goroutine's messages when main has received one.      *)
LEMMA TailFacts ==
  ASSUME NEW out \in Seq(Message), out # <<>>
  PROVE  /\ Tail(out) \in Seq(Message)
         /\ Head(out) \in Message /\ 1 \in DOMAIN out /\ Head(out) = out[1]
         /\ \A i \in DOMAIN Tail(out) : i + 1 \in DOMAIN out /\ Tail(out)[i] = out[i + 1]
<1>1. Tail(out) \in Seq(Message) /\ Len(Tail(out)) = Len(out) - 1
  BY HeadTailProperties
<1>2. Len(out) \in Nat /\ Len(out) # 0 /\ DOMAIN out = 1..Len(out)
  BY EmptySeq
<1>3. DOMAIN Tail(out) = 1..(Len(out) - 1)
  BY <1>1
<1>4. \A i \in 1..(Len(out) - 1) : Tail(out)[i] = out[i + 1]
  BY <1>1, <1>2
<1>5. Head(out) = out[1] /\ 1 \in DOMAIN out /\ out[1] \in Message
  BY <1>2
<1> QED BY <1>1, <1>2, <1>3, <1>4, <1>5

(* Main receives a message.                                                *)
LEMMA ReceiveStep ==
  ASSUME IInv, NEW g \in DOMAIN task, Receive(g)
  PROVE  IInv'
<1> USE DEF IInv
<1> DEFINE out == task[g].out
           msg == Head(out)
<1>1. /\ main = "draining" /\ Running
      /\ task[g].state = "send" /\ out # <<>> /\ out \in Seq(Message)
      /\ task' = [task EXCEPT ![g].out = Tail(@)]
      /\ UNCHANGED <<program, engine, thread, table, sameDay, round, window, lost, falseEnd, faults, deletes>>
  BY TaskTypes DEF Receive, Running, startVars, historyVars
<1>2. NoDetection /\ noDetected = TRUE
  <2>1. NoDetection /\ noDetected
    BY <1>1 DEF PrintedInv
  <2>2. noDetected \in BOOLEAN
    BY DEF TypeInv
  <2> QED BY <2>1, <2>2
<1>3. /\ Tail(out) \in Seq(Message) /\ msg \in Message
      /\ 1 \in DOMAIN out /\ msg = out[1]
      /\ \A i \in DOMAIN Tail(out) : i + 1 \in DOMAIN out /\ Tail(out)[i] = out[i + 1]
  BY <1>1, TailFacts
<1>4. \/ /\ msg.kind = "no data" /\ done' = TRUE
         /\ UNCHANGED <<main, printed, detected, noDetected>>
      \/ /\ msg.kind \in {"error", "clean", "garbled"}
         /\ UNCHANGED <<main, done, printed, detected, noDetected>>
      \/ /\ msg.kind = "found"
         /\ printed' = Append(printed, 1) /\ detected' = msg /\ done' = TRUE
         /\ noDetected' = (engine = 1) /\ main' = "closing"
  <2>1. msg.kind \in {"no data", "error", "clean", "garbled", "found"}
    BY <1>3 DEF Message
  <2>2. CASE msg.kind = "no data"
    BY <2>2 DEF Receive
  <2>3. CASE msg.kind \in {"error", "clean", "garbled"}
    BY <2>3 DEF Receive
  <2>4. CASE msg.kind = "found"
    <3>1. /\ printed' = Append(printed, 1) /\ detected' = msg
          /\ done' = TRUE /\ noDetected' = (noDetected /\ engine = 1) /\ main' = "closing"
      BY <2>4 DEF Receive
    <3>3. noDetected' = (engine = 1)
      BY <3>1, <1>2
    <3> QED BY <2>4, <3>1, <3>3
  <2> QED BY <2>1, <2>2, <2>3, <2>4
<1> DEFINE entry == [task[g] EXCEPT !.out = Tail(out)]
<1>5. /\ entry \in Task /\ entry.page = task[g].page /\ entry.state = "send" /\ entry.out = Tail(out)
  BY <1>1, <1>3, TaskTypes DEF Task
<1>6. task' = [task EXCEPT ![g] = entry]
  BY <1>1
<1> HIDE DEF entry, msg
<1>7. /\ task' \in Seq(Task) /\ DOMAIN task' = DOMAIN task
      /\ task'[g] = entry
      /\ \A h \in DOMAIN task : h # g => task'[h] = task[h]
  BY <1>5, <1>6, UpdateTask
<1>8. thread \in Nat /\ thread > 0
  <2>1. g \in 1..thread /\ thread \in Nat
    BY <1>1, ConstantTypes DEF RoundInv, TypeInv
  <2> QED BY <2>1
<1>9. Running' /\ main' # "connect" /\ main' # "ended" /\ main' # "exited"
  BY <1>1, <1>4 DEF Running
<1>20. /\ Append(printed, 1) \in Seq(0..2)
       /\ Range(Append(printed, 1)) = Range(printed) \cup {1}
       /\ printed # <<>> => Append(printed, 1)[1] = printed[1] /\ printed[1] \in Range(printed)
       /\ printed = <<>> => Append(printed, 1) = <<1>>
       /\ Single(Append(printed, 1))
  <2>1. printed \in Seq(0..2) /\ 1 \in 0..2
    BY DEF TypeInv
  <2> QED BY <1>2, <2>1, AppendLine DEF PrintedInv, NoDetection
<1>21. NoDetection' <=> msg.kind # "found"
  BY <1>2, <1>4, <1>20 DEF NoDetection
<1>10. TypeInv'
  <2>1. done' \in BOOLEAN
    BY <1>4 DEF TypeInv
  <2>2. noDetected' \in BOOLEAN
    BY <1>4 DEF TypeInv
  <2>3. printed' \in Seq(0..2)
    BY <1>4, <1>20 DEF TypeInv
  <2>4. detected' \in Message
    BY <1>3, <1>4 DEF TypeInv
  <2>5. main' \in {"connect", "draining", "closing", "returning", "ended", "exited"}
    BY <1>9 DEF Running
  <2> QED BY <1>1, <1>7, <2>1, <2>2, <2>3, <2>4, <2>5 DEF TypeInv
<1>11. RoundInv'
  <2>1. \A h \in DOMAIN task : task'[h].page = task[h].page
    BY <1>5, <1>7
  <2>2. main' # "returning"
    BY <1>1, <1>4, <1>9 DEF Running
  <2> QED BY <1>1, <1>7, <1>8, <1>9, <2>1, <2>2 DEF RoundInv
<1>12. PrintedInv'
  <2>1. CASE msg.kind = "found"
    <3>1. /\ printed' = Append(printed, 1) /\ done' = TRUE /\ noDetected' = (engine' = 1)
          /\ main' = "closing" /\ ~NoDetection'
      BY <2>1, <1>1, <1>4, <1>21
    <3>2. 0 \notin Range(printed')
      BY <3>1, <1>1, <1>20 DEF PrintedInv
    <3>3. printed'[1] # 0
      <4>1. <<1>>[1] = 1
        OBVIOUS
      <4> QED BY <3>1, <1>1, <1>20, <4>1 DEF PrintedInv
    <3> QED BY <3>1, <3>2, <3>3, <1>1, <1>20 DEF PrintedInv, Running
  <2>2. CASE msg.kind # "found"
    <3>1. UNCHANGED <<main, printed, noDetected>> /\ NoDetection'
      BY <2>2, <1>4, <1>21
    <3>2. printed # <<>> => \E h \in DOMAIN task' : task'[h].state = "exit"
      <4>1. printed # <<>> => \E h \in DOMAIN task : task[h].state = "exit"
        BY <1>1 DEF PrintedInv
      <4> QED BY <4>1, <1>1, <1>7
    <3> QED BY <3>1, <3>2, <1>1, <1>2 DEF PrintedInv, Running
  <2> QED BY <2>1, <2>2
<1>13. TruthInv'
  <2> SUFFICES ASSUME deletes = 0 PROVE TruthInv'
    BY <1>1 DEF TruthInv
  <2>1. \A h \in DOMAIN task : TaskTruth(h)
    BY <1>1 DEF TruthInv
  <2>2. NoDetection' \/ Truthful(detected)'
    <3>1. CASE msg.kind = "found"
      BY <3>1, <2>1, <1>1, <1>3, <1>4 DEF TaskTruth, Truthful
    <3>2. CASE msg.kind # "found"
      BY <3>2, <1>21
    <3> QED BY <3>1, <3>2
  <2>3. ASSUME NEW h \in DOMAIN task PROVE TaskTruth(h)'
    <3>1. CASE h # g
      BY <3>1, <2>1, <1>1, <1>7, TruthPersists
    <3>2. CASE h = g
      <4>1. task'[h].state = "send" /\ task'[h].out = Tail(out)
        BY <3>2, <1>5, <1>7
      <4>2. \A i \in DOMAIN Tail(out) : Tail(out)[i].kind = "found" => Truthful(Tail(out)[i])
        BY <1>3, <2>1 DEF TaskTruth
      <4> QED BY <4>1, <4>2, <1>1 DEF TaskTruth, Truthful
    <3> QED BY <3>1, <3>2
  <2> QED BY <2>2, <2>3, <1>1, <1>7 DEF TruthInv
<1>14. CoverInv'
  <2> SUFFICES ASSUME deletes = 0, NoDetection' PROVE CoverInv'
    BY <1>1 DEF CoverInv
  <2>0. msg.kind # "found" /\ main' = main
    BY <1>4, <1>21
  <2>1. /\ EncryptedRows' = EncryptedRows
        /\ \A r : PageOf(r)' = PageOf(r)
        /\ \A r : Accounted(r) => Accounted(r)'
        /\ EndSeen => EndSeen'
    BY <1>1, Persistence
  <2>2. \A h \in DOMAIN task : TaskCovers(h)
    BY <1>1, <1>2 DEF CoverInv
  <2>3. ASSUME NEW h \in DOMAIN task PROVE TaskCovers(h)'
    <3>1. CASE h # g
      BY <2>2, <3>1, <1>1, <1>7, TaskPersists
    <3>2. CASE h = g
      <4>1. task'[h].state = "send" /\ task'[h].out = Tail(out) /\ task'[h].page = task[h].page
        BY <3>2, <1>5, <1>7
      <4>2. \A r \in EncryptedRows : PageOf(r) = task[h].page => task[h].page \in lost
        BY <3>2, <2>0, <2>2, <1>1 DEF TaskCovers, msg
      <4>3. \A i \in DOMAIN Tail(out) : Tail(out)[i].kind = "no data" => EndSeen
        BY <1>1, <1>3, <2>2 DEF TaskCovers
      <4>4. ASSUME NEW r \in EncryptedRows', PageOf(r)' = task'[h].page PROVE task'[h].page \in lost'
        BY <4>1, <4>2, <4>4, <2>1, <1>1
      <4>5. \A i \in DOMAIN task'[h].out : task'[h].out[i].kind = "no data" => EndSeen'
        BY <4>1, <4>3, <2>1
      <4> QED BY <4>1, <4>4, <4>5 DEF TaskCovers
    <3> QED BY <3>1, <3>2
  <2>4. done' => EndSeen'
    <3>1. CASE msg.kind = "no data"
      <4>1. EndSeen
        BY <3>1, <1>1, <1>3, <2>2 DEF TaskCovers
      <4> QED BY <4>1, <2>1
    <3>2. CASE msg.kind # "no data"
      <4>1. done' = done
        BY <3>2, <2>0, <1>4
      <4> QED BY <4>1, <1>1, <1>2, <2>1 DEF CoverInv
    <3> QED BY <3>1, <3>2
  <2>5. ASSUME NEW r \in EncryptedRows, PageOf(r) < round * thread
        PROVE  Accounted(r)'
    BY <2>5, <1>1, <1>2, <2>1 DEF CoverInv
  <2> QED BY <1>1, <1>7, <2>0, <2>1, <2>3, <2>4, <2>5 DEF CoverInv
<1>15. CleanVerdict'
  BY <1>9 DEF CleanVerdict, ReportedClean
<1> QED BY <1>1, <1>10, <1>11, <1>12, <1>13, <1>14, <1>15, EntropyOnlyAtEnd

(* The channel is closed.                                                  *)
LEMMA RoundEndsStep ==
  ASSUME IInv, RoundEnds
  PROVE  IInv'
<1> USE DEF IInv
<1>1. /\ main = "draining" /\ main' = "closing" /\ AllReturned
      /\ UNCHANGED <<program, engine, thread, table, sameDay, round, done, noDetected, task, printed, detected,
                     window, lost, falseEnd, faults, deletes>>
  BY DEF RoundEnds, startVars, historyVars
<1>2. TypeInv'
  BY <1>1 DEF TypeInv
<1>3. RoundInv' /\ PrintedInv'
  <2>1. printed = <<>>
    BY <1>1 DEF PrintedInv, AllReturned
  <2>2. NoDetection' /\ AllReturned'
    BY <1>1, <2>1 DEF NoDetection, AllReturned, Range
  <2> QED BY <1>1, <2>1, <2>2 DEF RoundInv, PrintedInv, Running
<1>4. TruthInv'
  BY <1>1, TruthPersists DEF TruthInv, Running, NoDetection
<1>5. CoverInv'
  <2> SUFFICES ASSUME deletes = 0, NoDetection PROVE CoverInv'
    BY <1>1 DEF CoverInv, NoDetection
  <2>1. /\ EncryptedRows' = EncryptedRows
        /\ \A r : PageOf(r)' = PageOf(r)
        /\ \A r : Accounted(r) => Accounted(r)'
        /\ EndSeen => EndSeen'
    BY <1>1, Persistence
  <2>2. \A h \in DOMAIN task : TaskCovers(h)'
    BY <1>1, TaskPersists DEF CoverInv, Running
  <2> QED BY <1>1, <2>1, <2>2 DEF CoverInv, Running, NoDetection
<1>6. CleanVerdict'
  BY <1>1 DEF CleanVerdict, ReportedClean
<1> QED BY <1>1, <1>2, <1>3, <1>4, <1>5, <1>6, EntropyOnlyAtEnd

(* The pages of a round are those of its goroutines.                       *)
LEMMA CurrentRound ==
  ASSUME IInv, Running, NEW r \in DOMAIN table, round * thread <= PageOf(r), PageOf(r) < (round + 1) * thread
  PROVE  \E g \in DOMAIN task : task[g].page = PageOf(r)
<1> USE DEF IInv
<1>1. /\ thread \in Nat /\ round \in Nat
      /\ DOMAIN task = 1..thread
      /\ \A g \in DOMAIN task : task[g].page = round * thread + g - 1
  BY ConstantTypes DEF RoundInv, TypeInv
<1>2. 0 \in Nat /\ PageOf(r) \in Nat
  BY RowsOfPages
<1>3. (round + 1) * thread = round * thread + thread /\ round * thread \in Int
  BY <1>1, Products
<1> DEFINE g == PageOf(r) - round * thread + 1
<1>4. g \in 1..thread /\ round * thread + g - 1 = PageOf(r)
  BY <1>1, <1>2, <1>3
<1> HIDE DEF g
<1> QED BY <1>1, <1>4

(* When a round has ended without a detection, every encrypted row up to its*)
(* last page is accounted for.                                             *)
LEMMA ReturnedRound ==
  ASSUME IInv, main \in {"closing", "returning"}, NoDetection, deletes = 0,
         NEW r \in EncryptedRows, PageOf(r) < (round + 1) * thread
  PROVE  Accounted(r)
<1> USE DEF IInv
<1>1. r \in DOMAIN table
  BY DEF EncryptedRows
<1>2. PageOf(r) \in Nat /\ round * thread \in Int
  <2>1. 0 \in Nat /\ thread \in Nat /\ round \in Nat
    BY ConstantTypes DEF TypeInv
  <2> QED BY <1>1, <2>1, RowsOfPages
<1>3. CASE PageOf(r) < round * thread
  BY <1>3 DEF CoverInv, Running
<1>4. CASE round * thread <= PageOf(r)
  <2>1. PICK g \in DOMAIN task : task[g].page = PageOf(r)
    BY <1>1, <1>4, CurrentRound DEF Running
  <2>2. task[g].state = "send" /\ task[g].out = <<>>
    BY DEF PrintedInv, AllReturned
  <2>3. TaskCovers(g)
    BY DEF CoverInv, Running
  <2> QED BY <2>1, <2>2, <2>3 DEF TaskCovers, Accounted
<1> QED BY <1>2, <1>3, <1>4

(* The next round: what the last one covered is now behind it.             *)
LEMMA StartNextRoundStep ==
  ASSUME IInv, StartNextRound
  PROVE  IInv'
<1> USE DEF IInv
<1>1. /\ main = "closing" /\ ~done /\ round' = Min({round + 1, MaxRounds}) /\ NewRound(round')
      /\ UNCHANGED <<program, engine, thread, table, sameDay, noDetected, printed, detected, window,
                     lost, falseEnd, faults, deletes>>
  BY DEF StartNextRound, startVars, historyVars
<1>2. /\ round \in Nat /\ round <= MaxRounds /\ MaxRounds \in Nat
      /\ round' \in 0..MaxRounds /\ round <= round' /\ round' <= round + 1
      /\ thread \in Nat
  <2>1. round \in Nat /\ round <= MaxRounds /\ MaxRounds \in Nat /\ thread \in Nat
    BY ConstantTypes DEF TypeInv
  <2>2. round' \in {round + 1, MaxRounds} /\ round' <= round + 1 /\ round' <= MaxRounds
    BY <1>1, <2>1, MinOfTwo
  <2> QED BY <2>1, <2>2
<1>3. /\ main' = "draining" /\ ~done' /\ done' \in BOOLEAN
      /\ task' \in Seq(Task) /\ DOMAIN task' = 1..thread
      /\ \A g \in DOMAIN task' : /\ task'[g].page = round' * thread + g - 1
                                 /\ task'[g].state = "query" /\ task'[g].out = <<>>
  <2>1. round' \in Nat
    BY <1>2
  <2> QED BY <1>1, <2>1, NewRoundStarts
<1>4. printed = <<>> /\ noDetected /\ NoDetection /\ NoDetection'
  <2>1. NoDetection /\ noDetected
    BY <1>1 DEF PrintedInv, Running
  <2>2. 0 \in Range(<<0>>) /\ 1 \notin Range(<<>>)
    BY DEF Range
  <2> QED BY <1>1, <2>1, <2>2 DEF PrintedInv, NoDetection
<1>5. TypeInv'
  <2>1. falseEnd' \subseteq 0..round'
    BY <1>1, <1>2 DEF TypeInv
  <2> QED BY <1>1, <1>2, <1>3, <2>1 DEF TypeInv
<1>6. RoundInv' /\ PrintedInv'
  BY <1>1, <1>3, <1>4 DEF RoundInv, PrintedInv, Running, Range
<1>7. TruthInv'
  BY <1>1, <1>3, <1>4 DEF TruthInv, TaskTruth
<1>8. CoverInv'
  <2> SUFFICES ASSUME deletes = 0 PROVE CoverInv'
    BY <1>1 DEF CoverInv
  <2>1. EncryptedRows' = EncryptedRows /\ \A r : PageOf(r)' = PageOf(r) /\ (Accounted(r) => Accounted(r)')
    BY <1>1 DEF EncryptedRows, PageOf, Accounted
  <2>2. \A g \in DOMAIN task' : TaskCovers(g)'
    BY <1>3 DEF TaskCovers
  <2>3. ASSUME NEW r \in EncryptedRows, PageOf(r) < round' * thread
        PROVE  Accounted(r)
    <3>1. round' * thread <= (round + 1) * thread /\ round' * thread \in Int /\ (round + 1) * thread \in Int
      <4>1. CASE round' = round + 1
        BY <4>1, <1>2
      <4>2. CASE round' = round
        <5>1. (round + 1) * thread = round * thread + thread /\ round * thread \in Int
          BY <1>2, Products
        <5> QED BY <4>2, <5>1, <1>2
      <4>3. round' = round + 1 \/ round' = round
        BY <1>2
      <4> QED BY <4>1, <4>2, <4>3
    <3>2. PageOf(r) \in Nat
      <4>1. 0 \in Nat /\ r \in DOMAIN table
        BY DEF EncryptedRows
      <4> QED BY <4>1, RowsOfPages
    <3>3. PageOf(r) < (round + 1) * thread
      BY <2>3, <3>1, <3>2
    <3> QED BY <3>3, <1>1, <1>4, ReturnedRound
  <2> QED BY <1>1, <1>3, <2>1, <2>2, <2>3 DEF CoverInv, Running
<1>9. CleanVerdict'
  BY <1>3 DEF CleanVerdict, ReportedClean
<1> QED BY <1>1, <1>5, <1>6, <1>7, <1>8, <1>9, EntropyOnlyAtEnd

(* The last line.                                                          *)
LEMMA EndsStep ==
  ASSUME IInv, Ends
  PROVE  IInv'
<1> USE DEF IInv
<1>1. /\ main = "closing" /\ done /\ main' = "returning" /\ Running
      /\ UNCHANGED <<program, engine, thread, table, sameDay, round, done, noDetected, task, detected,
                     window, lost, falseEnd, faults, deletes>>
  BY DEF Ends, EndDetect, startVars, historyVars, Running
<1>2. printed \in Seq(0..2) /\ 0 \in 0..2 /\ 0 \notin Range(printed)
  BY <1>1 DEF TypeInv, PrintedInv
<1>3. /\ Append(printed, 0) \in Seq(0..2)
      /\ Range(Append(printed, 0)) = Range(printed) \cup {0}
      /\ printed # <<>> => Append(printed, 0)[1] = printed[1] /\ printed[1] \in Range(printed)
      /\ printed = <<>> => Append(printed, 0) = <<0>>
      /\ Single(Append(printed, 0))
  BY <1>2, AppendLine DEF PrintedInv
<1>4. printed \o <<>> = printed /\ printed \o <<0>> = Append(printed, 0)
  BY <1>2, ConcatEmptySeq, AppendIsConcat
<1>5. \/ program = "oracle" /\ printed' = printed
      \/ program # "oracle" /\ noDetected /\ printed' = Append(printed, 0)
      \/ program # "oracle" /\ ~noDetected /\ printed' = printed
  BY <1>4 DEF Ends, EndDetect, Zero
<1>6. NoDetection' <=> NoDetection
  <2>1. CASE printed' = printed
    BY <2>1 DEF NoDetection
  <2>2. CASE printed' = Append(printed, 0)
    <3>1. Range(printed') = Range(printed) \cup {0} /\ 1 \notin {0}
      BY <2>2, <1>3
    <3> QED BY <3>1 DEF NoDetection
  <2> QED BY <1>5, <2>1, <2>2
<1>7. NoDetection => printed = <<>> /\ noDetected
  <2>1. 0 \in Range(<<0>>)
    BY DEF Range
  <2> QED BY <1>1, <1>2, <2>1 DEF PrintedInv
<1>8. ~NoDetection => printed # <<>> /\ noDetected = (engine = 1)
  BY <1>1 DEF PrintedInv, NoDetection, Range
<1>9. TypeInv' /\ RoundInv'
  BY <1>1, <1>2, <1>3, <1>5 DEF TypeInv, RoundInv, Running
<1>10. PrintedInv'
  <2>1. printed' = printed \/ printed' = Append(printed, 0)
    BY <1>5
  <2>2. Single(printed')
    BY <2>1, <1>3 DEF PrintedInv
  <2>3. 0 \in Range(printed') =>
            printed' = <<0>> \/ (~NoDetection' /\ engine' = 1 /\ program' # "oracle")
    <3>1. CASE printed' = printed
      BY <3>1, <1>2
    <3>2. CASE program # "oracle" /\ noDetected /\ printed' = Append(printed, 0)
      <4>1. CASE NoDetection
        BY <4>1, <3>2, <1>3, <1>7
      <4>2. CASE ~NoDetection
        BY <4>2, <3>2, <1>1, <1>6, <1>8
      <4> QED BY <4>1, <4>2
    <3> QED BY <1>5, <3>1, <3>2
  <2>4. printed' # <<>> /\ printed'[1] = 0 => printed' = <<0>>
    <3>1. CASE printed' = printed
      BY <3>1 DEF PrintedInv
    <3>2. CASE printed' = Append(printed, 0)
      BY <3>2, <1>2, <1>3
    <3> QED BY <2>1, <3>1, <3>2
  <2>5. NoDetection' => AllReturned' /\ printed' \in {<<>>, <<0>>}
    <3>1. NoDetection => AllReturned
      BY <1>1 DEF PrintedInv
    <3>2. AllReturned' <=> AllReturned
      BY <1>1 DEF AllReturned
    <3> QED BY <3>1, <3>2, <1>3, <1>5, <1>6, <1>7
  <2>6. IF NoDetection' THEN noDetected'
        ELSE main' # "draining" /\ done' /\ noDetected' = (engine' = 1)
    BY <1>1, <1>6, <1>7, <1>8
  <2>7. window'.state # "read"
    BY <1>1 DEF PrintedInv
  <2> QED BY <1>1, <2>2, <2>3, <2>4, <2>5, <2>6, <2>7 DEF PrintedInv
<1>11. TruthInv'
  BY <1>1, <1>6, TruthPersists DEF TruthInv, Running
<1>12. CoverInv'
  <2> SUFFICES ASSUME deletes = 0, NoDetection PROVE CoverInv'
    BY <1>1, <1>6 DEF CoverInv
  <2>1. /\ EncryptedRows' = EncryptedRows
        /\ \A r : PageOf(r)' = PageOf(r)
        /\ \A r : Accounted(r) => Accounted(r)'
        /\ EndSeen => EndSeen'
    BY <1>1, Persistence
  <2>2. \A h \in DOMAIN task : TaskCovers(h)'
    BY <1>1, TaskPersists DEF CoverInv
  <2> QED BY <1>1, <2>1, <2>2 DEF CoverInv
<1>13. CleanVerdict'
  BY <1>1 DEF CleanVerdict, ReportedClean
<1> QED BY <1>1, <1>9, <1>10, <1>11, <1>12, <1>13, EntropyOnlyAtEnd

(* The end of main.  Here CleanVerdict is earned: a row of the pages asked *)
(* for is accounted for, and a row further on is so by the page that was   *)
(* taken for the end of the table.                                         *)
LEMMA ReturnStep ==
  ASSUME IInv, Return
  PROVE  IInv'
<1> USE DEF IInv
<1>1. /\ main = "returning" /\ main' = "ended" /\ Running
      /\ UNCHANGED <<program, engine, thread, table, sameDay, round, done, noDetected, task, printed, detected,
                     window, lost, falseEnd, faults, deletes>>
  BY DEF Return, startVars, historyVars, Running
<1>2. TypeInv' /\ RoundInv'
  BY <1>1 DEF TypeInv, RoundInv, Running
<1>3. PrintedInv'
  BY <1>1 DEF PrintedInv, Running, NoDetection
<1>4. TruthInv'
  BY <1>1, TruthPersists DEF TruthInv, Running, NoDetection
<1>5. CoverInv'
  BY <1>1 DEF CoverInv, Running
<1>6. CleanVerdict'
  <2> SUFFICES ASSUME printed = <<>> \/ printed[1] = 0, deletes = 0,
                      NEW r \in DOMAIN table, Encrypted(table[r])
               PROVE  Accounted(r)
    BY <1>1 DEF CleanVerdict, ReportedClean, Accounted, PageOf
  <2>1. NoDetection
    <3>1. 1 \notin Range(<<>>) /\ 1 \notin Range(<<0>>)
      BY DEF Range
    <3> QED BY <3>1 DEF PrintedInv, NoDetection
  <2>2. r \in EncryptedRows
    BY DEF EncryptedRows
  <2>3. /\ thread \in Nat \ {0} /\ round \in Nat /\ PageOf(r) \in Nat
        /\ falseEnd \subseteq 0..round
    <3>1. 0 \in Nat /\ PageOf(r) \in Nat
      BY RowsOfPages
    <3>2. thread \in Nat /\ thread > 0
      BY <1>1, ConstantTypes DEF TypeInv, RoundInv
    <3>3. round \in Nat /\ falseEnd \subseteq 0..round
      BY ConstantTypes DEF TypeInv
    <3> QED BY <3>1, <3>2, <3>3
  <2>4. (round + 1) * thread \in Int
    BY <2>3
  <2>5. CASE PageOf(r) < (round + 1) * thread
    BY <1>1, <2>1, <2>2, <2>5, ReturnedRound
  <2>6. CASE (round + 1) * thread <= PageOf(r)
    <3>1. PICK n \in falseEnd : TRUE
      <4>1. EndSeen
        BY <1>1, <2>1 DEF CoverInv, RoundInv
      <4>2. ~(PageOf(r) < (round + 1) * thread)
        BY <2>3, <2>4, <2>6
      <4> QED BY <4>1, <4>2 DEF EndSeen
    <3>2. n \in Nat /\ n < round + 1
      BY <2>3
    <3>3. n * thread + thread <= (round + 1) * thread /\ n * thread \in Int
      BY <2>3, <3>2, Products
    <3>4. n * thread <= PageOf(r)
      BY <2>3, <2>4, <2>6, <3>3
    <3>5. n <= PageOf(r) \div thread
      BY <2>3, <3>2, <3>4, DivisionUnique
    <3> QED BY <3>1, <3>5 DEF Accounted
  <2> QED BY <2>3, <2>4, <2>5, <2>6
<1>7. EntropyWindow'
  BY <1>1 DEF PrintedInv, EntropyWindow
<1> QED BY <1>2, <1>3, <1>4, <1>5, <1>6, <1>7

(* How many rows a window has when the table has all of them.              *)
LEMMA RowsInterval ==
  ASSUME TypeInv, NEW from \in Nat \ {0}, NEW to \in Nat, to <= Len(table), from <= to
  PROVE  Cardinality(Rows(from, to)) = to - from + 1
<1>1. DOMAIN table = 1..Len(table) /\ Len(table) \in Nat
  BY DEF TypeInv
<1>2. Rows(from, to) = from..to
  BY <1>1 DEF Rows
<1> QED BY <1>2, FS_Interval

(* What EntropyWindow says, of a window.                                   *)
WindowRight(w) ==
    w.state = "read" =>
        LET river == program = "oracle" /\ engine = 1
            edge  == program = "oracle" /\ ~river /\ w.point = Half - 1
        IN  /\ river \/ w.point \in w.rows
            /\ river => w.rows = Rows(1, 2 * Half)
            /\ Len(table) >= Max({2 * Half, w.point + Half}) =>
                  Cardinality(w.rows) = IF edge THEN 2 * Half - 1 ELSE 2 * Half

(* The break point is a row.                                               *)
LEMMA PointFacts ==
  ASSUME TypeInv, NEW point \in DOMAIN table
  PROVE  /\ point \in Nat \ {0} /\ point <= Len(table) /\ Len(table) \in Nat
         /\ point >= 1 /\ Half \in Nat /\ Half >= 2
         /\ Len(table) >= Max({2 * Half, point + Half}) =>
               Len(table) >= 2 * Half /\ Len(table) >= point + Half
<1>1. DOMAIN table = 1..Len(table) /\ Len(table) \in Nat /\ point >= 1
  BY DEF TypeInv
<1>2. Half \in Nat /\ Half >= 2 /\ 2 * Half \in Int /\ point + Half \in Int
  BY <1>1, ConstantTypes
<1>3. /\ Max({2 * Half, point + Half}) >= 2 * Half
      /\ Max({2 * Half, point + Half}) >= point + Half
      /\ Max({2 * Half, point + Half}) \in Int
  BY <1>2, MaxOfTwo
<1>4. Half >= 2 /\ Half \in Nat
  BY <1>2
<1> DEFINE max == Max({2 * Half, point + Half})
<1> HIDE DEF max
<1>5. Len(table) >= max => Len(table) >= 2 * Half /\ Len(table) >= point + Half
  BY <1>1, <1>2, <1>3 DEF max
<1>6. point \in Nat \ {0} /\ point <= Len(table)
  BY <1>1
<1> QED BY <1>1, <1>4, <1>5, <1>6 DEF max

(* The window of mysql and mssql.                                          *)
LEMMA OffsetWindowRight ==
  ASSUME TypeInv, program # "oracle", NEW point \in DOMAIN table
  PROVE  WindowRight(OffsetWindow(point))
<1>1. /\ point \in Nat \ {0} /\ point <= Len(table) /\ Len(table) \in Nat
      /\ point >= 1 /\ Half \in Nat /\ Half >= 2
      /\ Len(table) >= Max({2 * Half, point + Half}) =>
             Len(table) >= 2 * Half /\ Len(table) >= point + Half
  BY PointFacts, ConstantTypes
<1> DEFINE w == OffsetWindow(point)
<1>0. point \in Nat /\ point >= 1 /\ Half \in Nat /\ Half >= 2
  BY <1>1
<1>2. CASE point - Half < 0
  <2>1. w.point = point /\ w.rows = Rows(1, 2 * Half)
    BY <1>2 DEF OffsetWindow
  <2>2. point \in Rows(1, 2 * Half)
    BY <1>1, <1>2 DEF Rows
  <2>3. Len(table) >= 2 * Half => Cardinality(Rows(1, 2 * Half)) = 2 * Half
    <3>1. 1 \in Nat \ {0} /\ 2 * Half \in Nat /\ 1 <= 2 * Half /\ 2 * Half - 1 + 1 = 2 * Half
      BY <1>1
    <3> QED BY <3>1, <1>1, RowsInterval
  <2> HIDE DEF w
  <2> QED BY <1>1, <2>1, <2>2, <2>3 DEF WindowRight, w
<1>3. CASE point - Half >= 0
  <2> DEFINE from == point - Half + 1
             to == point - Half + 2 * Half
  <2>1. w.point = point /\ w.rows = Rows(from, to)
    BY <1>1, <1>3 DEF OffsetWindow
  <2>2. from \in Nat \ {0} /\ to \in Nat /\ from <= to /\ from <= point /\ point <= to
        /\ to - from + 1 = 2 * Half /\ to = point + Half
    <3>1. to = point + Half /\ to \in Nat
      BY <1>1
    <3>2. from \in Nat \ {0} /\ from <= point
      BY <1>1, <1>3
    <3>3. from <= to /\ to - from + 1 = 2 * Half /\ point <= to
      BY <1>0
    <3> QED BY <3>1, <3>2, <3>3
  <2> HIDE DEF from, to, w
  <2>3. point \in Rows(from, to)
    BY <2>2 DEF Rows
  <2>4. Len(table) >= point + Half => Cardinality(Rows(from, to)) = 2 * Half
    BY <1>1, <2>2, RowsInterval
  <2> QED BY <1>1, <2>1, <2>3, <2>4 DEF WindowRight, w
<1> QED BY <1>1, <1>2, <1>3

(* The window of oracle with engine 0.                                     *)
LEMMA RownumWindowRight ==
  ASSUME TypeInv, program = "oracle", engine = 0, NEW point \in DOMAIN table
  PROVE  WindowRight(RownumWindow(point, point))
<1>1. /\ point \in Nat \ {0} /\ point <= Len(table) /\ Len(table) \in Nat
      /\ point >= 1 /\ Half \in Nat /\ Half >= 2
      /\ Len(table) >= Max({2 * Half, point + Half}) =>
             Len(table) >= 2 * Half /\ Len(table) >= point + Half
  BY PointFacts, ConstantTypes
<1>0. point \in Nat /\ point >= 1 /\ Half \in Nat /\ Half >= 2
  BY <1>1
<1> DEFINE w == RownumWindow(point, point)
           start == point - Half + 1
           to == point + Half
<1>2. CASE start < 0
  <2>1. w.point = point /\ w.rows = Rows(1, 2 * Half)
    BY <1>2 DEF RownumWindow
  <2>2. point \in Rows(1, 2 * Half) /\ point # Half - 1
    BY <1>1, <1>2 DEF Rows
  <2>3. Len(table) >= 2 * Half => Cardinality(Rows(1, 2 * Half)) = 2 * Half
    <3>1. 1 \in Nat \ {0} /\ 2 * Half \in Nat /\ 1 <= 2 * Half /\ 2 * Half - 1 + 1 = 2 * Half
      BY <1>1
    <3> QED BY <3>1, <1>1, RowsInterval
  <2> HIDE DEF w
  <2> QED BY <1>1, <2>1, <2>2, <2>3 DEF WindowRight, w
<1>3. CASE start = 0
  <2>1. w.point = point /\ w.rows = Rows(0, to) /\ point = Half - 1
    BY <1>1, <1>3 DEF RownumWindow
  <2>2. Rows(0, to) = Rows(1, to)
    <3>1. \A r \in DOMAIN table : r >= 1
      BY PointFacts
    <3> QED BY <3>1, PointFacts DEF Rows
  <2>3. /\ 1 \in Nat \ {0} /\ to \in Nat /\ 1 <= point /\ point <= to /\ 1 <= to /\ to - 1 + 1 = 2 * Half - 1
    BY <1>1, <1>3
  <2> HIDE DEF w
  <2>4. point \in Rows(0, to)
    BY <2>2, <2>3 DEF Rows
  <2>5. Len(table) >= point + Half => Cardinality(Rows(0, to)) = 2 * Half - 1
    <3> HIDE DEF to
    <3>1. to <= Len(table) => Cardinality(Rows(1, to)) = to - 1 + 1
      BY <2>3, RowsInterval
    <3> QED BY <3>1, <2>2, <2>3 DEF to
  <2> QED BY <1>1, <2>1, <2>4, <2>5 DEF WindowRight, w
<1>4. CASE start > 0
  <2>1. w.point = point /\ w.rows = Rows(start, to) /\ point # Half - 1
    BY <1>1, <1>4 DEF RownumWindow
  <2>2. /\ start \in Nat \ {0} /\ to \in Nat /\ start <= to /\ start <= point /\ point <= to
        /\ to - start + 1 = 2 * Half /\ to = point + Half
    <3>1. to \in Nat /\ point <= to
      BY <1>1
    <3>2. start \in Nat \ {0} /\ start <= point
      BY <1>1, <1>4
    <3>3. start <= to /\ to - start + 1 = 2 * Half /\ to = point + Half
      BY <1>0
    <3> QED BY <3>1, <3>2, <3>3
  <2> HIDE DEF w, start, to
  <2>3. point \in Rows(start, to)
    BY <2>2 DEF Rows
  <2>4. Len(table) >= point + Half => Cardinality(Rows(start, to)) = 2 * Half
    BY <1>1, <2>2, RowsInterval
  <2> QED BY <1>1, <2>1, <2>3, <2>4 DEF WindowRight, w
<1> QED BY <1>1, <1>2, <1>3, <1>4

(* The window of oracle with engine 1, which is always that of the first rows.*)
LEMMA RiverWindowRight ==
  ASSUME TypeInv, program = "oracle", engine = 1, NEW point \in DOMAIN table
  PROVE  WindowRight(RownumWindow(point, 0))
<1>1. /\ Len(table) \in Nat
      /\ point >= 1 /\ Half \in Nat /\ Half >= 2
      /\ Len(table) >= Max({2 * Half, point + Half}) => Len(table) >= 2 * Half
  BY PointFacts, ConstantTypes
<1> DEFINE w == RownumWindow(point, 0)
<1>2. w.point = point /\ w.rows = Rows(1, 2 * Half)
  BY <1>1 DEF RownumWindow
<1>3. Len(table) >= 2 * Half => Cardinality(Rows(1, 2 * Half)) = 2 * Half
  <2>1. 1 \in Nat \ {0} /\ 2 * Half \in Nat /\ 1 <= 2 * Half /\ 2 * Half - 1 + 1 = 2 * Half
    BY <1>1
  <2> QED BY <2>1, <1>1, RowsInterval
<1> HIDE DEF w
<1> QED BY <1>1, <1>2, <1>3 DEF WindowRight, w

(* -entropy reads a window.                                                *)
LEMMA EntropyStep ==
  ASSUME IInv, Entropy
  PROVE  IInv'
<1> USE DEF IInv
<1>1. /\ main = "ended"
      /\ UNCHANGED <<program, engine, thread, table, sameDay, main, round, done, noDetected, task, printed,
                     detected, lost, falseEnd, faults, deletes>>
  BY DEF Entropy, startVars, loopVars, historyVars
<1>2. program \in {"mysql", "oracle", "mssql"} /\ engine \in {0, 1}
  BY DbDetectAssumption DEF TypeInv
<1>3. WindowRight(Panic) /\ WindowRight(Missing)
  BY DEF WindowRight, Panic, Missing, NoWindow
<1>4. FoundRow # {} => Min(FoundRow) \in DOMAIN table
  <2>1. FoundRow \subseteq DOMAIN table /\ FoundRow \subseteq Nat
    BY PointFacts DEF FoundRow
  <2> QED BY <2>1, MinOfSet
<1>5. WindowRight(window')
  <2>1. CASE program = "mysql" /\ engine = 0
    <3>1. window' = MySQLEntropy
      BY <2>1 DEF Entropy
    <3> QED BY <2>1, <3>1, <1>3, <1>4, OffsetWindowRight DEF MySQLEntropy
  <2>2. CASE program = "mysql" /\ engine = 1
    <3>1. window' = MySQLEntropyByRiver
      BY <2>2 DEF Entropy
    <3> QED BY <2>2, <3>1, <1>3, OffsetWindowRight DEF MySQLEntropyByRiver
  <2>3. CASE program = "oracle" /\ engine = 0
    <3>1. window' = OracleEntropy
      BY <2>3 DEF Entropy
    <3> QED BY <2>3, <3>1, <1>3, <1>4, RownumWindowRight DEF OracleEntropy
  <2>4. CASE program = "oracle" /\ engine = 1
    <3>1. window' = OracleEntropyByRiver
      BY <2>4 DEF Entropy
    <3> QED BY <2>4, <3>1, <1>3, RiverWindowRight DEF OracleEntropyByRiver
  <2>5. CASE program = "mssql" /\ engine = 0
    <3>1. window' = SQLServerEntropy
      BY <2>5 DEF Entropy
    <3> QED BY <2>5, <3>1, <1>3, <1>4, OffsetWindowRight DEF SQLServerEntropy
  <2>6. CASE program = "mssql" /\ engine = 1
    <3>1. window' = SQLServerEntropyByRiver
      BY <2>6 DEF Entropy
    <3> QED BY <2>6, <3>1, <1>3, OffsetWindowRight DEF SQLServerEntropyByRiver
  <2> QED BY <1>2, <2>1, <2>2, <2>3, <2>4, <2>5, <2>6
<1>6. EntropyWindow'
  BY <1>1, <1>5 DEF EntropyWindow, WindowRight, Rows
<1>7. TypeInv' /\ RoundInv' /\ PrintedInv'
  BY <1>1, PrintedPersists DEF TypeInv, RoundInv, Running
<1>8. TruthInv'
  BY <1>1, TruthPersists DEF TruthInv, Running, NoDetection
<1>9. CoverInv'
  BY <1>1 DEF CoverInv, Running
<1>10. CleanVerdict'
  BY <1>1 DEF CleanVerdict, ReportedClean, PageOf
<1> QED BY <1>6, <1>7, <1>8, <1>9, <1>10

(* The invariant holds at the start.                                       *)
LEMMA InitEstablishes ==
  ASSUME Init
  PROVE  IInv
<1>1. TypeInv
  <2>1. Msg("clean") \in Message /\ <<>> \in Seq(Task) /\ <<>> \in Seq(0..2)
    <3>1. <<>> \in Seq(Task) /\ <<>> \in Seq(0..2)
      OBVIOUS
    <3> QED BY <3>1, MessageTypes
  <2>2. 0 \in 0..MaxRounds /\ 0 \in 0..MaxFaults /\ 0 \in 0..MaxDeletes
    BY ConstantTypes
  <2>3. noDetected \in BOOLEAN /\ done \in BOOLEAN /\ sameDay \in BOOLEAN
    BY DEF Init
  <2> QED BY <2>1, <2>2, <2>3, DbDetectAssumption DEF Init, TypeInv
<1>2. RoundInv /\ PrintedInv
  BY DEF Init, RoundInv, PrintedInv, Running, NoWindow, Single, Range
<1>3. TruthInv
  BY DEF Init, TruthInv, Running, NoDetection, Range
<1>4. CoverInv
  <2>1. ASSUME NEW r \in EncryptedRows PROVE ~(PageOf(r) < round * thread)
    <3>1. 0 \in Nat /\ r \in DOMAIN table
      BY DEF EncryptedRows
    <3>2. PageOf(r) \in Nat
      BY <1>1, <3>1, RowsOfPages
    <3>3. thread \in Nat /\ round = 0
      BY ConstantTypes DEF Init
    <3> QED BY <3>2, <3>3
  <2> QED BY <2>1 DEF Init, CoverInv, Running
<1>5. CleanVerdict /\ EntropyWindow
  BY DEF Init, CleanVerdict, ReportedClean, EntropyWindow, NoWindow
<1> QED BY <1>1, <1>2, <1>3, <1>4, <1>5 DEF IInv

(* The invariant survives a step that changes nothing.                     *)
LEMMA StutterStep ==
  ASSUME IInv, UNCHANGED vars
  PROVE  IInv'
<1> USE DEF IInv
<1>1. UNCHANGED <<program, engine, thread, table, sameDay, main, round, done, noDetected, printed, detected, task,
                  window, lost, falseEnd, faults, deletes>>
  BY DEF vars, startVars, loopVars, historyVars
<1>2. TypeInv' /\ RoundInv' /\ PrintedInv'
  BY <1>1, PrintedPersists DEF TypeInv, RoundInv, Running
<1>3. TruthInv'
  BY <1>1, TruthPersists DEF TruthInv, Running, NoDetection
<1>4. CoverInv'
  BY <1>1 DEF CoverInv, Running, NoDetection, TaskCovers, EndSeen, Accounted, EncryptedRows, Encrypted, PageOf, PageRows, AllReturned
<1>5. CleanVerdict'
  BY <1>1 DEF CleanVerdict, ReportedClean, PageOf
<1>6. EntropyWindow'
  BY <1>1 DEF EntropyWindow, Rows
<1> QED BY <1>2, <1>3, <1>4, <1>5, <1>6

(* The inductive invariant: for every table, number of threads and page size,*)
(* every interleaving of the goroutines and every fault within the bounds. *)
THEOREM Invariance == Spec => []IInv
<1>1. Init => IInv
  BY InitEstablishes
<1>2. IInv /\ [Next]_vars => IInv'
  <2> SUFFICES ASSUME IInv, [Next]_vars PROVE IInv'
    OBVIOUS
  <2>1. TypeInv
    BY DEF IInv
  <2>2. CASE \E g \in DOMAIN task : Queries(g) \/ Posts(g) \/ Exit(g) \/ Receive(g)
    BY <2>2, QueryStep, PostStep, ExitStep, ReceiveStep
  <2> QED
    BY <2>1, <2>2, NextSteps, ConnectStep, MidnightStep, DeleteRowStep, RoundEndsStep, StartNextRoundStep,
       EndsStep, ReturnStep, EntropyStep, StutterStep
<1> QED BY <1>1, <1>2, PTL DEF Spec

(* The variables keep their types.                                         *)
THEOREM TypeCorrect == Spec => []TypeOK
<1>1. IInv => TypeOK
  <2> SUFFICES ASSUME IInv PROVE TypeOK
    OBVIOUS
  <2>1. TypeInv
    BY DEF IInv
  <2>2. \A g \in DOMAIN task :
          /\ task[g].page \in Nat
          /\ task[g].state \in {"query", "post", "send", "exit"}
          /\ task[g].rows \in SUBSET Nat
          /\ task[g].out \in Seq(Message)
    BY <2>1, TaskTypes
  <2> QED BY <2>1, <2>2 DEF TypeInv, TypeOK
<1> QED BY <1>1, Invariance, PTL

(* A table is reported clean only when it is, or for one of the reasons that*)
(* show in no output (cmd/mysql.go Detect and its twins).                  *)
THEOREM CleanVerdictHolds == Spec => []CleanVerdict
<1>1. IInv => CleanVerdict
  BY DEF IInv
<1> QED BY <1>1, Invariance, PTL

(* DetectionTrue: what main prints with its 1 is an encrypted row, or its  *)
(* number, there is one detection and one clean verdict at most, and a     *)
(* clean verdict without a detection stands alone: for every number of     *)
(* goroutines that fail and print a 2 before the first of them ends the    *)
(* process.                                                                *)
THEOREM DetectionIsTrue == Spec => []DetectionTrue
<1>1. IInv => DetectionTrue
  <2> SUFFICES ASSUME IInv PROVE DetectionTrue
    OBVIOUS
  <2>1. deletes = 0 /\ 1 \in Range(printed) =>
          IF engine = 0 THEN Encrypted(detected.text) /\ detected.text \in Range(table)
          ELSE detected.number \in DOMAIN table /\ Encrypted(table[detected.number])
    BY DEF IInv, TruthInv, Truthful, TruthIn, NoDetection
  <2>2. \A i, j \in DOMAIN printed : printed[i] = printed[j] /\ printed[i] # 2 => i = j
    BY DEF IInv, PrintedInv, Single
  <2>3. 0 \in Range(printed) =>
            \/ printed = <<0>>
            \/ 1 \in Range(printed) /\ engine = 1 /\ program # "oracle"
    BY DEF IInv, PrintedInv, NoDetection
  <2> QED BY <2>1, <2>2, <2>3 DEF DetectionTrue
<1> QED BY <1>1, Invariance, PTL

(* The rows that -entropy reads lie around the break point, and are as many as*)
(* they should be.                                                         *)
THEOREM EntropyWindowHolds == Spec => []EntropyWindow
<1>1. IInv => EntropyWindow
  BY DEF IInv
<1> QED BY <1>1, Invariance, PTL
=============================================================================
