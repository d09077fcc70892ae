--------------------------- MODULE NetDiskProofs ---------------------------
(***************************************************************************)
(* Proofs about NetDisk and NetDownload, for every disk, page size, retry  *)
(* count and bound.  What they rest on:                                    *)
(*   the listing    ListCore, held while nobody changes the disk: which    *)
(*                  folders are begun, which pages have been asked for,    *)
(*                  and that exactly the entries of the pages that were    *)
(*                  read are listed, each once;                            *)
(*   the sending    Phase and Sending: queue, channel, database and        *)
(*                  counter hold the chosen files between them;            *)
(*   the download   RetryInv: a budget of requests for each active call    *)
(*                  of SingleFileDownload, and what each has asked for.    *)
(*   the tree       StructsInv: how far each folder has been read; and     *)
(*                  TreeInv: a folder is listed before its sub-folders.    *)
(*                                                                         *)
(* The recursive functions of the model are reasoned about with Induction  *)
(* and Recursion below, whose statements take sets and functions where     *)
(* those of the library take operators.                                    *)
(***************************************************************************)
EXTENDS NetDownload, FiniteSetTheorems, SequenceTheorems, WellFoundedInduction, TLAPS

(* A set of numbers up to n that is not empty has a least one.  (Initial   *)
(* segments are well-founded under strict inclusion, says the library.)    *)
LEMMA LeastMember ==
  ASSUME NEW n \in Nat, NEW B, B \subseteq 0..n, B # {}
  PROVE  \E k \in B : \A j \in B : k <= j
<1> DEFINE S == 0..n
           R == StrictSubsetOrdering(S)
           T == {0..k : k \in B}
<1>1. IsWellFoundedOn(R, FiniteSubsetsOf(S))
  BY FS_StrictSubsetOrderingWellFounded
<1>2. T \subseteq FiniteSubsetsOf(S) 
  <2> SUFFICES ASSUME NEW k \in B PROVE 0..k \in SUBSET S /\ IsFiniteSet(0..k)
    BY DEF FiniteSubsetsOf
  <2>1. k \in 0..n
    OBVIOUS
  <2> QED BY <2>1, FS_Interval
<1>3. T # {}
  OBVIOUS
<1> HIDE DEF R, T
<1>4. PICK x \in T : \A y \in T : ~(<<y, x>> \in R)
  BY <1>1, <1>2, <1>3, WFMin
<1>5. PICK k \in B : x = 0..k
  BY <1>4 DEF T
<1>6. ASSUME NEW j \in B, j < k PROVE FALSE
  <2> DEFINE p == <<0..j, 0..k>>
  <2>1. /\ 0..j \in T /\ 0..j \subseteq 0..k
        /\ k \notin 0..j /\ k \in 0..k
        /\ 0..j \in SUBSET S /\ 0..k \in SUBSET S
    BY <1>6 DEF T
  <2>2. 0..j # 0..k
    BY <2>1
  <2>3. p \in (SUBSET S) \X (SUBSET S) /\ p[1] \subseteq p[2] /\ p[1] # p[2]
    BY <2>1, <2>2
  <2> HIDE DEF p, S
  <2>4. p \in R
    BY <2>3 DEF R, StrictSubsetOrdering
  <2> QED BY <2>1, <2>4, <1>4, <1>5 DEF p
<1> QED BY <1>6

(* Min of two numbers, which cuts off the last page.                       *)
LEMMA MinOfTwo ==
  ASSUME NEW a \in Int, NEW b \in Int
  PROVE  Min({a, b}) \in {a, b} /\ Min({a, b}) <= a /\ Min({a, b}) <= b
<1>1. \E x \in {a, b} : \A y \in {a, b} : x =< y
  <2>1. CASE a <= b BY <2>1
  <2>2. CASE ~(a <= b) BY <2>2
  <2> QED BY <2>1, <2>2
<1> QED BY <1>1 DEF Min

(* Distributivity and monotonicity of products, for page * size.           *)
LEMMA Products ==
  ASSUME NEW m \in Int, NEW n \in Int, NEW t \in Nat
  PROVE  /\ m * t \in Int
         /\ (m + 1) * t = m * t + t
         /\ m < n => m * t + t <= n * t
<1>1. (m+1) * t = m * t + t
  OBVIOUS
<1>2. m * t \in Int OBVIOUS
<1>3. ASSUME m < n PROVE m * t + t <= n * t
  <2>1. PICK d \in Nat : n = (m + 1) + d
    BY <1>3
  <2>2. n * t = (m+1) * t + d * t
    BY <2>1
  <2>3. d * t >= 0
    OBVIOUS
  <2>. QED BY <2>2, <2>3, <1>1, <1>2
<1> QED BY <1>1, <1>2, <1>3

(* Quotient and remainder.                                                 *)
LEMMA Division ==
  ASSUME NEW p \in Nat, NEW t \in Nat \ {0}
  PROVE  /\ p \div t \in Nat
         /\ (p \div t) * t <= p
         /\ p < (p \div t) * t + t
OBVIOUS

(* The quotient is the only number with that remainder, and grows with p.  *)
LEMMA DivisionUnique ==
  ASSUME NEW p \in Nat, NEW t \in Nat \ {0}, NEW n \in Nat
  PROVE  /\ p \div t = n <=> n * t <= p /\ p < n * t + t
         /\ n * t <= p => n <= p \div t
<1>1. /\ p \div t \in Nat
         /\ (p \div t) * t <= p
         /\ p < (p \div t) * t + t
 BY Division
<1> DEFINE q == p \div t
<1> HIDE DEF q
<1>2. q \in Nat /\ q * t <= p /\ p < q * t + t
  BY <1>1 DEF q
<1>3. q < n => q * t + t <= n * t
  BY <1>2, Products
<1>4. n < q => n * t + t <= q * t
  BY <1>2, Products
<1>5. q*t \in Int /\ n * t \in Int
  BY <1>2, Products
<1> DEFINE a == q * t
           b == n * t
<1>6. /\ a \in Int /\ b \in Int /\ a <= p /\ p < a + t
      /\ q < n => a + t <= b
      /\ n < q => b + t <= a
      /\ q = n => a = b
  BY <1>2, <1>3, <1>4, <1>5
<1> HIDE DEF a, b
<1>7. q = n <=> b <= p /\ p < b + t
  BY <1>2, <1>6
<1>8. b <= p => n <= q
  BY <1>2, <1>6
<1> QED BY <1>7, <1>8 DEF q, b

(* Induction up to n, over the set of the numbers for which a fact holds.  *)
LEMMA Induction ==
  ASSUME NEW n \in Nat, NEW G, 0 \in G,
         \A k \in 1..n : k - 1 \in G => k \in G
  PROVE  \A k \in 0..n : k \in G
<1> DEFINE B == {k \in 0..n : k \notin G}
<1> SUFFICES ASSUME B # {} PROVE FALSE
  OBVIOUS
<1>1. PICK k \in B : \A j \in B : k <= j
  <2>1. B \subseteq 0..n
    OBVIOUS
  <2> HIDE DEF B
  <2> QED BY <2>1, LeastMember
<1>2. k \in 1..n /\ k - 1 \in 0..n /\ k \notin G
  BY <1>1
<1>3. k - 1 \notin B
  BY <1>1, <1>2
<1> QED BY <1>2, <1>3

(* f is what the step function h makes of the value a, step by step up to  *)
(* n: the recursive functions of the model are of this form.               *)
Runs(f, n, T, a, h) ==
    /\ f \in [0..n -> T]
    /\ f[0] = a
    /\ \A k \in 1..n : f[k] = h[<<k, f[k - 1]>>]

(* There is such a function.                                               *)
LEMMA Recursion ==
  ASSUME NEW n \in Nat, NEW T, NEW a \in T, NEW h \in [(1..n) \X T -> T]
  PROVE  \E f : Runs(f, n, T, a, h)
<1> DEFINE G == {m \in 0..n : \E f : Runs(f, m, T, a, h)}
<1>1. 0 \in G
  <2>1. Runs([k \in 0..0 |-> a], 0, T, a, h)
    BY DEF Runs
  <2> QED BY <2>1
<1>2. ASSUME NEW m \in 1..n, m - 1 \in G PROVE m \in G
  <2>1. PICK f : Runs(f, m - 1, T, a, h)
    BY <1>2
  <2> DEFINE g == [k \in 0..m |-> IF k < m THEN f[k] ELSE h[<<m, f[m - 1]>>]]
  <2>2. f[m - 1] \in T /\ h[<<m, f[m - 1]>>] \in T
    BY <2>1 DEF Runs
  <2>3. g \in [0..m -> T] /\ g[0] = a
    BY <2>1, <2>2 DEF Runs
  <2>4. ASSUME NEW k \in 1..m PROVE g[k] = h[<<k, g[k - 1]>>]
    <3>1. g[k - 1] = f[k - 1]
      OBVIOUS
    <3>2. CASE k = m
      <4>1. g[m] = h[<<m, f[m - 1]>>] /\ g[m - 1] = f[m - 1]
        BY <3>1, <3>2
      <4> QED BY <3>2, <4>1
    <3>3. CASE k < m
      BY <2>1, <3>1, <3>3 DEF Runs
    <3> QED BY <3>2, <3>3
  <2>5. Runs(g, m, T, a, h)
    <3> HIDE DEF g
    <3> QED BY <2>3, <2>4 DEF Runs
  <2> QED BY <2>5
<1>3. n \in G
  <2> HIDE DEF G
  <2> QED BY <1>1, <1>2, Induction
<1> QED BY <1>3

(* f[k] is what Select keeps of the first k entries.                       *)
Keeps(f, U, e, S) ==
    /\ f \in [0..Len(e) -> Seq(U)]
    /\ f[0] = <<>>
    /\ \A k \in 1..Len(e) : f[k] = f[k - 1] \o (IF e[k] \in S THEN <<e[k]>> ELSE <<>>)

(* The first value and one step of the recursion behind Select.            *)
LEMMA SelectSteps ==
  ASSUME NEW U, NEW e \in Seq(U), NEW S
  PROVE  \E f : Keeps(f, U, e, S) /\ Select(e, S) = f[Len(e)]
<1> DEFINE n == Len(e)
           More(k) == IF e[k] \in S THEN <<e[k]>> ELSE <<>>
           h == [p \in (1..n) \X Seq(U) |-> p[2] \o More(p[1])]
           Is(f) == f = [k \in 0..n |-> IF k = 0 THEN <<>> ELSE f[k - 1] \o More(k)]
<1>1. n \in Nat
  BY LenProperties
<1>2. ASSUME NEW k \in 1..n PROVE More(k) \in Seq(U)
  <2>1. e[k] \in U
    BY ElementOfSeq
  <2> QED BY <2>1
<1>3. h \in [(1..n) \X Seq(U) -> Seq(U)]
  BY <1>2, ConcatProperties
<1>4. <<>> \in Seq(U)
  OBVIOUS
<1>5. \A k \in 1..n, q \in Seq(U) : h[<<k, q>>] = q \o More(k)
  OBVIOUS
<1>6. Select(e, S) = (CHOOSE f : Is(f))[n]
  BY DEF Select
<1> DEFINE T == Seq(U)
           a == <<>>
<1> HIDE DEF h, More, n
<1>7. \E f : Runs(f, n, T, a, h)
  <2>1. n \in Nat /\ h \in [(1..n) \X T -> T] /\ a \in T
    BY <1>1, <1>3, <1>4
  <2> HIDE DEF T, a
  <2> QED BY <2>1, Recursion
<1>d. PICK f : /\ f \in [0..n -> Seq(U)] /\ f[0] = <<>>
               /\ \A k \in 1..n : f[k] = h[<<k, f[k - 1]>>]
  BY <1>7 DEF Runs
<1>8. ASSUME NEW k \in 1..n PROVE f[k] = f[k - 1] \o More(k)
  <2>1. k - 1 \in 0..n /\ f[k - 1] \in Seq(U)
    BY <1>1, <1>d
  <2>2. f[k] = h[<<k, f[k - 1]>>]
    BY <1>d
  <2> QED BY <1>5, <2>1, <2>2
<1>9. Is(f)
  <2>1. \A k \in 0..n : k = 0 \/ k \in 1..n
    BY <1>1
  <2>2. ASSUME NEW k \in 0..n
        PROVE  f[k] = IF k = 0 THEN <<>> ELSE f[k - 1] \o More(k)
    BY <1>d, <1>8, <2>1
  <2> QED BY <1>d, <2>2
<1> DEFINE g == CHOOSE x : Is(x)
<1>10. Is(g)
  BY <1>9
<1> HIDE DEF g
<1>a. g[0] = <<>>
  BY <1>1, <1>10
<1>b. ASSUME NEW k \in 1..n PROVE g[k] = g[k - 1] \o More(k)
  <2>1. k \in 0..n /\ k # 0
    BY <1>1
  <2> QED BY <1>10, <2>1
<1>11. g \in [0..n -> Seq(U)]
  <2> DEFINE G == {k \in 0..n : g[k] \in Seq(U)}
  <2>1. 0 \in G
    <3>1. 0 \in 0..n
      BY <1>1
    <3> QED BY <1>4, <1>a, <3>1
  <2>2. ASSUME NEW k \in 1..n, k - 1 \in G PROVE k \in G
    <3>1. More(k) \in Seq(U)
      BY <1>2 DEF n, More
    <3>2. g[k - 1] \in Seq(U) /\ k \in 0..n
      BY <1>1, <2>2
    <3>3. g[k - 1] \o More(k) \in Seq(U)
      BY <3>1, <3>2, ConcatProperties
    <3> QED BY <1>b, <3>2, <3>3
  <2>3. \A k \in 0..n : k \in G
    <3> HIDE DEF G
    <3> QED BY <1>1, <2>1, <2>2, Induction
  <2> QED BY <1>10, <2>3
<1>12. Keeps(g, U, e, S)
  BY <1>11, <1>a, <1>b DEF Keeps, n, More
<1> QED BY <1>6, <1>12 DEF g, n

(* Select keeps the entries that are in S, in their order, once each.      *)
LEMMA SelectFacts ==
  ASSUME NEW U, NEW e \in Seq(U), NEW S
  PROVE  /\ Select(e, S) \in Seq(U \cap S)
         /\ Range(Select(e, S)) = Range(e) \cap S
         /\ IsInjective(e) => IsInjective(Select(e, S))
<1> DEFINE n == Len(e)
<1>1. n \in Nat /\ DOMAIN e = 1..n /\ \A k \in 1..n : e[k] \in U
  BY LenProperties, ElementOfSeq
<1>a. PICK f : Keeps(f, U, e, S) /\ Select(e, S) = f[Len(e)]
  BY SelectSteps
<1>2. f \in [0..n -> Seq(U)] /\ f[0] = <<>>
  BY <1>a DEF Keeps
<1>c. \A k \in 1..n : f[k] = f[k - 1] \o (IF e[k] \in S THEN <<e[k]>> ELSE <<>>)
  BY <1>a DEF Keeps
<1> HIDE DEF n
<1> DEFINE First(k) == {e[j] : j \in 1..k}
           Good(k) == /\ f[k] \in Seq(U \cap S)
                      /\ Range(f[k]) = First(k) \cap S
                      /\ IsInjective(e) => IsInjective(f[k])
           G == {k \in 0..n : Good(k)}
<1>3. 0 \in G
  <2>1. <<>> \in Seq(U \cap S) /\ Range(<<>>) = {} /\ IsInjective(<<>>)
    BY DEF Range, IsInjective
  <2>2. First(0) = {}
    OBVIOUS
  <2> QED BY <1>1, <1>2, <2>1, <2>2
<1>4. ASSUME NEW k \in 1..n, k - 1 \in G PROVE k \in G
  <2>1. k \in Nat /\ k - 1 \in Nat /\ k - 1 \in 0..n /\ k \in 0..n /\ e[k] \in U
    BY <1>1
  <2>2. Good(k - 1)
    BY <1>4
  <2>3. First(k) = First(k - 1) \cup {e[k]}
    BY <2>1
  <2>4. CASE e[k] \notin S
    <3>1. f[k] = f[k - 1] \o <<>>
      BY <1>c, <2>4
    <3>2. f[k] = f[k - 1]
      BY <2>2, <3>1, ConcatEmptySeq
    <3>3. First(k) \cap S = First(k - 1) \cap S
      BY <2>3, <2>4
    <3> HIDE DEF First
    <3>4. Good(k)
      BY <2>2, <3>2, <3>3
    <3> QED BY <2>1, <3>4
  <2>5. CASE e[k] \in S
    <3> DEFINE q == f[k - 1]
               x == e[k]
    <3>1. q \in Seq(U \cap S) /\ x \in U \cap S
      BY <2>1, <2>2, <2>5
    <3>2. f[k] = q \o <<x>> /\ q \o <<x>> = Append(q, x)
      <4>1. f[k] = q \o <<x>>
        BY <1>c, <2>5
      <4> HIDE DEF q, x
      <4> QED BY <4>1, <3>1, AppendIsConcat
    <3>3. /\ f[k] \in Seq(U \cap S)
          /\ Len(f[k]) = Len(q) + 1
          /\ \A i \in 1..Len(q) : f[k][i] = q[i]
          /\ f[k][Len(q) + 1] = x
      BY <3>1, <3>2, AppendProperties
    <3>4. Len(q) \in Nat /\ DOMAIN q = 1..Len(q) /\ DOMAIN f[k] = 1..(Len(q) + 1)
      BY <3>1, <3>3, LenProperties
    <3>5. Range(q) = First(k - 1) \cap S /\ (IsInjective(e) => IsInjective(q))
      BY <2>2
    <3> HIDE DEF q
    <3>6. Range(f[k]) = Range(q) \cup {x}
      BY <3>3, <3>4 DEF Range
    <3>7. ASSUME IsInjective(e) PROVE IsInjective(f[k])
      <4>1. x \notin First(k - 1)
        <5>1. \A j \in 1..(k - 1) : j \in 1..n /\ j # k /\ k \in 1..n
          BY <1>1, <2>1
        <5>2. \A j \in 1..(k - 1) : e[j] # e[k]
          BY <5>1, <1>1, <3>7 DEF IsInjective
        <5> QED BY <5>2
      <4>2. \A i \in 1..Len(q) : q[i] \in First(k - 1)
        BY <3>4, <3>5 DEF Range
      <4>3. \A i, j \in 1..Len(q) : q[i] = q[j] => i = j
        BY <3>4, <3>5, <3>7 DEF IsInjective
      <4> HIDE DEF x, First
      <4>4. \A i \in 1..Len(q) : q[i] # x
        BY <4>1, <4>2
      <4>5. \A i \in 1..(Len(q) + 1) : i \in 1..Len(q) \/ i = Len(q) + 1
        BY <3>4
      <4>6. \A i, j \in 1..(Len(q) + 1) : f[k][i] = f[k][j] => i = j
        BY <3>3, <4>3, <4>4, <4>5
      <4> QED BY <3>4, <4>6 DEF IsInjective
    <3>8. First(k) \cap S = (First(k - 1) \cap S) \cup {x}
      BY <2>3, <2>5
    <3>9. Good(k)
      BY <3>3, <3>5, <3>6, <3>7, <3>8
    <3> QED BY <2>1, <3>9
  <2> QED BY <2>4, <2>5
<1>5. n \in G
  <2>1. \A k \in 0..n : k \in G
    <3> HIDE DEF G
    <3> QED BY <1>1, <1>3, <1>4, Induction
  <2>2. n \in 0..n
    BY <1>1
  <2> QED BY <2>1, <2>2
<1>6. First(n) = Range(e)
  BY <1>1 DEF Range
<1>7. Select(e, S) = f[n]
  BY <1>a DEF n
<1>8. Good(n)
  BY <1>5
<1> HIDE DEF First
<1> QED BY <1>6, <1>7, <1>8

-----------------------------------------------------------------------------
(* The pages of a listing.  Everything below about which entry is on which *)
(* page is about Ceil, the number of the page.                             *)
LEMMA CeilFacts ==
  ASSUME NEW i \in Nat, NEW z \in Nat \ {0}
  PROVE  /\ Ceil(i, z) \in Nat
         /\ \A p \in Nat : i <= p * z <=> Ceil(i, z) <= p
<1> DEFINE r == i + z - 1
           q == r \div z
<1>1. r \in Nat
  OBVIOUS
<1>2. q \in Nat /\ q * z \in Int /\ q * z <= r /\ r < q * z + z
  BY <1>1, Division
<1>3. Ceil(i, z) = q
  BY DEF Ceil
<1>4. ASSUME NEW p \in Nat PROVE i <= p * z <=> q <= p
  <2>1. /\ p * z \in Int /\ (p + 1) * z = p * z + z
        /\ p < q => p * z + z <= q * z
    BY <1>2, Products
  <2>2. (p + 1) * z <= r => p + 1 <= q
    BY <1>1, DivisionUnique
  <2> DEFINE a == p * z
             b == q * z
  <2>3. /\ a \in Int /\ b \in Int /\ b <= r
        /\ p < q => a + z <= b
        /\ a + z <= r => p + 1 <= q
    BY <1>2, <2>1, <2>2
  <2>4. q \in Nat
    BY <1>2
  <2> HIDE DEF a, b, q
  <2>5. i <= a <=> q <= p
    BY <2>3, <2>4
  <2> QED BY <2>5 DEF a
<1> QED BY <1>2, <1>3, <1>4

(* An entry is on page p if and only if its number lies between p - 1 and  *)
(* p pages, and page numbers do not fall.                                  *)
LEMMA PageNumber ==
  ASSUME NEW i \in Nat \ {0}, NEW z \in Nat \ {0}, NEW p \in Nat \ {0}
  PROVE  /\ Ceil(i, z) \in Nat \ {0}
         /\ Ceil(i, z) = p <=> (p - 1) * z < i /\ i <= p * z
         /\ \A n \in Nat : i <= n => Ceil(i, z) <= Ceil(n, z)
<1>1. /\ Ceil(i, z) \in Nat
      /\ \A n \in Nat : i <= n * z <=> Ceil(i, z) <= n
  BY CeilFacts
<1>2. p - 1 \in Nat /\ p \in Nat /\ 0 \in Nat /\ 0 * z = 0
  OBVIOUS
<1>3. (p - 1) * z \in Int /\ p * z \in Int
  BY Products
<1> DEFINE a == (p - 1) * z
           b == p * z
<1>4. (i <= a <=> Ceil(i, z) <= p - 1) /\ (i <= b <=> Ceil(i, z) <= p)
  BY <1>1, <1>2
<1>5. a \in Int /\ b \in Int
  BY <1>3
<1> HIDE DEF a, b
<1>6. Ceil(i, z) = p <=> a < i /\ i <= b
  BY <1>1, <1>4, <1>5
<1>7. Ceil(i, z) # 0
  BY <1>1, <1>2
<1>8. ASSUME NEW n \in Nat, i <= n PROVE Ceil(i, z) <= Ceil(n, z)
  <2> DEFINE c == Ceil(n, z)
  <2>1. c \in Nat /\ n <= c * z
    BY CeilFacts
  <2>2. c * z \in Int
    BY <2>1, Products
  <2> HIDE DEF c
  <2>3. i <= c * z
    BY <2>1, <2>2, <1>8
  <2> QED BY <1>1, <2>1, <2>3 DEF c
<1> QED BY <1>1, <1>6, <1>7, <1>8 DEF a, b

(* x is an entry of page p.                                                *)
OnPage(x, e, p, z) == \E i \in DOMAIN e : Ceil(i, z) = p /\ x = e[i]

(* Page(e, p, z) is the part of e that the server sends as page p.         *)
LEMMA PageFacts ==
  ASSUME NEW U, NEW e \in Seq(U), NEW p \in Nat \ {0}, NEW z \in Nat \ {0}
  PROVE  /\ Page(e, p, z) \in Seq(U)
         /\ \A x : x \in Range(Page(e, p, z)) <=> OnPage(x, e, p, z)
         /\ IsInjective(e) => IsInjective(Page(e, p, z))
<1> DEFINE n == Len(e)
           a == (p - 1) * z
           b == p * z
           h == Min({n, b})
           s == SubSeq(e, a + 1, h)
<1>1. n \in Nat /\ DOMAIN e = 1..n /\ \A i \in 1..n : e[i] \in U
  BY LenProperties, ElementOfSeq
<1>2. a \in Nat /\ b \in Nat
  OBVIOUS
<1>3. h \in {n, b} /\ h <= n /\ h <= b
  <2>1. n \in Int /\ b \in Int
    BY <1>1, <1>2
  <2> HIDE DEF n, b
  <2> QED BY <2>1, MinOfTwo
<1>4. \A i \in 1..n : Ceil(i, z) = p <=> a < i /\ i <= b
  <2> SUFFICES ASSUME NEW i \in 1..n PROVE Ceil(i, z) = p <=> a < i /\ i <= b
    OBVIOUS
  <2>1. i \in Nat \ {0}
    BY <1>1
  <2> QED BY <2>1, PageNumber
<1>5. Page(e, p, z) = s
  BY DEF Page
<1> HIDE DEF a, b, h, n
<1>6. \A i \in (a + 1)..h : i \in 1..n /\ e[i] \in U
  BY <1>1, <1>2, <1>3
<1>7. a + 1 \in Int /\ h \in Int
  BY <1>1, <1>2, <1>3
<1>8. /\ s \in Seq(U)
      /\ Len(s) = IF a + 1 <= h THEN h - (a + 1) + 1 ELSE 0
      /\ \A i \in 1..(h - (a + 1) + 1) : s[i] = e[a + 1 + i - 1]
  BY <1>6, <1>7, SubSeqProperties
<1> HIDE DEF s
<1>9. Len(s) \in Nat /\ DOMAIN s = 1..Len(s)
  BY <1>8, LenProperties
<1>10. \A i \in DOMAIN s : s[i] = e[a + i] /\ a + i \in (a + 1)..h
  BY <1>2, <1>7, <1>8, <1>9
<1>11. \A j \in (a + 1)..h : j - a \in DOMAIN s /\ j = a + (j - a)
  BY <1>2, <1>7, <1>8, <1>9
<1>12. \A j \in 1..n : Ceil(j, z) = p <=> j \in (a + 1)..h
  BY <1>1, <1>2, <1>3, <1>4
<1>13. Range(s) = {e[j] : j \in (a + 1)..h}
  <2>1. ASSUME NEW x \in Range(s) PROVE x \in {e[j] : j \in (a + 1)..h}
    <3>1. PICK i \in DOMAIN s : x = s[i]
      BY DEF Range
    <3> QED BY <1>10, <3>1
  <2>2. ASSUME NEW j \in (a + 1)..h PROVE e[j] \in Range(s)
    <3>1. j - a \in DOMAIN s /\ s[j - a] = e[a + (j - a)] /\ a + (j - a) = j
      BY <1>10, <1>11
    <3>2. s[j - a] = e[j]
      BY <3>1
    <3> QED BY <3>1, <3>2 DEF Range
  <2> QED BY <2>1, <2>2
<1>14. {j \in DOMAIN e : Ceil(j, z) = p} = (a + 1)..h
  BY <1>1, <1>6, <1>12
<1>15. ASSUME IsInjective(e) PROVE IsInjective(s)
  <2> SUFFICES ASSUME NEW i \in DOMAIN s, NEW j \in DOMAIN s, s[i] = s[j] PROVE i = j
    BY DEF IsInjective
  <2>1. e[a + i] = e[a + j] /\ a + i \in DOMAIN e /\ a + j \in DOMAIN e
    BY <1>1, <1>6, <1>10
  <2>2. a + i = a + j
    BY <2>1, <1>15 DEF IsInjective
  <2> QED BY <1>2, <1>9, <2>2
<1>16. ASSUME NEW x
       PROVE  x \in Range(s) <=> OnPage(x, e, p, z)
  <2>1. x \in Range(s) <=> \E i \in (a + 1)..h : x = e[i]
    BY <1>13
  <2>2. \A i : i \in (a + 1)..h <=> i \in DOMAIN e /\ Ceil(i, z) = p
    BY <1>14
  <2> QED BY <2>1, <2>2 DEF OnPage
<1> QED BY <1>5, <1>8, <1>15, <1>16

(* What the concatenation of two sequences holds.                          *)
LEMMA ConcatFacts ==
  ASSUME NEW U, NEW s \in Seq(U), NEW t \in Seq(U)
  PROVE  /\ s \o t \in Seq(U)
         /\ Range(s \o t) = Range(s) \cup Range(t)
         /\ IsInjective(s) /\ IsInjective(t) /\ Range(s) \cap Range(t) = {}
              => IsInjective(s \o t)
<1>1. /\ s \o t \in Seq(U)
      /\ Len(s \o t) = Len(s) + Len(t)
      /\ \A i \in 1..(Len(s) + Len(t)) :
            (s \o t)[i] = IF i <= Len(s) THEN s[i] ELSE t[i - Len(s)]
  BY ConcatProperties
<1>2. /\ Len(s) \in Nat /\ DOMAIN s = 1..Len(s)
      /\ Len(t) \in Nat /\ DOMAIN t = 1..Len(t)
      /\ DOMAIN (s \o t) = 1..(Len(s) + Len(t))
  BY <1>1, LenProperties
<1>3. Range(s \o t) = Range(s) \cup Range(t)
  BY RangeConcatenation
<1>4. ASSUME IsInjective(s), IsInjective(t), Range(s) \cap Range(t) = {}
      PROVE  IsInjective(s \o t)
  <2> DEFINE c == s \o t
  <2> SUFFICES ASSUME NEW i \in DOMAIN c, NEW j \in DOMAIN c, c[i] = c[j] PROVE i = j
    BY DEF IsInjective
  <2>1. ASSUME NEW k \in DOMAIN c
        PROVE  \/ k \in DOMAIN s /\ c[k] = s[k] /\ c[k] \in Range(s)
               \/ k > Len(s) /\ k - Len(s) \in DOMAIN t /\ c[k] = t[k - Len(s)] /\ c[k] \in Range(t)
    <3>1. k \in 1..(Len(s) + Len(t)) /\ c[k] = IF k <= Len(s) THEN s[k] ELSE t[k - Len(s)]
      BY <1>1, <1>2
    <3> HIDE DEF c
    <3>2. CASE k <= Len(s)
      <4>1. k \in DOMAIN s /\ c[k] = s[k]
        BY <1>2, <3>1, <3>2
      <4> QED BY <4>1 DEF Range
    <3>3. CASE k > Len(s)
      <4>1. k - Len(s) \in DOMAIN t /\ c[k] = t[k - Len(s)]
        BY <1>2, <3>1, <3>3
      <4> QED BY <4>1, <3>3 DEF Range
    <3> QED BY <1>2, <3>1, <3>2, <3>3
  <2>2. i \in Nat /\ j \in Nat
    BY <1>2
  <2> HIDE DEF c
  <2>3. CASE i \in DOMAIN s /\ c[i] = s[i] /\ c[i] \in Range(s)
    <3>1. c[j] \notin Range(t)
      BY <1>4, <2>3
    <3>2. j \in DOMAIN s /\ c[j] = s[j]
      BY <2>1, <3>1
    <3> QED BY <1>4, <2>3, <3>2 DEF IsInjective
  <2>4. CASE i > Len(s) /\ i - Len(s) \in DOMAIN t /\ c[i] = t[i - Len(s)] /\ c[i] \in Range(t)
    <3>1. c[j] \notin Range(s)
      BY <1>4, <2>4
    <3>2. j - Len(s) \in DOMAIN t /\ c[j] = t[j - Len(s)]
      BY <2>1, <3>1
    <3>3. i - Len(s) = j - Len(s)
      BY <1>4, <2>4, <3>2 DEF IsInjective
    <3> QED BY <1>2, <2>2, <3>3
  <2> QED BY <2>1, <2>3, <2>4
<1> QED BY <1>1, <1>3, <1>4

(* Head and tail of a sequence that is not empty.                          *)
LEMMA HeadTailFacts ==
  ASSUME NEW U, NEW s \in Seq(U), s # <<>>
  PROVE  /\ Head(s) \in U /\ Tail(s) \in Seq(U)
         /\ Len(s) \in Nat \ {0} /\ DOMAIN s = 1..Len(s) /\ 1 \in DOMAIN s
         /\ Head(s) = s[1]
         /\ Len(Tail(s)) = Len(s) - 1 /\ DOMAIN Tail(s) = 1..(Len(s) - 1)
         /\ \A i \in 1..(Len(s) - 1) : Tail(s)[i] = s[i + 1]
         /\ Range(s) = {Head(s)} \cup Range(Tail(s))
         /\ IsInjective(s) => IsInjective(Tail(s)) /\ Head(s) \notin Range(Tail(s))
<1>1. /\ Head(s) \in U /\ Tail(s) \in Seq(U)
      /\ Len(Tail(s)) = Len(s) - 1
      /\ \A i \in 1..Len(Tail(s)) : Tail(s)[i] = s[i + 1]
  BY HeadTailProperties
<1>2. Len(s) \in Nat \ {0} /\ DOMAIN s = 1..Len(s)
  BY EmptySeq, LenProperties
<1>3. DOMAIN Tail(s) = 1..(Len(s) - 1) /\ 1 \in DOMAIN s /\ Head(s) = s[1]
  <2>1. DOMAIN Tail(s) = 1..Len(Tail(s))
    BY <1>1, LenProperties
  <2> QED BY <1>1, <1>2, <2>1
<1>4. \A i \in 1..(Len(s) - 1) : Tail(s)[i] = s[i + 1]
  BY <1>1
<1> DEFINE t == Tail(s)
           n == Len(s)
<1>5. /\ n \in Nat \ {0} /\ DOMAIN s = 1..n /\ DOMAIN t = 1..(n - 1)
      /\ \A i \in 1..(n - 1) : t[i] = s[i + 1]
  BY <1>2, <1>3, <1>4
<1> HIDE DEF t, n
<1>6. \A i \in 1..n : i = 1 \/ (i - 1 \in 1..(n - 1) /\ i = (i - 1) + 1)
  BY <1>5
<1>7. \A i \in 1..(n - 1) : i + 1 \in 1..n /\ i + 1 # 1
  BY <1>5
<1>8. Range(s) = {s[1]} \cup Range(t)
  <2>1. ASSUME NEW x \in Range(s) PROVE x \in {s[1]} \cup Range(t)
    <3>1. PICK i \in 1..n : x = s[i]
      BY <1>5 DEF Range
    <3>2. CASE i # 1
      <4>1. i - 1 \in DOMAIN t /\ t[i - 1] = s[(i - 1) + 1] /\ i = (i - 1) + 1
        BY <1>5, <1>6, <3>2
      <4>2. t[i - 1] = x
        BY <3>1, <4>1
      <4> QED BY <4>1, <4>2 DEF Range
    <3> QED BY <3>1, <3>2
  <2>2. Range(t) \subseteq Range(s)
    BY <1>5, <1>7 DEF Range
  <2>3. s[1] \in Range(s)
    BY <1>3 DEF Range
  <2> QED BY <2>1, <2>2, <2>3
<1>9. ASSUME IsInjective(s) PROVE IsInjective(t) /\ s[1] \notin Range(t)
  <2>1. \A i \in 1..(n - 1) : t[i] # s[1]
    BY <1>5, <1>7, <1>9 DEF IsInjective
  <2>2. \A i, j \in 1..(n - 1) : t[i] = t[j] => i + 1 = j + 1
    BY <1>5, <1>7, <1>9 DEF IsInjective
  <2>3. \A i, j \in 1..(n - 1) : t[i] = t[j] => i = j
    BY <2>2
  <2> QED BY <1>5, <2>1, <2>3 DEF IsInjective, Range
<1> QED BY <1>1, <1>2, <1>3, <1>4, <1>8, <1>9 DEF t

(* A call with its first element replaced.                                 *)
LEMMA ConsFacts ==
  ASSUME NEW U, NEW s \in Seq(U), NEW x \in U
  PROVE  /\ <<x>> \o s \in Seq(U)
         /\ Len(<<x>> \o s) = Len(s) + 1
         /\ DOMAIN (<<x>> \o s) = 1..(Len(s) + 1)
         /\ (<<x>> \o s)[1] = x
         /\ \A i \in 1..Len(s) : (<<x>> \o s)[i + 1] = s[i]
         /\ Head(<<x>> \o s) = x
         /\ Tail(<<x>> \o s) = s
<1>1. <<x>> \in Seq(U) /\ Len(<<x>>) = 1 /\ <<x>>[1] = x
  OBVIOUS
<1>2. Len(s) \in Nat
  BY LenProperties
<1>3. /\ <<x>> \o s \in Seq(U)
      /\ Len(<<x>> \o s) = 1 + Len(s)
      /\ \A i \in 1..(1 + Len(s)) : (<<x>> \o s)[i] = IF i <= 1 THEN <<x>>[i] ELSE s[i - 1]
  BY <1>1, ConcatProperties
<1> DEFINE c == <<x>> \o s
<1> HIDE DEF c
<1>4. c \in Seq(U) /\ Len(c) = Len(s) + 1 /\ DOMAIN c = 1..(Len(s) + 1)
  BY <1>2, <1>3, LenProperties DEF c
<1>5. c[1] = x
  BY <1>1, <1>2, <1>3 DEF c
<1>6. ASSUME NEW i \in 1..Len(s) PROVE c[i + 1] = s[i]
  <2>1. i + 1 \in 1..(1 + Len(s)) /\ ~(i + 1 <= 1) /\ (i + 1) - 1 = i
    BY <1>2
  <2>2. c[i + 1] = s[(i + 1) - 1]
    BY <1>3, <2>1 DEF c
  <2> QED BY <2>1, <2>2
<1>7. c # <<>>
  BY <1>2, <1>4
<1>8. Head(c) = x /\ Tail(c) = s
  <2>1. Tail(c) \in Seq(U) /\ Len(Tail(c)) = Len(c) - 1 /\ Head(c) = c[1]
        /\ \A i \in 1..(Len(c) - 1) : Tail(c)[i] = c[i + 1]
    BY <1>4, <1>7, HeadTailFacts
  <2>2. Len(Tail(c)) = Len(s)
    BY <1>2, <1>4, <2>1
  <2>3. \A i \in 1..Len(s) : Tail(c)[i] = s[i]
    BY <1>2, <1>4, <1>6, <2>1
  <2> QED BY <1>5, <2>1, <2>2, <2>3, SeqEqual
<1> QED BY <1>4, <1>5, <1>6, <1>8 DEF c

-----------------------------------------------------------------------------
(* Types.                                                                  *)
CallType == [folder : Folders, path : Seq(Folders), page : Nat \ {0}, last : Nat,
             own : Seq(Folders)]

FolderType == [path : Seq(Folders), key : Folders]

(* The folders that are in FoldersInfo.                                    *)
KeysSeen == {x.key : x \in Range(folders)}

(* The constants are what the assumptions say.                             *)
LEMMA ConstantTypes ==
    /\ Root \in Folders /\ Paths \cap Folders = {}
    /\ FetchPage \in Nat \ {0} /\ FirstPage \in Nat \ {0} /\ NextPage \in Nat \ {0}
    /\ NextPage <= FirstPage
    /\ MaxFaults \in Nat /\ MaxChanges \in Nat
    /\ IsFiniteSet(Paths) /\ KeyOf \in [Paths -> Keys] /\ BatchSize \in Nat \ {0}
  BY NetDiskAssumption, BatchAssumption

(* The innermost call.                                                     *)
LEMMA TopFacts ==
  ASSUME TypeOK, calls # <<>>
  PROVE  /\ calls \in Seq(CallType)
         /\ Top = calls[1] /\ Top \in CallType /\ 1 \in DOMAIN calls
         /\ DOMAIN calls = 1..Len(calls) /\ Len(calls) \in Nat \ {0}
         /\ PageSize \in Nat \ {0} /\ LastPageSize \in Nat \ {0}
<1>1. calls \in Seq(CallType)
  BY DEF TypeOK, CallType
<1>2. PageSize \in Nat \ {0} /\ LastPageSize \in Nat \ {0}
  BY ConstantTypes DEF PageSize, LastPageSize
<1> QED BY <1>1, <1>2, HeadTailFacts DEF Top

(* The three updates that ReadPage makes to the innermost call.            *)
Updated(cs, last, own) ==
    [cs EXCEPT ![1].page = @ + 1, ![1].last = last, ![1].own = @ \o own]

(* The same with the call as a record.                                     *)
Replaced(cs, top, last, own) ==
    [cs EXCEPT ![1] = [folder |-> top.folder, path |-> top.path, page |-> top.page + 1,
                       last |-> last, own |-> top.own \o own]]

(* What the three updates of ReadPage make of a call, as one record.       *)
LEMMA CallUpdate ==
  ASSUME NEW cs \in Seq(CallType), NEW n \in Nat \ {0}, DOMAIN cs = 1..n,
         NEW top, top = cs[1], top \in CallType, NEW last \in Nat, NEW own
  PROVE  Updated(cs, last, own) = Replaced(cs, top, last, own)
<1> DEFINE c == Updated(cs, last, own)
<1> DEFINE c1 == [cs EXCEPT ![1].page = @ + 1]
           c2 == [c1 EXCEPT ![1].last = last]
           c3 == [c2 EXCEPT ![1].own = @ \o own]
           r0 == [folder |-> top.folder, path |-> top.path, page |-> top.page, last |-> top.last, own |-> top.own]
           r1 == [folder |-> top.folder, path |-> top.path, page |-> top.page + 1, last |-> top.last, own |-> top.own]
           r2 == [folder |-> top.folder, path |-> top.path, page |-> top.page + 1, last |-> last, own |-> top.own]
           r3 == [folder |-> top.folder, path |-> top.path, page |-> top.page + 1, last |-> last, own |-> top.own \o own]
<1>1. c = c3
  BY DEF Updated
<1>z. top = r0
  BY DEF CallType
<1>y. [r0 EXCEPT !.page = @ + 1] = r1
  <2> DEFINE x == top.page + 1
  <2>1. r0.page = top.page OBVIOUS
  <2>2. [r0 EXCEPT !.page = x] = [folder |-> top.folder, path |-> top.path, page |-> x, last |-> top.last, own |-> top.own]
    <3> HIDE DEF x
    <3> QED OBVIOUS
  <2> HIDE DEF r0
  <2> QED BY <2>1, <2>2
<1>a. [top EXCEPT !.page = @ + 1] = r1
  <2> HIDE DEF r0, r1
  <2> QED BY <1>z, <1>y
<1>b. [r1 EXCEPT !.last = last] = r2
  OBVIOUS
<1>c. [r2 EXCEPT !.own = @ \o own] = r3
  <2> DEFINE x == top.own \o own
  <2>1. r2.own = top.own OBVIOUS
  <2>2. [r2 EXCEPT !.own = x] = [folder |-> top.folder, path |-> top.path, page |-> top.page + 1, last |-> last, own |-> x]
    <3> HIDE DEF x
    <3> QED OBVIOUS
  <2> HIDE DEF r2
  <2> QED BY <2>1, <2>2
<1>2. c1 = [cs EXCEPT ![1] = r1]
  <2> HIDE DEF r1
  <2> QED BY <1>a
<1>3. c1[1] = r1 /\ DOMAIN c1 = 1..n /\ \A j \in 1..n : j # 1 => c1[j] = cs[j]
  <2> HIDE DEF r1, c1
  <2> QED BY <1>2
<1>4. c2[1] = r2 /\ DOMAIN c2 = 1..n /\ \A j \in 1..n : j # 1 => c2[j] = cs[j]
  <2> HIDE DEF r1, c1, r2
  <2> QED BY <1>3, <1>b
<1>5. c3[1] = r3 /\ DOMAIN c3 = 1..n /\ \A j \in 1..n : j # 1 => c3[j] = cs[j]
  <2> HIDE DEF r1, c1, r2, c2, r3
  <2> QED BY <1>4, <1>c
<1> HIDE DEF r3
<1>6. c3 = [cs EXCEPT ![1] = r3]
  <2>1. c3 = [j \in 1..n |-> c3[j]]
    OBVIOUS
  <2> HIDE DEF c3
  <2> QED BY <1>5, <2>1
<1> HIDE DEF c, c3
<1> QED BY <1>1, <1>6 DEF r3, c, Replaced

(* What a record update makes of a call when it gets other sub-folders.    *)
LEMMA OwnUpdate ==
  ASSUME NEW top \in CallType, NEW own
  PROVE  [top EXCEPT !.own = own] = [folder |-> top.folder, path |-> top.path, page |-> top.page,
                                     last |-> top.last, own |-> own]
<1> DEFINE r0 == [folder |-> top.folder, path |-> top.path, page |-> top.page,
                  last |-> top.last, own |-> top.own]
<1>1. top = r0
  BY DEF CallType
<1>2. [r0 EXCEPT !.own = own] = [folder |-> top.folder, path |-> top.path, page |-> top.page,
                                 last |-> top.last, own |-> own]
  OBVIOUS
<1> HIDE DEF r0
<1> QED BY <1>1, <1>2

(* What appending a page does to the lists.                                *)
LEMMA ReadFacts ==
  ASSUME TypeOK, calls # <<>>, NEW entries \in Seq(Paths \cup Folders), NEW last \in Nat,
         ReadPage(entries, last)
  PROVE  /\ calls' \in Seq(CallType)
         /\ DOMAIN calls' = DOMAIN calls /\ Len(calls') = Len(calls)
         /\ \A k \in DOMAIN calls : k # 1 => calls'[k] = calls[k]
         /\ calls'[1] = [folder |-> Top.folder, path |-> Top.path, page |-> Top.page + 1,
                         last |-> last, own |-> Top.own \o FoldersIn(entries)]
         /\ FoldersIn(entries) \in Seq(Folders)
         /\ files' = files \o (IF program = "structs" THEN <<>> ELSE FilesIn(entries))
         /\ FilesIn(entries) \in Seq(Paths)
         /\ files' \in Seq(Paths) /\ folders' \in Seq(FolderType)
         /\ Range(files') = Range(files) \cup
                            (IF program = "structs" THEN {} ELSE Range(entries) \cap Paths)
         /\ Range(FoldersIn(entries)) = Range(entries) \cap Folders
         /\ KeysSeen' = KeysSeen \cup (Range(entries) \cap Folders)
<1> DEFINE own == FoldersIn(entries)
           more == IF program = "structs" THEN <<>> ELSE FilesIn(entries)
           put == [i \in DOMAIN own |-> [path |-> Append(Top.path, own[i]), key |-> own[i]]]
           new == [folder |-> Top.folder, path |-> Top.path, page |-> Top.page + 1,
                   last |-> last, own |-> Top.own \o own]
<1>1. /\ calls' = [calls EXCEPT ![1].page = @ + 1, ![1].last = last, ![1].own = @ \o own]
      /\ files' = files \o more
      /\ folders' = folders \o put
  BY DEF ReadPage
<1>2. /\ own \in Seq((Paths \cup Folders) \cap Folders) /\ Range(own) = Range(entries) \cap Folders
      /\ FilesIn(entries) \in Seq((Paths \cup Folders) \cap Paths)
      /\ Range(FilesIn(entries)) = Range(entries) \cap Paths
  BY SelectFacts DEF FoldersIn, FilesIn
<1>3. (Paths \cup Folders) \cap Folders = Folders /\ (Paths \cup Folders) \cap Paths = Paths
  OBVIOUS
<1>4. own \in Seq(Folders) /\ FilesIn(entries) \in Seq(Paths)
  BY <1>2, <1>3
<1>5. /\ calls \in Seq(CallType) /\ Top = calls[1] /\ Top \in CallType /\ 1 \in DOMAIN calls
      /\ DOMAIN calls = 1..Len(calls) /\ Len(calls) \in Nat \ {0}
  BY TopFacts
<1>6. Top.own \o own \in Seq(Folders)
  <2>1. Top.own \in Seq(Folders)
    BY <1>5 DEF CallType
  <2> HIDE DEF own
  <2> QED BY <1>4, <2>1, ConcatFacts
<1>7. new \in CallType
  BY <1>5, <1>6 DEF CallType
<1>8. calls' = [calls EXCEPT ![1] = new]
  <2> DEFINE n == Len(calls)
  <2>1. n \in Nat \ {0} /\ DOMAIN calls = 1..n
    BY <1>5
  <2>2. calls' = Updated(calls, last, own)
    BY <1>1 DEF Updated
  <2>3. Replaced(calls, Top, last, own) = [calls EXCEPT ![1] = new]
    BY DEF Replaced
  <2> HIDE DEF own, n, new
  <2>4. Updated(calls, last, own) = Replaced(calls, Top, last, own)
    BY <1>5, <2>1, CallUpdate
  <2> QED BY <2>2, <2>3, <2>4
<1> HIDE DEF new
<1>9. /\ calls' \in Seq(CallType) /\ Len(calls') = Len(calls)
      /\ \A j \in 1..Len(calls) : calls'[j] = IF j = 1 THEN new ELSE calls[j]
  BY <1>5, <1>7, <1>8, ExceptSeq
<1>10. DOMAIN calls' = DOMAIN calls
  BY <1>5, <1>9, LenProperties
<1>11. /\ more \in Seq(Paths)
       /\ Range(more) = IF program = "structs" THEN {} ELSE Range(entries) \cap Paths
  <2>1. <<>> \in Seq(Paths) /\ Range(<<>>) = {}
    BY DEF Range
  <2> QED BY <1>2, <1>4, <2>1
<1>12. put \in Seq(FolderType) /\ {x.key : x \in Range(put)} = Range(own)
  <2>1. DOMAIN own = 1..Len(own) /\ Len(own) \in Nat /\ \A i \in DOMAIN own : own[i] \in Folders
    BY <1>4, LenProperties, ElementOfSeq
  <2>2. Top.path \in Seq(Folders)
    BY <1>5 DEF CallType
  <2> HIDE DEF own
  <2>3. \A i \in DOMAIN own : Append(Top.path, own[i]) \in Seq(Folders)
    BY <2>1, <2>2, AppendProperties
  <2>4. put \in [1..Len(own) -> FolderType]
    BY <2>1, <2>3 DEF FolderType
  <2>5. put \in Seq(FolderType) /\ DOMAIN put = DOMAIN own
    BY <2>1, <2>4, SeqDef
  <2>6. \A i \in DOMAIN own : put[i].key = own[i]
    OBVIOUS
  <2> HIDE DEF put
  <2> QED BY <2>5, <2>6 DEF Range
<1>13. files \in Seq(Paths) /\ folders \in Seq(FolderType)
  BY DEF TypeOK, FolderType
<1> HIDE DEF more, put
<1>14. files' \in Seq(Paths) /\ Range(files') = Range(files) \cup Range(more)
  BY <1>1, <1>11, <1>13, ConcatFacts
<1>15. folders' \in Seq(FolderType) /\ Range(folders') = Range(folders) \cup Range(put)
  BY <1>1, <1>12, <1>13, ConcatFacts
<1>16. KeysSeen' = KeysSeen \cup Range(own)
  BY <1>12, <1>15 DEF KeysSeen
<1> QED
  BY <1>1, <1>2, <1>4, <1>5, <1>9, <1>10, <1>11, <1>14, <1>15, <1>16 DEF new, more

(* The empty page.                                                         *)
LEMMA NoEntries ==
    /\ <<>> \in Seq(Paths \cup Folders) /\ Range(<<>>) = {}
    /\ FoldersIn(<<>>) = <<>> /\ FilesIn(<<>>) = <<>>
<1>1. <<>> \in Seq(Paths \cup Folders) /\ Range(<<>>) = {}
  BY DEF Range
<1>2. ASSUME NEW S PROVE Select(<<>>, S) = <<>>
  <2> DEFINE s == Select(<<>>, S)
  <2>1. s \in Seq((Paths \cup Folders) \cap S) /\ Range(s) = {} \cap S
    <3> DEFINE e == <<>>
               U == Paths \cup Folders
    <3>1. e \in Seq(U) /\ Range(e) = {}
      BY <1>1
    <3> HIDE DEF e, U
    <3>2. Select(e, S) \in Seq(U \cap S) /\ Range(Select(e, S)) = Range(e) \cap S
      BY <3>1, SelectFacts
    <3> QED BY <3>1, <3>2 DEF e, U
  <2> HIDE DEF s
  <2>2. Len(s) \in Nat /\ \A i \in 1..Len(s) : s[i] \in Range(s)
    BY <2>1, LenProperties DEF Range
  <2>3. Len(s) = 0
    BY <2>1, <2>2
  <2> QED BY <2>1, <2>3 DEF s
<1> QED BY <1>1, <1>2 DEF FoldersIn, FilesIn

(* The page that arrives is a sequence of entries.                         *)
LEMMA ArrivingPage ==
  ASSUME TypeOK, calls # <<>>
  PROVE  /\ tree[Top.folder] \in Seq(Paths \cup Folders)
         /\ Page(tree[Top.folder], Top.page, PageSize) \in Seq(Paths \cup Folders)
         /\ Ceil(Len(tree[Top.folder]), LastPageSize) \in Nat
<1> DEFINE e == tree[Top.folder]
<1>1. /\ PageSize \in Nat \ {0} /\ LastPageSize \in Nat \ {0} /\ Top.folder \in Folders
      /\ Top.page \in Nat \ {0}
  BY TopFacts DEF CallType
<1>2. e \in Seq(Paths \cup Folders)
  BY <1>1 DEF TypeOK
<1> HIDE DEF e
<1>3. Page(e, Top.page, PageSize) \in Seq(Paths \cup Folders)
  BY <1>1, <1>2, PageFacts
<1>4. Ceil(Len(e), LastPageSize) \in Nat
  BY <1>1, <1>2, CeilFacts, LenProperties
<1> QED BY <1>2, <1>3, <1>4 DEF e

(* The calls after the recursive call is made, and after it returns.       *)
LEMMA DescendFacts ==
  ASSUME TypeOK, Descend
  PROVE  /\ calls # <<>> /\ Top.own # <<>> /\ Head(Top.own) \in Folders
         /\ calls' \in Seq(CallType)
         /\ DOMAIN calls' = 1..(Len(calls) + 1)
         /\ calls'[1] = Call(Head(Top.own), Append(Top.path, Head(Top.own)))
         /\ calls'[2] = [folder |-> Top.folder, path |-> Top.path, page |-> Top.page,
                         last |-> Top.last, own |-> Tail(Top.own)]
         /\ \A k \in 2..Len(calls) : calls'[k + 1] = calls[k]
<1> DEFINE d == Head(Top.own)
           inner == Call(d, Append(Top.path, d))
           outer == [Top EXCEPT !.own = Tail(@)]
<1>1. calls # <<>> /\ Top.own # <<>> /\ calls' = <<inner, outer>> \o Tail(calls)
  BY DEF Descend, Listing
<1>2. /\ calls \in Seq(CallType) /\ Top = calls[1] /\ Top \in CallType
      /\ DOMAIN calls = 1..Len(calls) /\ Len(calls) \in Nat \ {0}
  BY <1>1, TopFacts
<1>3. Top.own \in Seq(Folders) /\ Top.path \in Seq(Folders)
  BY <1>2 DEF CallType
<1>4. d \in Folders /\ Tail(Top.own) \in Seq(Folders)
  BY <1>1, <1>3, HeadTailFacts
<1>5. Append(Top.path, d) \in Seq(Folders)
  BY <1>3, <1>4, AppendProperties
<1>6. inner \in CallType
  BY <1>4, <1>5 DEF Call, CallType
<1>7. /\ outer = [folder |-> Top.folder, path |-> Top.path, page |-> Top.page,
                  last |-> Top.last, own |-> Tail(Top.own)]
      /\ outer \in CallType
  <2>1. outer = [Top EXCEPT !.own = Tail(Top.own)]
    OBVIOUS
  <2>2. outer = [folder |-> Top.folder, path |-> Top.path, page |-> Top.page,
                 last |-> Top.last, own |-> Tail(Top.own)]
    <3> HIDE DEF outer
    <3> QED BY <1>2, <2>1, OwnUpdate
  <2> HIDE DEF outer
  <2> QED BY <1>2, <1>4, <2>2 DEF CallType
<1>8. /\ Tail(calls) \in Seq(CallType) /\ Len(Tail(calls)) = Len(calls) - 1
      /\ \A i \in 1..(Len(calls) - 1) : Tail(calls)[i] = calls[i + 1]
  BY <1>1, <1>2, HeadTailFacts
<1> HIDE DEF inner, outer, d
<1>9. <<inner, outer>> \in Seq(CallType) /\ Len(<<inner, outer>>) = 2
      /\ <<inner, outer>>[1] = inner /\ <<inner, outer>>[2] = outer
  BY <1>6, <1>7
<1> DEFINE two == <<inner, outer>>
           n == Len(calls)
<1>10. /\ calls' = two \o Tail(calls) /\ two \in Seq(CallType) /\ Len(two) = 2
       /\ two[1] = inner /\ two[2] = outer /\ Len(Tail(calls)) = n - 1 /\ n \in Nat \ {0}
  BY <1>1, <1>2, <1>8, <1>9
<1> HIDE DEF two, n
<1>11. /\ calls' \in Seq(CallType) /\ Len(calls') = 2 + (n - 1)
       /\ \A i \in 1..(2 + (n - 1)) : calls'[i] = IF i <= 2 THEN two[i] ELSE Tail(calls)[i - 2]
  <2> DEFINE t == Tail(calls)
  <2>1. t \in Seq(CallType) /\ Len(t) = n - 1 /\ calls' = two \o t
    BY <1>8, <1>10
  <2> HIDE DEF t
  <2>2. /\ two \o t \in Seq(CallType) /\ Len(two \o t) = Len(two) + Len(t)
        /\ \A i \in 1..(Len(two) + Len(t)) : (two \o t)[i] = IF i <= Len(two) THEN two[i] ELSE t[i - Len(two)]
    BY <1>10, <2>1, ConcatProperties
  <2>3. Len(two) + Len(t) = 2 + (n - 1)
    BY <1>10, <2>1
  <2> QED BY <1>10, <2>1, <2>2, <2>3 DEF t
<1>12. DOMAIN calls' = 1..(n + 1)
  <2>1. DOMAIN calls' = 1..Len(calls')
    BY <1>11, LenProperties
  <2> QED BY <1>10, <1>11, <2>1
<1>13. calls'[1] = inner /\ calls'[2] = outer
  BY <1>10, <1>11
<1>14. ASSUME NEW k \in 2..n PROVE calls'[k + 1] = calls[k]
  <2>1. k + 1 \in 1..(2 + (n - 1)) /\ ~(k + 1 <= 2) /\ (k + 1) - 2 = k - 1 /\ k - 1 \in 1..(n - 1)
    BY <1>10
  <2>2. calls'[k + 1] = Tail(calls)[k - 1]
    BY <1>11, <2>1
  <2>3. Tail(calls)[k - 1] = calls[(k - 1) + 1] /\ (k - 1) + 1 = k
    BY <1>8, <1>10, <2>1 DEF n
  <2> QED BY <2>2, <2>3
<1> QED BY <1>1, <1>4, <1>7, <1>11, <1>12, <1>13, <1>14 DEF inner, d, n

(* The caller goes on.                                                     *)
LEMMA AscendFacts ==
  ASSUME TypeOK, Ascend
  PROVE  /\ calls # <<>> /\ Top.own = <<>>
         /\ calls' \in Seq(CallType)
         /\ DOMAIN calls' = 1..(Len(calls) - 1)
         /\ \A k \in 1..(Len(calls) - 1) : calls'[k] = calls[k + 1]
<1>1. calls # <<>> /\ Top.own = <<>> /\ calls' = Tail(calls) /\ calls \in Seq(CallType)
  BY DEF Ascend, Listing, TypeOK, CallType
<1> QED BY <1>1, HeadTailFacts

-----------------------------------------------------------------------------
(* The listing of fetch and sync while nobody changes the disk.            *)

(* The folders that are known, those still to be listed, and those whose   *)
(* listing has begun.                                                      *)
Seen == {Root} \cup KeysSeen
Pending == UNION {Range(calls[k].own) : k \in DOMAIN calls}
Begun == Seen \ Pending

(* The page of entry i of folder d has been asked for.                     *)
Passed(d, i) ==
    \A k \in DOMAIN calls : calls[k].folder = d => Ceil(i, FetchPage) < calls[k].page

(* Ids are unique on the disk, and no folder contains the root.            *)
TreeApart ==
    \A c, d \in Folders : \A i \in DOMAIN tree[c], j \in DOMAIN tree[d] :
        /\ tree[c][i] = tree[d][j] => c = d /\ i = j
        /\ tree[c][i] # Root

(* No folder is listed by two active calls, none has two callers, and the  *)
(* folders that wait are known but not begun.                              *)
StackApart ==
    /\ \A k \in DOMAIN calls :
          /\ calls[k].folder \in Begun
          /\ Range(calls[k].own) \subseteq KeysSeen
          /\ IsInjective(calls[k].own)
    /\ \A j, k \in DOMAIN calls :
          /\ calls[j].folder = calls[k].folder => j = k
          /\ Range(calls[j].own) \cap Range(calls[k].own) # {} => j = k

(* Only pages that were asked for are missed.                              *)
MissedPassed ==
    \A m \in missed :
        /\ m[1] \in Begun
        /\ \A k \in DOMAIN calls : calls[k].folder = m[1] => m[2] < calls[k].page

(* How many pages a call asks for.                                         *)
LastRight ==
    \A k \in DOMAIN calls :
        /\ calls[k].page = 1 => calls[k].last = 1
        /\ calls[k].page # 1 =>
              calls[k].last = IF <<calls[k].folder, 1>> \in missed THEN 0
                              ELSE Ceil(Len(tree[calls[k].folder]), FetchPage)

(* The entries that are listed are those of the pages that were read.      *)
ListedExactly ==
    \A d \in Folders : \A i \in DOMAIN tree[d] :
        Listed(tree[d][i]) <=> d \in Begun /\ Passed(d, i) /\ PageRead(d, i, FetchPage)

ListCore ==
    /\ StackApart
    /\ MissedPassed
    /\ LastRight
    /\ ListedExactly
    /\ IsInjective(files)

ListInv ==
    changes = 0 => /\ TreeApart
                   /\ program # "structs" => ListCore

(* What is listed is a known folder or a file of the list.                 *)
LEMMA ListedFacts == \A e : Listed(e) <=> e \in Seen \cup Range(files)
  BY DEF Listed, Seen, KeysSeen

(* The entries of a page that arrives are those of the folder with its     *)
(* number.                                                                 *)
LEMMA EntriesOfPage ==
  ASSUME TypeOK, calls # <<>>, TreeApart, program # "structs",
         NEW d \in Folders, NEW i \in DOMAIN tree[d]
  PROVE  tree[d][i] \in Range(Page(tree[Top.folder], Top.page, PageSize))
            <=> d = Top.folder /\ Ceil(i, FetchPage) = Top.page
<1> DEFINE f == Top.folder
           p == Top.page
           e == tree[f]
<1>1. f \in Folders /\ p \in Nat \ {0} /\ e \in Seq(Paths \cup Folders)
  BY TopFacts, ArrivingPage DEF CallType
<1>2. PageSize = FetchPage /\ FetchPage \in Nat \ {0}
  BY ConstantTypes DEF PageSize
<1> HIDE DEF p, e
<1>3. \A x : x \in Range(Page(e, p, FetchPage))
               <=> OnPage(x, e, p, FetchPage)
  <2> DEFINE U == Paths \cup Folders
             z == FetchPage
  <2>1. e \in Seq(U) /\ p \in Nat \ {0} /\ z \in Nat \ {0}
    BY <1>1, <1>2 DEF p
  <2> HIDE DEF U, z
  <2> QED BY <2>1, PageFacts DEF z
<1>4. \A j \in DOMAIN e : tree[d][i] = e[j] <=> d = f /\ i = j
  BY <1>1 DEF TreeApart, e
<1>5. tree[d][i] \in Range(Page(e, p, FetchPage)) <=> d = f /\ Ceil(i, FetchPage) = p
  <2>1. ASSUME tree[d][i] \in Range(Page(e, p, FetchPage))
        PROVE  d = f /\ Ceil(i, FetchPage) = p
    <3>1. PICK j \in DOMAIN e : tree[d][i] = e[j] /\ Ceil(j, FetchPage) = p
      BY <1>3, <2>1 DEF OnPage
    <3> QED BY <1>4, <3>1
  <2>2. ASSUME d = f, Ceil(i, FetchPage) = p
        PROVE  tree[d][i] \in Range(Page(e, p, FetchPage))
    <3>1. i \in DOMAIN e /\ tree[d][i] = e[i]
      BY <2>2 DEF e
    <3> QED BY <1>3, <2>2, <3>1 DEF OnPage
  <2> QED BY <2>1, <2>2
<1> QED BY <1>2, <1>5 DEF e, p

(* A page is appended: its entries are new, and the folders among them     *)
(* wait.                                                                   *)
LEMMA ReadStack ==
  ASSUME TypeOK, calls # <<>>, StackApart, IsInjective(files), program # "structs",
         NEW entries \in Seq(Paths \cup Folders), NEW last \in Nat, ReadPage(entries, last),
         IsInjective(entries), \A x \in Range(entries) : ~Listed(x)
  PROVE  /\ Begun' = Begun /\ Seen' = Seen \cup (Range(entries) \cap Folders)
         /\ DOMAIN calls' = DOMAIN calls
         /\ \A k \in DOMAIN calls : k # 1 => calls'[k] = calls[k]
         /\ calls'[1].folder = Top.folder /\ calls'[1].page = Top.page + 1
         /\ calls'[1].last = last
         /\ StackApart'
         /\ IsInjective(files')
         /\ \A x : Listed(x)' <=> Listed(x) \/ x \in Range(entries)
<1> DEFINE new == Range(entries) \cap Folders
           own == FoldersIn(entries)
           nown == Top.own \o own
<1>1. /\ DOMAIN calls' = DOMAIN calls
      /\ \A k \in DOMAIN calls : k # 1 => calls'[k] = calls[k]
      /\ calls'[1] = [folder |-> Top.folder, path |-> Top.path, page |-> Top.page + 1,
                      last |-> last, own |-> nown]
      /\ own \in Seq(Folders) /\ Range(own) = new
      /\ files' = files \o FilesIn(entries) /\ FilesIn(entries) \in Seq(Paths)
      /\ Range(files') = Range(files) \cup (Range(entries) \cap Paths)
      /\ KeysSeen' = KeysSeen \cup new
  BY ReadFacts
<1>2. /\ calls \in Seq(CallType) /\ Top = calls[1] /\ Top \in CallType /\ 1 \in DOMAIN calls
  BY TopFacts
<1>3. Top.own \in Seq(Folders) /\ Range(Top.own) \subseteq KeysSeen /\ IsInjective(Top.own)
  BY <1>2 DEF CallType, StackApart
<1>4. IsInjective(own) /\ IsInjective(FilesIn(entries)) /\ Range(FilesIn(entries)) = Range(entries) \cap Paths
  BY SelectFacts DEF FoldersIn, FilesIn
<1>5. new \cap Seen = {} /\ KeysSeen \subseteq Seen /\ Range(entries) \cap Range(files) = {}
  BY ListedFacts DEF Seen
<1>6. nown \in Seq(Folders) /\ Range(nown) = Range(Top.own) \cup new /\ IsInjective(nown)
  <2>1. Range(Top.own) \cap Range(own) = {}
    BY <1>1, <1>3, <1>5
  <2> HIDE DEF own
  <2> QED BY <1>1, <1>3, <1>4, <2>1, ConcatFacts
<1> HIDE DEF own, new, nown
<1>7. Seen' = Seen \cup new
  BY <1>1 DEF Seen
<1>8. calls'[1].own = nown /\ calls'[1].folder = Top.folder
      /\ calls'[1].page = Top.page + 1 /\ calls'[1].last = last
  BY <1>1
<1>9. \A k \in DOMAIN calls : Range(calls'[k].own) = Range(calls[k].own) \cup (IF k = 1 THEN new ELSE {})
  BY <1>1, <1>2, <1>6, <1>8
<1>10. Pending' = Pending \cup new
  <2>1. ASSUME NEW x \in Pending' PROVE x \in Pending \cup new
    <3>1. PICK k \in DOMAIN calls' : x \in Range(calls'[k].own)
      BY DEF Pending
    <3>2. k \in DOMAIN calls /\ (x \in Range(calls[k].own) \/ x \in new)
      BY <1>1, <1>9, <3>1
    <3> QED BY <3>2 DEF Pending
  <2>2. ASSUME NEW x \in Pending PROVE x \in Pending'
    <3>1. PICK k \in DOMAIN calls : x \in Range(calls[k].own)
      BY DEF Pending
    <3>2. x \in Range(calls'[k].own) /\ k \in DOMAIN calls'
      BY <1>1, <1>9, <3>1
    <3> QED BY <3>2 DEF Pending
  <2>3. ASSUME NEW x \in new PROVE x \in Pending'
    <3>1. 1 \in DOMAIN calls' /\ x \in Range(calls'[1].own)
      BY <1>1, <1>2, <1>9
    <3> QED BY <3>1 DEF Pending
  <2> QED BY <2>1, <2>2, <2>3
<1>11. Pending \subseteq Seen
  BY <1>5 DEF Pending, StackApart
<1>12. Begun' = Begun
  BY <1>5, <1>7, <1>10, <1>11 DEF Begun
<1>13. \A k \in DOMAIN calls : calls'[k].folder = calls[k].folder
  BY <1>1, <1>2, <1>8
<1>14. StackApart'
  <2>1. ASSUME NEW k \in DOMAIN calls'
        PROVE  /\ calls'[k].folder \in Begun'
               /\ Range(calls'[k].own) \subseteq KeysSeen'
               /\ IsInjective(calls'[k].own)
    <3>1. calls'[k].folder \in Begun'
      BY <1>1, <1>12, <1>13 DEF StackApart
    <3>2. Range(calls'[k].own) \subseteq KeysSeen'
      BY <1>1, <1>9 DEF StackApart
    <3>3. IsInjective(calls'[k].own)
      BY <1>1, <1>6, <1>8 DEF StackApart
    <3> QED BY <3>1, <3>2, <3>3
  <2>2. ASSUME NEW j \in DOMAIN calls', NEW k \in DOMAIN calls'
        PROVE  /\ calls'[j].folder = calls'[k].folder => j = k
               /\ Range(calls'[j].own) \cap Range(calls'[k].own) # {} => j = k
    <3>1. j \in DOMAIN calls /\ k \in DOMAIN calls
      BY <1>1
    <3>2. calls'[j].folder = calls'[k].folder => j = k
      BY <1>13, <3>1 DEF StackApart
    <3>3. ASSUME j # k PROVE Range(calls'[j].own) \cap Range(calls'[k].own) = {}
      <4> DEFINE A == Range(calls[j].own)
                 B == Range(calls[k].own)
      <4>1. A \cap B = {} /\ A \subseteq KeysSeen /\ B \subseteq KeysSeen
        BY <3>1, <3>3 DEF StackApart
      <4>2. /\ Range(calls'[j].own) = A \cup (IF j = 1 THEN new ELSE {})
            /\ Range(calls'[k].own) = B \cup (IF k = 1 THEN new ELSE {})
        BY <1>9, <3>1
      <4> HIDE DEF A, B
      <4> QED BY <1>5, <3>3, <4>1, <4>2
    <3> QED BY <3>2, <3>3
  <2> QED BY <2>1, <2>2 DEF StackApart
<1>15. IsInjective(files')
  <2>1. files \in Seq(Paths)
    BY DEF TypeOK
  <2>2. Range(files) \cap Range(FilesIn(entries)) = {}
    BY <1>4, <1>5
  <2> QED BY <1>1, <1>4, <2>1, <2>2, ConcatFacts
<1>16. \A x : Listed(x)' <=> Listed(x) \/ x \in Range(entries)
  <2>1. Range(entries) \subseteq Paths \cup Folders
    BY RangeOfSeq
  <2>2. \A x : Listed(x)' <=> x \in Seen' \cup Range(files')
    BY DEF Listed, Seen, KeysSeen
  <2>3. Seen' \cup Range(files') = (Seen \cup Range(files)) \cup Range(entries)
    BY <1>1, <1>7, <2>1 DEF new
  <2> QED BY <2>2, <2>3, ListedFacts
<1> QED BY <1>1, <1>7, <1>8, <1>12, <1>14, <1>15, <1>16 DEF new

(* The types of the active calls.                                          *)
LEMMA CallsTyped ==
  ASSUME TypeOK, NEW k \in DOMAIN calls
  PROVE  /\ calls[k] \in CallType
         /\ calls[k].folder \in Folders /\ calls[k].page \in Nat \ {0} /\ calls[k].last \in Nat
         /\ calls[k].own \in Seq(Folders) /\ calls[k].path \in Seq(Folders)
<1>1. calls \in Seq(CallType)
  BY DEF TypeOK, CallType
<1>2. calls[k] \in CallType
  BY <1>1, LenProperties, ElementOfSeq
<1> QED BY <1>2 DEF CallType

(* After a page of the innermost call, Passed differs for its folder only. *)
LEMMA PassedFacts ==
  ASSUME TypeOK, calls # <<>>, StackApart,
         DOMAIN calls' = DOMAIN calls,
         \A k \in DOMAIN calls : k # 1 => calls'[k] = calls[k],
         calls'[1].folder = Top.folder, calls'[1].page = Top.page + 1,
         NEW d \in Folders, NEW i \in Nat \ {0}
  PROVE  /\ d # Top.folder => (Passed(d, i)' <=> Passed(d, i))
         /\ d = Top.folder => /\ Passed(d, i) <=> Ceil(i, FetchPage) < Top.page
                              /\ Passed(d, i)' <=> Ceil(i, FetchPage) <= Top.page
<1> DEFINE c == Ceil(i, FetchPage)
<1>1. /\ Top = calls[1] /\ Top.page \in Nat \ {0} /\ 1 \in DOMAIN calls
      /\ \A k \in DOMAIN calls : calls[k].page \in Nat \ {0}
  BY TopFacts, CallsTyped DEF CallType
<1>2. c \in Nat
  BY ConstantTypes, CeilFacts
<1>3. \A k \in DOMAIN calls : calls[k].folder = Top.folder <=> k = 1
  BY <1>1 DEF StackApart
<1>4. \A k \in DOMAIN calls : calls'[k].folder = calls[k].folder
  BY <1>1
<1>5. Passed(d, i)' <=> \A k \in DOMAIN calls' : calls'[k].folder = d => c < calls'[k].page
  BY DEF Passed
<1>6. Passed(d, i) <=> \A k \in DOMAIN calls : calls[k].folder = d => c < calls[k].page
  BY DEF Passed
<1> HIDE DEF c
<1>7. ASSUME d # Top.folder PROVE Passed(d, i)' <=> Passed(d, i)
  <2>1. \A k \in DOMAIN calls : calls[k].folder = d => k # 1
    BY <1>3, <1>7
  <2> QED BY <1>4, <1>5, <1>6, <2>1
<1>8. ASSUME d = Top.folder
      PROVE  /\ Passed(d, i) <=> c < Top.page
             /\ Passed(d, i)' <=> c <= Top.page
  <2>1. Passed(d, i) <=> c < Top.page
    BY <1>1, <1>3, <1>6, <1>8
  <2>2. Passed(d, i)' <=> c < Top.page + 1
    BY <1>1, <1>3, <1>4, <1>5, <1>8
  <2> QED BY <1>1, <1>2, <2>1, <2>2
<1> QED BY <1>7, <1>8 DEF c

(* No page of the innermost call is missed that it has not asked for, and  *)
(* if it asks for a further one, the first was not missed.                 *)
LEMMA NotMissed ==
  ASSUME TypeOK, calls # <<>>, MissedPassed, LastRight, MorePages
  PROVE  /\ <<Top.folder, Top.page>> \notin missed
         /\ <<Top.folder, 1>> \notin missed
<1>1. /\ Top = calls[1] /\ Top.page \in Nat \ {0} /\ 1 \in DOMAIN calls
      /\ Top.page <= Top.last
  BY TopFacts DEF CallType, MorePages
<1>2. ASSUME NEW n \in Nat, <<Top.folder, n>> \in missed PROVE n < Top.page
  <2> DEFINE m == <<Top.folder, n>>
  <2>1. m \in missed /\ m[1] = Top.folder /\ m[2] = n
    BY <1>2
  <2> HIDE DEF m
  <2> QED BY <1>1, <2>1 DEF MissedPassed
<1>3. <<Top.folder, Top.page>> \notin missed
  BY <1>1, <1>2
<1>4. ASSUME <<Top.folder, 1>> \in missed PROVE FALSE
  <2>1. Top.page # 1
    BY <1>2, <1>4
  <2>2. Top.last = 0
    BY <1>1, <1>4, <2>1 DEF LastRight
  <2> QED BY <1>1, <2>2
<1> QED BY <1>3, <1>4

(* What LastRight says of the calls that a page does not touch, and of the *)
(* one it does.                                                            *)
LEMMA LastStep ==
  ASSUME TypeOK, calls # <<>>, StackApart, LastRight, UNCHANGED tree,
         DOMAIN calls' = DOMAIN calls,
         \A k \in DOMAIN calls : k # 1 => calls'[k] = calls[k],
         calls'[1].folder = Top.folder, calls'[1].page = Top.page + 1,
         missed \subseteq missed',
         \A m \in missed' : m \in missed \/ m = <<Top.folder, Top.page>>,
         calls'[1].last = IF Top.page > 1 THEN Top.last
                          ELSE IF <<Top.folder, 1>> \in missed' THEN 0
                          ELSE Ceil(Len(tree[Top.folder]), FetchPage)
  PROVE  LastRight'
<1>1. /\ Top = calls[1] /\ Top.page \in Nat \ {0} /\ 1 \in DOMAIN calls
      /\ \A k \in DOMAIN calls : calls[k].page \in Nat \ {0}
  BY TopFacts, CallsTyped DEF CallType
<1> SUFFICES ASSUME NEW k \in DOMAIN calls
             PROVE  /\ calls'[k].page = 1 => calls'[k].last = 1
                    /\ calls'[k].page # 1 =>
                          calls'[k].last = IF <<calls'[k].folder, 1>> \in missed' THEN 0
                                           ELSE Ceil(Len(tree'[calls'[k].folder]), FetchPage)
  BY DEF LastRight
<1>2. CASE k # 1
  <2>1. calls'[k] = calls[k] /\ calls[k].folder # Top.folder
    BY <1>1, <1>2 DEF StackApart
  <2>2. <<calls[k].folder, 1>> \in missed' <=> <<calls[k].folder, 1>> \in missed
    BY <2>1
  <2> QED BY <2>1, <2>2 DEF LastRight
<1>3. CASE k = 1
  <2>1. calls'[1].page # 1 /\ calls'[1].folder = Top.folder
    BY <1>1
  <2>2. CASE Top.page = 1
    BY <1>3, <2>1, <2>2
  <2>3. CASE Top.page # 1
    <3>1. Top.page > 1
      BY <1>1, <2>3
    <3>2. Top.last = IF <<Top.folder, 1>> \in missed THEN 0
                     ELSE Ceil(Len(tree[Top.folder]), FetchPage)
      BY <1>1, <2>3 DEF LastRight
    <3>3. <<Top.folder, 1>> \in missed' <=> <<Top.folder, 1>> \in missed
      <4>1. <<Top.folder, 1>> # <<Top.folder, Top.page>>
        BY <2>3
      <4> QED BY <4>1
    <3> QED BY <1>3, <2>1, <3>1, <3>2, <3>3
  <2> QED BY <2>2, <2>3
<1> QED BY <1>2, <1>3

(* What was missed stays behind the calls that go on.                      *)
LEMMA MissedStep ==
  ASSUME TypeOK, calls # <<>>, StackApart, MissedPassed, Begun' = Begun,
         DOMAIN calls' = DOMAIN calls,
         \A k \in DOMAIN calls : k # 1 => calls'[k] = calls[k],
         calls'[1].folder = Top.folder, calls'[1].page = Top.page + 1,
         \A m \in missed' : m \in missed \/ m = <<Top.folder, Top.page>>
  PROVE  MissedPassed'
<1>1. /\ Top = calls[1] /\ Top.page \in Nat \ {0} /\ 1 \in DOMAIN calls
      /\ \A k \in DOMAIN calls : calls[k].page \in Nat \ {0}
      /\ Top.folder \in Begun
  BY TopFacts, CallsTyped DEF CallType, StackApart
<1> SUFFICES ASSUME NEW m \in missed'
             PROVE  /\ m[1] \in Begun
                    /\ \A k \in DOMAIN calls : calls'[k].folder = m[1] => m[2] < calls'[k].page
  BY DEF MissedPassed
<1>2. CASE m \in missed
  <2>1. m[1] \in Begun /\ \A k \in DOMAIN calls : calls[k].folder = m[1] => m[2] < calls[k].page
    BY <1>2 DEF MissedPassed
  <2>2. m[2] \in Nat
    BY <1>2 DEF TypeOK
  <2>3. calls'[1].folder = m[1] => m[2] < calls'[1].page
    BY <1>1, <2>1, <2>2
  <2> QED BY <2>1, <2>3
<1>3. CASE m = <<Top.folder, Top.page>>
  <2>1. m[1] = Top.folder /\ m[2] = Top.page
    BY <1>3
  <2>2. \A k \in DOMAIN calls : calls'[k].folder = m[1] => k = 1
    BY <1>1, <2>1 DEF StackApart
  <2>3. Top.page < calls'[1].page
    BY <1>1
  <2> HIDE <1>3
  <2> QED BY <1>1, <2>1, <2>2, <2>3
<1> QED BY <1>2, <1>3

(* A listing arrives.                                                      *)
LEMMA PageArrivesCore ==
  ASSUME TypeOK, TreeApart, ListCore, program # "structs", PageArrives
  PROVE  ListCore'
<1> DEFINE f == Top.folder
           p == Top.page
           entries == Page(tree[f], p, PageSize)
           last == IF p > 1 THEN Top.last ELSE Ceil(Len(tree[f]), LastPageSize)
<1>1. /\ calls # <<>> /\ MorePages /\ ReadPage(entries, last)
      /\ UNCHANGED <<tree, missed, program>>
  BY DEF PageArrives, Listing, diskVars, startVars
<1>2. entries \in Seq(Paths \cup Folders) /\ last \in Nat /\ LastPageSize = FetchPage
      /\ f \in Folders /\ p \in Nat \ {0} /\ tree[f] \in Seq(Paths \cup Folders)
  BY <1>1, TopFacts, ArrivingPage DEF CallType, LastPageSize
<1>3. <<f, p>> \notin missed /\ <<f, 1>> \notin missed
  BY <1>1, NotMissed DEF ListCore
<1>4. StackApart /\ MissedPassed /\ LastRight /\ ListedExactly /\ IsInjective(files)
  BY DEF ListCore
<1>5. \A d \in Folders : \A i \in DOMAIN tree[d] : i \in Nat \ {0} /\ Ceil(i, FetchPage) \in Nat
  <2> SUFFICES ASSUME NEW d \in Folders, NEW i \in DOMAIN tree[d]
               PROVE  i \in Nat \ {0} /\ Ceil(i, FetchPage) \in Nat
    OBVIOUS
  <2>1. tree[d] \in Seq(Paths \cup Folders)
    BY DEF TypeOK
  <2>2. i \in Nat \ {0}
    BY <2>1, LenProperties
  <2> QED BY <2>2, ConstantTypes, CeilFacts
<1>6. \A d \in Folders : \A i \in DOMAIN tree[d] :
         tree[d][i] \in Range(entries) <=> d = f /\ Ceil(i, FetchPage) = p
  BY <1>1, EntriesOfPage
<1>8. \A i \in DOMAIN tree[f] : Passed(f, i) => Ceil(i, FetchPage) < p
  <2>1. Top = calls[1] /\ 1 \in DOMAIN calls
    BY <1>1, TopFacts
  <2> QED BY <2>1 DEF Passed
<1>9. \A x \in Range(entries) : \E i \in DOMAIN tree[f] : x = tree[f][i] /\ Ceil(i, FetchPage) = p
  <2> DEFINE e == tree[f]
             U == Paths \cup Folders
             z == PageSize
  <2>1. e \in Seq(U) /\ z \in Nat \ {0} /\ z = FetchPage
    BY <1>1, <1>2, TopFacts DEF PageSize
  <2>2. p \in Nat \ {0}
    BY <1>2
  <2> HIDE DEF e, U, z, p
  <2>3. \A x : x \in Range(Page(e, p, z)) <=> OnPage(x, e, p, z)
    BY <2>1, <2>2, PageFacts
  <2> QED BY <2>1, <2>3 DEF e, z, p, OnPage
<1> HIDE DEF entries, last
<1>10. \A x \in Range(entries) : ~Listed(x)
  <2> SUFFICES ASSUME NEW x \in Range(entries), Listed(x) PROVE FALSE
    OBVIOUS
  <2>1. PICK i \in DOMAIN tree[f] : x = tree[f][i] /\ Ceil(i, FetchPage) = p
    BY <1>9
  <2>2. Passed(f, i)
    BY <1>2, <1>4, <2>1 DEF ListedExactly
  <2> QED BY <1>2, <1>8, <2>1, <2>2
<1>11. IsInjective(entries)
  <2> DEFINE e == tree[f]
             U == Paths \cup Folders
             z == PageSize
  <2>1. e \in Seq(U) /\ z \in Nat \ {0}
    BY <1>1, <1>2, TopFacts
  <2>2. IsInjective(e)
    BY <1>2 DEF IsInjective, TreeApart
  <2> HIDE DEF e, U, z
  <2>3. IsInjective(Page(e, p, z))
    BY <1>2, <2>1, <2>2, PageFacts
  <2> QED BY <2>3 DEF e, z, entries
<1>12. /\ Begun' = Begun
       /\ DOMAIN calls' = DOMAIN calls
       /\ \A k \in DOMAIN calls : k # 1 => calls'[k] = calls[k]
       /\ calls'[1].folder = f /\ calls'[1].page = p + 1 /\ calls'[1].last = last
       /\ StackApart' /\ IsInjective(files')
       /\ \A x : Listed(x)' <=> Listed(x) \/ x \in Range(entries)
  BY <1>1, <1>2, <1>4, <1>10, <1>11, ReadStack
<1>13. MissedPassed'
  BY <1>1, <1>4, <1>12, MissedStep
<1>14. LastRight'
  <2>1. last = IF p > 1 THEN Top.last ELSE IF <<f, 1>> \in missed' THEN 0 ELSE Ceil(Len(tree[f]), FetchPage)
    BY <1>1, <1>2, <1>3 DEF last
  <2> QED BY <1>1, <1>4, <1>12, <2>1, LastStep
<1>15. ListedExactly'
  <2> SUFFICES ASSUME NEW d \in Folders, NEW i \in DOMAIN tree[d]
               PROVE  Listed(tree[d][i])' <=> d \in Begun' /\ Passed(d, i)' /\ PageRead(d, i, FetchPage)'
    BY <1>1 DEF ListedExactly
  <2> DEFINE x == tree[d][i]
  <2>1. /\ Listed(x)' <=> Listed(x) \/ x \in Range(entries)
        /\ Listed(x) <=> d \in Begun /\ Passed(d, i) /\ PageRead(d, i, FetchPage)
        /\ x \in Range(entries) <=> d = f /\ Ceil(i, FetchPage) = p
        /\ PageRead(d, i, FetchPage)' <=> PageRead(d, i, FetchPage)
        /\ Ceil(i, FetchPage) \in Nat
    BY <1>1, <1>4, <1>5, <1>6, <1>12 DEF ListedExactly, PageRead
  <2>2. Listed(tree[d][i])' <=> Listed(x)'
    BY <1>1 DEF Listed
  <2>3. /\ d # f => (Passed(d, i)' <=> Passed(d, i))
        /\ d = f => /\ Passed(d, i) <=> Ceil(i, FetchPage) < p
                    /\ Passed(d, i)' <=> Ceil(i, FetchPage) <= p
    <3>1. i \in Nat \ {0}
      BY <1>5
    <3> QED BY <1>1, <1>4, <1>12, <3>1, PassedFacts
  <2>4. d = f /\ Ceil(i, FetchPage) = p => PageRead(d, i, FetchPage) /\ d \in Begun
    <3>1. f \in Begun
      BY <1>1, <1>4, TopFacts DEF StackApart
    <3> QED BY <1>3, <3>1 DEF PageRead
  <2> HIDE DEF x
  <2>5. CASE d # f
    BY <1>12, <2>1, <2>2, <2>3, <2>5
  <2>6. CASE d = f
    <3>1. Ceil(i, FetchPage) <= p <=> Ceil(i, FetchPage) < p \/ Ceil(i, FetchPage) = p
      BY <1>2, <2>1
    <3> QED BY <1>12, <2>1, <2>2, <2>3, <2>4, <2>6, <3>1
  <2> QED BY <2>5, <2>6
<1> QED BY <1>12, <1>13, <1>14, <1>15 DEF ListCore

(* No listing for a page: it is missed, with all its entries, and if it is *)
(* the first the folder is taken to be empty.                              *)
LEMMA MissedCore ==
  ASSUME TypeOK, ListCore, program # "structs", calls # <<>>,
         ReadPage(<<>>, IF Top.page > 1 THEN Top.last ELSE 0),
         missed' = missed \cup {<<Top.folder, Top.page>>}, UNCHANGED <<tree, program>>
  PROVE  ListCore'
<1> DEFINE f == Top.folder
           p == Top.page
           none == <<>>
           last == IF p > 1 THEN Top.last ELSE 0
<1>1. none \in Seq(Paths \cup Folders) /\ Range(none) = {} /\ IsInjective(none)
  BY NoEntries DEF IsInjective
<1>2. f \in Folders /\ p \in Nat \ {0} /\ last \in Nat
  BY TopFacts DEF CallType
<1>3. StackApart /\ MissedPassed /\ LastRight /\ ListedExactly /\ IsInjective(files)
  BY DEF ListCore
<1>4. ReadPage(none, last) /\ \A x \in Range(none) : ~Listed(x)
  BY <1>1
<1> HIDE DEF none, last
<1>5. /\ Begun' = Begun
      /\ DOMAIN calls' = DOMAIN calls
      /\ \A k \in DOMAIN calls : k # 1 => calls'[k] = calls[k]
      /\ calls'[1].folder = f /\ calls'[1].page = p + 1 /\ calls'[1].last = last
      /\ StackApart' /\ IsInjective(files')
      /\ \A x : Listed(x)' <=> Listed(x) \/ x \in Range(none)
  BY <1>1, <1>2, <1>3, <1>4, ReadStack
<1>6. MissedPassed'
  BY <1>3, <1>5, MissedStep
<1>7. LastRight'
  <2>1. last = IF p > 1 THEN Top.last ELSE IF <<f, 1>> \in missed' THEN 0 ELSE Ceil(Len(tree[f]), FetchPage)
    BY <1>2 DEF last
  <2> QED BY <1>3, <1>5, <2>1, LastStep
<1>8. ListedExactly'
  <2> SUFFICES ASSUME NEW d \in Folders, NEW i \in DOMAIN tree[d]
               PROVE  Listed(tree[d][i])' <=> d \in Begun' /\ Passed(d, i)' /\ PageRead(d, i, FetchPage)'
    BY DEF ListedExactly
  <2> DEFINE x == tree[d][i]
             c == Ceil(i, FetchPage)
  <2>1. i \in Nat \ {0} /\ c \in Nat \ {0}
    <3>1. tree[d] \in Seq(Paths \cup Folders)
      BY DEF TypeOK
    <3>2. i \in Nat \ {0}
      BY <3>1, LenProperties
    <3> QED BY <3>2, ConstantTypes, PageNumber
  <2>2. /\ Listed(x)' <=> Listed(x)
        /\ Listed(x) <=> d \in Begun /\ Passed(d, i) /\ PageRead(d, i, FetchPage)
    BY <1>1, <1>3, <1>5 DEF ListedExactly
  <2>3. Listed(tree[d][i])' <=> Listed(x)'
    BY DEF Listed
  <2>4. /\ d # f => (Passed(d, i)' <=> Passed(d, i))
        /\ d = f => /\ Passed(d, i) <=> c < p
                    /\ Passed(d, i)' <=> c <= p
    BY <1>3, <1>5, <2>1, PassedFacts
  <2>5. /\ PageRead(d, i, FetchPage) <=> <<d, 1>> \notin missed /\ <<d, c>> \notin missed
        /\ PageRead(d, i, FetchPage)' <=> <<d, 1>> \notin missed' /\ <<d, c>> \notin missed'
    BY DEF PageRead
  <2> HIDE DEF x, c
  <2>6. CASE d # f
    <3>1. \A n : <<d, n>> \in missed' <=> <<d, n>> \in missed
      BY <2>6
    <3> QED BY <1>5, <2>2, <2>3, <2>4, <2>5, <2>6, <3>1
  <2>7. CASE d = f
    <3>1. \A n : <<d, n>> \in missed' <=> <<d, n>> \in missed \/ n = p
      BY <2>7
    <3> HIDE DEF p
    <3>2. (c < p /\ <<d, 1>> \notin missed /\ <<d, c>> \notin missed)
            <=> (c <= p /\ <<d, 1>> \notin missed' /\ <<d, c>> \notin missed')
      BY <1>2, <2>1, <3>1
    <3> QED BY <1>5, <2>2, <2>3, <2>4, <2>5, <2>7, <3>2
  <2> QED BY <2>6, <2>7
<1> QED BY <1>5, <1>6, <1>7, <1>8 DEF ListCore

(* The recursive call: the first folder that waits is begun.               *)
LEMMA DescendCore ==
  ASSUME TypeOK, ListCore, Descend
  PROVE  ListCore'
<1> DEFINE d == Head(Top.own)
           n == Len(calls)
           wait(k) == Range(calls[k].own)
<1>1. /\ calls # <<>> /\ Top.own # <<>> /\ d \in Folders
      /\ DOMAIN calls' = 1..(n + 1)
      /\ calls'[1] = Call(d, Append(Top.path, d))
      /\ calls'[2] = [folder |-> Top.folder, path |-> Top.path, page |-> Top.page,
                      last |-> Top.last, own |-> Tail(Top.own)]
      /\ \A k \in 2..n : calls'[k + 1] = calls[k]
      /\ UNCHANGED <<tree, missed, program, files, folders>>
  BY DescendFacts DEF Descend, diskVars, startVars
<1>2. Top = calls[1] /\ DOMAIN calls = 1..n /\ n \in Nat \ {0} /\ 1 \in 1..n
  BY <1>1, TopFacts
<1>3. Top.own \in Seq(Folders) /\ IsInjective(Top.own)
  BY <1>2, CallsTyped DEF ListCore, StackApart
<1>4. /\ wait(1) = {d} \cup Range(Tail(Top.own)) /\ d \notin Range(Tail(Top.own))
      /\ IsInjective(Tail(Top.own))
  BY <1>1, <1>2, <1>3, HeadTailFacts
<1>5. /\ \A k \in 1..n : /\ calls[k].folder \in Begun
                         /\ wait(k) \subseteq KeysSeen /\ IsInjective(calls[k].own)
      /\ \A j, k \in 1..n : calls[j].folder = calls[k].folder => j = k
      /\ \A j, k \in 1..n : wait(j) \cap wait(k) # {} => j = k
  BY <1>2 DEF ListCore, StackApart
<1>6. /\ calls'[1].folder = d /\ calls'[1].page = 1 /\ calls'[1].last = 1 /\ calls'[1].own = <<>>
      /\ calls'[2].folder = calls[1].folder /\ calls'[2].page = calls[1].page
      /\ calls'[2].last = calls[1].last /\ calls'[2].own = Tail(Top.own)
  BY <1>1, <1>2 DEF Call
<1>7. \A k \in 2..(n + 1) : /\ k - 1 \in 1..n
                            /\ calls'[k].folder = calls[k - 1].folder
                            /\ calls'[k].page = calls[k - 1].page
                            /\ calls'[k].last = calls[k - 1].last
                            /\ calls'[k].own = IF k = 2 THEN Tail(Top.own) ELSE calls[k - 1].own
  <2> SUFFICES ASSUME NEW k \in 2..(n + 1)
               PROVE  /\ k - 1 \in 1..n
                      /\ calls'[k].folder = calls[k - 1].folder
                      /\ calls'[k].page = calls[k - 1].page
                      /\ calls'[k].last = calls[k - 1].last
                      /\ calls'[k].own = IF k = 2 THEN Tail(Top.own) ELSE calls[k - 1].own
    OBVIOUS
  <2>1. CASE k = 2
    BY <1>2, <1>6, <2>1
  <2>2. CASE k # 2
    <3>1. k - 1 \in 2..n /\ (k - 1) + 1 = k /\ k - 1 \in 1..n
      BY <1>2, <2>2
    <3>2. calls'[(k - 1) + 1] = calls[k - 1]
      BY <1>1, <3>1
    <3>3. calls'[k] = calls[k - 1]
      BY <3>1, <3>2
    <3> QED BY <2>2, <3>1, <3>3
  <2> QED BY <2>1, <2>2
<1>8. \A k \in 1..n : /\ k + 1 \in 2..(n + 1)
                      /\ calls'[k + 1].folder = calls[k].folder
                      /\ calls'[k + 1].page = calls[k].page
                      /\ Range(calls'[k + 1].own) = wait(k) \ {d}
  <2> SUFFICES ASSUME NEW k \in 1..n
               PROVE  /\ k + 1 \in 2..(n + 1)
                      /\ calls'[k + 1].folder = calls[k].folder
                      /\ calls'[k + 1].page = calls[k].page
                      /\ Range(calls'[k + 1].own) = wait(k) \ {d}
    OBVIOUS
  <2>1. k + 1 \in 2..(n + 1) /\ (k + 1) - 1 = k
    BY <1>2
  <2>2. /\ calls'[k + 1].folder = calls[k].folder /\ calls'[k + 1].page = calls[k].page
        /\ calls'[k + 1].own = IF k = 1 THEN Tail(Top.own) ELSE calls[k].own
    BY <1>7, <2>1
  <2>3. CASE k = 1
    BY <1>4, <2>1, <2>2, <2>3
  <2>4. CASE k # 1
    <3>1. wait(1) \cap wait(k) = {}
      BY <1>2, <1>5, <2>4
    <3>2. d \notin wait(k)
      BY <1>4, <3>1
    <3> QED BY <2>1, <2>2, <2>4, <3>2
  <2> QED BY <2>3, <2>4
<1>9. Seen' = Seen /\ KeysSeen' = KeysSeen
  BY <1>1 DEF Seen, KeysSeen
<1>10. d \in Pending /\ d \in Seen
  <2>1. d \in wait(1)
    BY <1>4
  <2> QED BY <1>2, <1>5, <2>1 DEF Pending, Seen
<1>11. Pending' = Pending \ {d}
  <2>1. ASSUME NEW x \in Pending' PROVE x \in Pending \ {d}
    <3>1. PICK k \in 1..(n + 1) : x \in Range(calls'[k].own)
      BY <1>1 DEF Pending
    <3>2. k # 1
      <4>1. Range(<<>>) = {}
        BY NoEntries
      <4> QED BY <1>6, <3>1, <4>1
    <3>3. k - 1 \in 1..n /\ (k - 1) + 1 = k
      BY <1>2, <3>2
    <3>4. x \in wait(k - 1) \ {d}
      BY <1>8, <3>1, <3>3
    <3> QED BY <1>2, <3>3, <3>4 DEF Pending
  <2>2. ASSUME NEW x \in Pending \ {d} PROVE x \in Pending'
    <3>1. PICK k \in 1..n : x \in wait(k)
      BY <1>2 DEF Pending
    <3>2. k + 1 \in 1..(n + 1) /\ x \in Range(calls'[k + 1].own)
      BY <1>2, <1>8, <2>2, <3>1
    <3> QED BY <1>1, <3>2 DEF Pending
  <2> QED BY <2>1, <2>2
<1> HIDE DEF d, n, wait
<1>12. Begun' = Begun \cup {d} /\ d \notin Begun
  BY <1>9, <1>10, <1>11 DEF Begun
<1>13. \A k \in 1..n : calls[k].folder # d
  BY <1>5, <1>12
<1>14. StackApart'
  <2>1. ASSUME NEW k \in 1..(n + 1)
        PROVE  /\ calls'[k].folder \in Begun'
               /\ Range(calls'[k].own) \subseteq KeysSeen'
               /\ IsInjective(calls'[k].own)
    <3>1. CASE k = 1
      <4>1. Range(<<>>) = {} /\ IsInjective(<<>>)
        BY NoEntries DEF IsInjective
      <4> QED BY <1>6, <1>12, <3>1, <4>1
    <3>2. CASE k # 1
      <4>1. k \in 2..(n + 1) /\ k - 1 \in 1..n /\ (k - 1) + 1 = k
        BY <1>2, <3>2
      <4>2. calls'[k].folder = calls[k - 1].folder /\ Range(calls'[k].own) = wait(k - 1) \ {d}
        BY <1>8, <4>1
      <4>3. IsInjective(calls'[k].own)
        BY <1>4, <1>5, <1>7, <4>1
      <4> QED BY <1>5, <1>9, <1>12, <4>1, <4>2, <4>3
    <3> QED BY <3>1, <3>2
  <2>2. ASSUME NEW j \in 1..(n + 1), NEW k \in 1..(n + 1), j # k
        PROVE  /\ calls'[j].folder # calls'[k].folder
               /\ Range(calls'[j].own) \cap Range(calls'[k].own) = {}
    <3>1. ASSUME NEW h \in 1..(n + 1), h # 1
          PROVE  /\ h - 1 \in 1..n /\ calls'[h].folder = calls[h - 1].folder
                 /\ Range(calls'[h].own) \subseteq wait(h - 1)
      <4>1. h - 1 \in 1..n /\ (h - 1) + 1 = h
        BY <1>2, <3>1
      <4> QED BY <1>8, <4>1
    <3>2. calls'[1].folder = d /\ Range(calls'[1].own) = {}
      BY <1>6, NoEntries
    <3>3. CASE j = 1 \/ k = 1
      BY <1>13, <2>2, <3>1, <3>2, <3>3
    <3>4. CASE j # 1 /\ k # 1
      <4>1. j - 1 # k - 1
        BY <1>2, <2>2
      <4>2. wait(j - 1) \cap wait(k - 1) = {} /\ calls[j - 1].folder # calls[k - 1].folder
        BY <1>5, <3>1, <3>4, <4>1
      <4> QED BY <3>1, <3>4, <4>2
    <3> QED BY <3>3, <3>4
  <2>3. DOMAIN calls' = 1..(n + 1)
    BY <1>1
  <2> QED BY <2>1, <2>2, <2>3 DEF StackApart
<1>15. MissedPassed'
  <2> SUFFICES ASSUME NEW m \in missed
               PROVE  /\ m[1] \in Begun'
                      /\ \A k \in 1..(n + 1) : calls'[k].folder = m[1] => m[2] < calls'[k].page
    BY <1>1 DEF MissedPassed
  <2>1. m[1] \in Begun /\ \A k \in 1..n : calls[k].folder = m[1] => m[2] < calls[k].page
    BY <1>2 DEF ListCore, MissedPassed
  <2>2. m[1] # d
    BY <1>12, <2>1
  <2> SUFFICES ASSUME NEW k \in 1..(n + 1), calls'[k].folder = m[1] PROVE m[2] < calls'[k].page
    BY <1>12, <2>1
  <2>3. k # 1
    BY <1>6, <2>2
  <2>4. k \in 2..(n + 1)
    BY <1>2, <2>3
  <2> QED BY <1>7, <2>1, <2>4
<1>16. LastRight'
  <2> SUFFICES ASSUME NEW k \in 1..(n + 1)
               PROVE  /\ calls'[k].page = 1 => calls'[k].last = 1
                      /\ calls'[k].page # 1 =>
                            calls'[k].last = IF <<calls'[k].folder, 1>> \in missed THEN 0
                                             ELSE Ceil(Len(tree[calls'[k].folder]), FetchPage)
    BY <1>1 DEF LastRight
  <2>1. CASE k = 1
    BY <1>6, <2>1
  <2>2. CASE k # 1
    <3>1. k \in 2..(n + 1)
      BY <1>2, <2>2
    <3>2. /\ k - 1 \in DOMAIN calls /\ calls'[k].folder = calls[k - 1].folder
          /\ calls'[k].page = calls[k - 1].page /\ calls'[k].last = calls[k - 1].last
      BY <1>2, <1>7, <3>1
    <3>3. LastRight
      BY DEF ListCore
    <3> QED BY <3>2, <3>3 DEF LastRight
  <2> QED BY <2>1, <2>2
<1>17. ListedExactly'
  <2> SUFFICES ASSUME NEW e \in Folders, NEW i \in DOMAIN tree[e]
               PROVE  Listed(tree[e][i])' <=> e \in Begun' /\ Passed(e, i)' /\ PageRead(e, i, FetchPage)'
    BY <1>1 DEF ListedExactly
  <2>1. /\ Listed(tree[e][i])' <=> Listed(tree[e][i])
        /\ PageRead(e, i, FetchPage)' <=> PageRead(e, i, FetchPage)
        /\ Listed(tree[e][i]) <=> e \in Begun /\ Passed(e, i) /\ PageRead(e, i, FetchPage)
    BY <1>1 DEF ListedExactly, Listed, PageRead, ListCore
  <2> DEFINE c == Ceil(i, FetchPage)
  <2>2. c \in Nat \ {0}
    <3>1. tree[e] \in Seq(Paths \cup Folders)
      BY DEF TypeOK
    <3>2. i \in Nat \ {0}
      BY <3>1, LenProperties
    <3> QED BY <3>2, ConstantTypes, PageNumber
  <2>3. /\ Passed(e, i) <=> \A k \in 1..n : calls[k].folder = e => c < calls[k].page
        /\ Passed(e, i)' <=> \A k \in 1..(n + 1) : calls'[k].folder = e => c < calls'[k].page
    BY <1>1, <1>2 DEF Passed
  <2> HIDE DEF c
  <2>4. CASE e = d
    <3>1. ~ Passed(e, i)'
      <4>1. 1 \in 1..(n + 1) /\ calls'[1].folder = e /\ ~(c < calls'[1].page)
        BY <1>2, <1>6, <2>2, <2>4
      <4> QED BY <2>3, <4>1
    <3> QED BY <1>12, <2>1, <2>4, <3>1
  <2>5. CASE e # d
    <3>1. ASSUME Passed(e, i) PROVE Passed(e, i)'
      <4> SUFFICES ASSUME NEW k \in 1..(n + 1), calls'[k].folder = e PROVE c < calls'[k].page
        BY <2>3
      <4>1. k \in 2..(n + 1)
        BY <1>2, <1>6, <2>5
      <4> QED BY <1>7, <2>3, <3>1, <4>1
    <3>2. ASSUME Passed(e, i)' PROVE Passed(e, i)
      <4> SUFFICES ASSUME NEW k \in 1..n, calls[k].folder = e PROVE c < calls[k].page
        BY <2>3
      <4>1. k + 1 \in 1..(n + 1) /\ k + 1 \in 2..(n + 1)
        BY <1>2
      <4> QED BY <1>8, <2>3, <3>2, <4>1
    <3> QED BY <1>12, <2>1, <2>5, <3>1, <3>2
  <2> QED BY <2>4, <2>5
<1>18. IsInjective(files')
  BY <1>1 DEF ListCore
<1> QED BY <1>14, <1>15, <1>16, <1>17, <1>18 DEF ListCore

(* A call returns: it has asked for every page it knew of, so its entries  *)
(* are listed but for the pages that were missed.                          *)
LEMMA AscendCore ==
  ASSUME TypeOK, ListCore, Ascend
  PROVE  ListCore'
<1> DEFINE n == Len(calls)
           f == Top.folder
<1>1. /\ calls # <<>> /\ Top.own = <<>> /\ ~MorePages
      /\ DOMAIN calls' = 1..(n - 1)
      /\ \A k \in 1..(n - 1) : calls'[k] = calls[k + 1]
      /\ UNCHANGED <<tree, missed, program, files, folders>>
  BY AscendFacts DEF Ascend, diskVars, startVars
<1>2. /\ Top = calls[1] /\ DOMAIN calls = 1..n /\ n \in Nat \ {0} /\ 1 \in 1..n
      /\ Top.page \in Nat \ {0} /\ Top.last \in Nat /\ f \in Folders
  BY <1>1, TopFacts DEF CallType
<1> HIDE DEF n
<1>3. \A k \in 1..(n - 1) : k + 1 \in 1..n /\ k + 1 # 1
  BY <1>2
<1>4. \A k \in 1..n : k # 1 => k - 1 \in 1..(n - 1) /\ calls'[k - 1] = calls[k]
  <2> SUFFICES ASSUME NEW k \in 1..n, k # 1
               PROVE  k - 1 \in 1..(n - 1) /\ calls'[k - 1] = calls[k]
    OBVIOUS
  <2>1. k - 1 \in 1..(n - 1) /\ (k - 1) + 1 = k
    BY <1>2
  <2>2. calls'[k - 1] = calls[(k - 1) + 1]
    BY <1>1, <2>1
  <2> QED BY <2>1, <2>2
<1>5. StackApart /\ MissedPassed /\ LastRight /\ ListedExactly /\ IsInjective(files)
  BY DEF ListCore
<1>6. Seen' = Seen /\ KeysSeen' = KeysSeen
  BY <1>1 DEF Seen, KeysSeen
<1>7. Pending' = Pending
  <2>1. ASSUME NEW x \in Pending' PROVE x \in Pending
    <3>1. PICK k \in 1..(n - 1) : x \in Range(calls'[k].own)
      BY <1>1 DEF Pending
    <3>2. k + 1 \in DOMAIN calls /\ x \in Range(calls[k + 1].own)
      BY <1>1, <1>2, <1>3, <3>1
    <3> QED BY <3>2 DEF Pending
  <2>2. ASSUME NEW x \in Pending PROVE x \in Pending'
    <3>1. PICK k \in 1..n : x \in Range(calls[k].own)
      BY <1>2 DEF Pending
    <3>2. k # 1
      <4>1. Range(<<>>) = {}
        BY NoEntries
      <4> QED BY <1>1, <1>2, <3>1, <4>1
    <3>3. k - 1 \in DOMAIN calls' /\ x \in Range(calls'[k - 1].own)
      BY <1>1, <1>4, <3>1, <3>2
    <3> QED BY <3>3 DEF Pending
  <2> QED BY <2>1, <2>2
<1>8. Begun' = Begun
  BY <1>6, <1>7 DEF Begun
<1>9. StackApart'
  <2>1. ASSUME NEW k \in 1..(n - 1)
        PROVE  /\ calls'[k].folder \in Begun'
               /\ Range(calls'[k].own) \subseteq KeysSeen'
               /\ IsInjective(calls'[k].own)
    BY <1>1, <1>2, <1>3, <1>5, <1>6, <1>8 DEF StackApart
  <2>2. ASSUME NEW j \in 1..(n - 1), NEW k \in 1..(n - 1)
        PROVE  /\ calls'[j].folder = calls'[k].folder => j = k
               /\ Range(calls'[j].own) \cap Range(calls'[k].own) # {} => j = k
    <3>1. j + 1 \in DOMAIN calls /\ k + 1 \in DOMAIN calls /\ (j + 1 = k + 1 => j = k)
      BY <1>2, <1>3
    <3>2. /\ calls[j + 1].folder = calls[k + 1].folder => j + 1 = k + 1
          /\ Range(calls[j + 1].own) \cap Range(calls[k + 1].own) # {} => j + 1 = k + 1
      BY <1>5, <3>1 DEF StackApart
    <3>3. calls'[j] = calls[j + 1] /\ calls'[k] = calls[k + 1]
      BY <1>1
    <3> QED BY <3>1, <3>2, <3>3
  <2> QED BY <1>1, <2>1, <2>2 DEF StackApart
<1>10. MissedPassed'
  BY <1>1, <1>2, <1>3, <1>5, <1>8 DEF MissedPassed
<1>11. LastRight'
  <2> SUFFICES ASSUME NEW k \in 1..(n - 1)
               PROVE  /\ calls'[k].page = 1 => calls'[k].last = 1
                      /\ calls'[k].page # 1 =>
                            calls'[k].last = IF <<calls'[k].folder, 1>> \in missed THEN 0
                                             ELSE Ceil(Len(tree[calls'[k].folder]), FetchPage)
    BY <1>1 DEF LastRight
  <2>1. calls'[k] = calls[k + 1] /\ k + 1 \in DOMAIN calls
    BY <1>1, <1>2, <1>3
  <2> QED BY <1>5, <2>1 DEF LastRight
<1>12. \A i \in DOMAIN tree[f] : PageRead(f, i, FetchPage) => Passed(f, i)
  <2> SUFFICES ASSUME NEW i \in DOMAIN tree[f], PageRead(f, i, FetchPage) PROVE Passed(f, i)
    OBVIOUS
  <2> DEFINE m == Len(tree[f])
  <2>1. tree[f] \in Seq(Paths \cup Folders)
    BY <1>2 DEF TypeOK
  <2>2. m \in Nat /\ i \in Nat \ {0} /\ i <= m
    BY <2>1, LenProperties
  <2>a. ~(Top.page <= Top.last)
    BY <1>1 DEF MorePages
  <2>b. 1 \in DOMAIN calls
    BY <1>2
  <2>c. Top.page = 1 => Top.last = 1
    BY <1>2, <1>5, <2>b DEF LastRight
  <2>3. Top.page > Top.last /\ Top.page # 1
    BY <1>2, <2>a, <2>c
  <2>4. Top.last = Ceil(m, FetchPage)
    BY <1>2, <1>5, <2>b, <2>3 DEF LastRight, PageRead
  <2> HIDE DEF m
  <2>5. Ceil(i, FetchPage) <= Ceil(m, FetchPage) /\ Ceil(i, FetchPage) \in Nat \ {0} /\ Ceil(m, FetchPage) \in Nat
    BY <2>2, ConstantTypes, PageNumber, CeilFacts
  <2>6. Ceil(i, FetchPage) < Top.page
    BY <1>2, <2>3, <2>4, <2>5
  <2>7. \A k \in DOMAIN calls : calls[k].folder = f => k = 1
    BY <1>2, <1>5 DEF StackApart
  <2> QED BY <1>2, <2>6, <2>7 DEF Passed
<1>13. ListedExactly'
  <2> SUFFICES ASSUME NEW e \in Folders, NEW i \in DOMAIN tree[e]
               PROVE  Listed(tree[e][i])' <=> e \in Begun' /\ Passed(e, i)' /\ PageRead(e, i, FetchPage)'
    BY <1>1 DEF ListedExactly
  <2>1. /\ Listed(tree[e][i])' <=> Listed(tree[e][i])
        /\ PageRead(e, i, FetchPage)' <=> PageRead(e, i, FetchPage)
        /\ Listed(tree[e][i]) <=> e \in Begun /\ Passed(e, i) /\ PageRead(e, i, FetchPage)
    BY <1>1, <1>5 DEF ListedExactly, Listed, PageRead
  <2> DEFINE c == Ceil(i, FetchPage)
  <2>2. /\ Passed(e, i) <=> \A k \in 1..n : calls[k].folder = e => c < calls[k].page
        /\ Passed(e, i)' <=> \A k \in 1..(n - 1) : calls'[k].folder = e => c < calls'[k].page
    BY <1>1, <1>2 DEF Passed
  <2> HIDE DEF c
  <2>3. ASSUME Passed(e, i) PROVE Passed(e, i)'
    BY <1>1, <1>3, <2>2, <2>3
  <2>4. CASE e = f
    BY <1>8, <1>12, <2>1, <2>3, <2>4
  <2>5. CASE e # f
    <3>1. ASSUME Passed(e, i)' PROVE Passed(e, i)
      <4> SUFFICES ASSUME NEW k \in 1..n, calls[k].folder = e PROVE c < calls[k].page
        BY <2>2
      <4>1. k # 1
        BY <1>2, <2>5
      <4> QED BY <1>4, <2>2, <3>1, <4>1
    <3> QED BY <1>8, <2>1, <2>3, <3>1
  <2> QED BY <2>4, <2>5
<1> QED BY <1>1, <1>5, <1>9, <1>10, <1>11, <1>13 DEF ListCore

(* Steps that leave the lists and the disk alone.                          *)
LEMMA ListUnchanged ==
  ASSUME ListInv, UNCHANGED <<calls, files, folders, missed, tree, changes, program>>
  PROVE  ListInv'
<1>1. UNCHANGED <<KeysSeen, Seen, Pending>>
  BY DEF KeysSeen, Seen, Pending
<1>2. Begun' = Begun
  BY <1>1 DEF Begun
<1>3. (changes = 0)' <=> changes = 0
  OBVIOUS
<1>4. ASSUME TreeApart PROVE TreeApart'
  BY <1>4 DEF TreeApart
<1>5. ASSUME ListCore PROVE ListCore'
  <2>1. StackApart'
    BY <1>1, <1>2, <1>5 DEF ListCore, StackApart
  <2>2. MissedPassed' /\ LastRight'
    BY <1>2, <1>5 DEF ListCore, MissedPassed, LastRight
  <2>3. ListedExactly'
    BY <1>2, <1>5 DEF ListCore, ListedExactly, Listed, Passed, PageRead
  <2> QED BY <1>5, <2>1, <2>2, <2>3 DEF ListCore
<1> QED BY <1>3, <1>4, <1>5 DEF ListInv

(* The listing holds what it should after every step.                      *)
LEMMA ListNext ==
  ASSUME TypeOK, ListInv, ProgramStep \/ DiskChanges
  PROVE  ListInv'
<1>1. CASE PageArrives \/ OtherBody \/ PageSkipped \/ Descend \/ Ascend
  <2>1. UNCHANGED <<tree, changes, program>>
    BY <1>1 DEF PageArrives, OtherBody, PageSkipped, Descend, Ascend, diskVars, startVars
  <2> SUFFICES ASSUME changes = 0 PROVE TreeApart' /\ (program # "structs" => ListCore')
    BY <2>1 DEF ListInv
  <2>2. TreeApart /\ (program # "structs" => ListCore)
    BY DEF ListInv
  <2>3. TreeApart'
    BY <2>1, <2>2 DEF TreeApart
  <2> SUFFICES ASSUME program # "structs" PROVE ListCore'
    BY <2>3
  <2>4. ASSUME OtherBody \/ PageSkipped PROVE ListCore'
    <3>1. /\ calls # <<>> /\ UNCHANGED <<tree, program>>
          /\ ReadPage(<<>>, IF Top.page > 1 THEN Top.last ELSE 0)
          /\ missed' = missed \cup {<<Top.folder, Top.page>>}
      <4>1. CASE OtherBody
        BY <4>1 DEF OtherBody, Listing, diskVars, startVars
      <4>2. CASE PageSkipped
        BY <4>2 DEF PageSkipped, Listing, diskVars, startVars
      <4> QED BY <2>4, <4>1, <4>2
    <3> QED BY <2>2, <3>1, MissedCore
  <2> QED BY <1>1, <2>2, <2>4, PageArrivesCore, DescendCore, AscendCore
<1>2. CASE RegretNetDiskWithToken \/ FirstPageFails \/ LookUp \/ SendStep \/ PrintTree
  <2>1. UNCHANGED <<calls, files, folders, missed, tree, changes, program>>
    BY <1>2 DEF RegretNetDiskWithToken, FirstPageFails, LookUp, SendStep, PrintTree, StartSending,
           SendFile, WorkerStores, WorkerDrops, WorkerPanics, Finish, listVars, diskVars, startVars
  <2> QED BY <2>1, ListUnchanged
<1>3. CASE DiskChanges
  <2>1. changes' # 0
    BY <1>3 DEF DiskChanges, TypeOK
  <2> QED BY <2>1 DEF ListInv
<1> QED BY <1>1, <1>2, <1>3 DEF ProgramStep, ListStep

(* At the start the root is begun and nothing is listed.                   *)
LEMMA ListInit == Init => ListInv
<1> SUFFICES ASSUME Init, changes = 0 PROVE TreeApart /\ ListCore
  BY DEF ListInv
<1>1. PICK s \in Starts : tree = s.tree
  BY DEF Init
<1>2. TreeApart
  BY <1>1, StartsAssumption DEF TreeApart
<1>3. /\ calls = <<Call(Root, <<Root>>)>> /\ files = <<>> /\ folders = <<>> /\ missed = {}
  BY DEF Init
<1>4. /\ DOMAIN calls = {1} /\ calls[1].folder = Root /\ calls[1].own = <<>>
      /\ calls[1].page = 1 /\ calls[1].last = 1
  BY <1>3 DEF Call
<1>5. Range(<<>>) = {} /\ IsInjective(<<>>)
  BY DEF Range, IsInjective
<1>6. KeysSeen = {} /\ Seen = {Root} /\ Pending = {} /\ Range(files) = {}
  BY <1>3, <1>4, <1>5 DEF KeysSeen, Seen, Pending
<1>7. Begun = {Root}
  BY <1>6 DEF Begun
<1>8. StackApart
  BY <1>4, <1>5, <1>6, <1>7 DEF StackApart
<1>9. MissedPassed /\ LastRight
  BY <1>3, <1>4 DEF MissedPassed, LastRight
<1>10. ListedExactly
  <2> SUFFICES ASSUME NEW d \in Folders, NEW i \in DOMAIN tree[d]
               PROVE  ~Listed(tree[d][i]) /\ (d = Root => ~Passed(d, i))
    BY <1>7 DEF ListedExactly
  <2>1. ~Listed(tree[d][i])
    BY <1>2, <1>6, ListedFacts DEF TreeApart
  <2>2. i \in Nat \ {0}
    <3>1. tree[d] \in Seq(Paths \cup Folders)
      BY <1>1, StartsAssumption
    <3> QED BY <3>1, LenProperties
  <2>3. Ceil(i, FetchPage) \in Nat \ {0}
    BY <2>2, ConstantTypes, PageNumber
  <2>4. ~(Ceil(i, FetchPage) < 1)
    BY <2>3
  <2> QED BY <1>4, <2>1, <2>4 DEF Passed
<1> QED BY <1>2, <1>3, <1>5, <1>8, <1>9, <1>10 DEF ListCore

-----------------------------------------------------------------------------
(* Type correctness.                                                       *)

(* Appending a line adds its file to the files queued.                     *)
LEMMA RangeAppend ==
  ASSUME NEW q \in Seq(Paths), NEW p \in Paths
  PROVE  /\ Append(q, p) \in Seq(Paths)
         /\ Len(Append(q, p)) = Len(q) + 1
         /\ Range(Append(q, p)) = Range(q) \cup {p}
<1>1. /\ Append(q, p) \in Seq(Paths)
      /\ Len(Append(q, p)) = Len(q) + 1
      /\ \A i \in 1..Len(q) : Append(q, p)[i] = q[i]
      /\ Append(q, p)[Len(q) + 1] = p
  BY AppendProperties
<1>2. DOMAIN q = 1..Len(q) /\ DOMAIN Append(q, p) = 1..(Len(q) + 1) /\ Len(q) \in Nat
  BY <1>1, LenProperties
<1>3. 1..(Len(q) + 1) = 1..Len(q) \cup {Len(q) + 1}
  BY <1>2
<1> QED BY <1>1, <1>2, <1>3 DEF Range

(* No entry is of this run and of an earlier one.                          *)
OldApart == db \cap old = {}

(* After an Enqueue each line that was queued and the new one are queued   *)
(* still or saved.                                                         *)
LEMMA EnqueueHandsOver ==
  ASSUME BatchTypeOK, UNCHANGED opened, NEW p \in Paths, Enqueue(p)
  PROVE  /\ BatchTypeOK'
         /\ Len(queue) < BatchSize => Len(queue') < BatchSize
         /\ \/ /\ db' = db /\ old' = old
               /\ Range(queue') = Range(queue) \cup {p}
            \/ /\ db' = db \cup KeysOf(Range(queue) \cup {p})
               /\ old' = old \ KeysOf(Range(queue) \cup {p})
               /\ Range(queue') = {}
<1> DEFINE q == Append(queue, p)
<1>1. q \in Seq(Paths) /\ Len(q) = Len(queue) + 1 /\ Range(q) = Range(queue) \cup {p}
  BY RangeAppend DEF BatchTypeOK
<1>2. Len(queue) \in Nat /\ BatchSize \in Nat \ {0}
  BY LenProperties, BatchAssumption DEF BatchTypeOK
<1>3. Range(q) \subseteq Paths
  BY <1>1, RangeOfSeq
<1> HIDE DEF q
<1>4. CASE ~WouldFlush
  <2>1. queue' = q /\ db' = db /\ old' = old
    BY <1>4 DEF Enqueue, q
  <2> QED BY <1>1, <1>2, <1>4, <2>1 DEF WouldFlush, BatchTypeOK
<1>5. CASE WouldFlush
  <2>1. /\ queue' = <<>> /\ db' = db \cup KeysOf(Range(q))
        /\ old' = old \ KeysOf(Range(q))
    BY <1>5 DEF Enqueue, Save, q
  <2>2. <<>> \in Seq(Paths) /\ Len(<<>>) = 0 /\ Range(<<>>) = {}
    BY EmptySeq DEF Range
  <2>3. KeysOf(Range(q)) \subseteq Keys
    BY <1>3, BatchAssumption DEF KeysOf
  <2>4. BatchTypeOK'
    BY <2>1, <2>2, <2>3 DEF BatchTypeOK
  <2>5. Range(queue') = {} /\ Len(queue') = 0
    BY <2>1, <2>2
  <2> QED BY <1>1, <1>2, <2>1, <2>4, <2>5
<1> QED BY <1>4, <1>5

(* Saving the rest of the queue.                                           *)
LEMMA DrainFacts ==
  ASSUME BatchTypeOK, UNCHANGED opened, DrainAndSave
  PROVE  /\ BatchTypeOK' /\ queue' = <<>> /\ db' = db \cup KeysOf(Range(queue))
         /\ old' = old \ KeysOf(Range(queue))
<1>1. /\ queue' = <<>> /\ db' = db \cup KeysOf(Range(queue))
      /\ old' = old \ KeysOf(Range(queue))
  BY DEF DrainAndSave, Save
<1>2. Range(queue) \subseteq Paths
  BY RangeOfSeq DEF BatchTypeOK
<1>3. KeysOf(Range(queue)) \subseteq Keys
  BY <1>2, BatchAssumption DEF KeysOf
<1> QED BY <1>1, <1>3, EmptySeq DEF BatchTypeOK

(* A part of a sequence.                                                   *)
LEMMA PartOfSeq ==
  ASSUME NEW U, NEW s \in Seq(U), NEW a \in Nat \ {0}, NEW b \in Nat, b <= Len(s)
  PROVE  SubSeq(s, a, b) \in Seq(U)
<1>1. \A i \in a..b : s[i] \in U
  <2> SUFFICES ASSUME NEW i \in a..b PROVE s[i] \in U
    OBVIOUS
  <2>1. i \in 1..Len(s)
    BY LenProperties
  <2> QED BY <2>1, ElementOfSeq
<1> QED BY <1>1, SubSeqProperties

(* A file more or less in a folder.                                        *)
LEMMA ChangedFolder ==
  ASSUME NEW U, NEW s \in Seq(U)
  PROVE  /\ \A i \in DOMAIN s : RemoveAt(s, i) \in Seq(U)
         /\ \A x \in U : \A i \in 1..(Len(s) + 1) : InsertAt(s, i, x) \in Seq(U)
<1>1. Len(s) \in Nat /\ DOMAIN s = 1..Len(s)
  BY LenProperties
<1>2. ASSUME NEW i \in 1..Len(s) PROVE RemoveAt(s, i) \in Seq(U)
  <2> DEFINE a == SubSeq(s, 1, i - 1)
             b == SubSeq(s, i + 1, Len(s))
  <2>1. a \in Seq(U) /\ b \in Seq(U)
    BY <1>1, PartOfSeq
  <2> HIDE DEF a, b
  <2>2. a \o b \in Seq(U)
    BY <2>1, ConcatProperties
  <2> QED BY <2>2 DEF RemoveAt, a, b
<1>3. ASSUME NEW x \in U, NEW i \in 1..(Len(s) + 1) PROVE InsertAt(s, i, x) \in Seq(U)
  <2> DEFINE a == SubSeq(s, 1, i - 1)
             b == SubSeq(s, i, Len(s))
             m == <<x>>
  <2>1. a \in Seq(U) /\ b \in Seq(U) /\ m \in Seq(U)
    BY <1>1, PartOfSeq
  <2> HIDE DEF a, b, m
  <2>2. a \o m \in Seq(U)
    BY <2>1, ConcatProperties
  <2>3. (a \o m) \o b \in Seq(U)
    BY <2>1, <2>2, ConcatProperties
  <2> QED BY <2>3 DEF InsertAt, a, b, m
<1> QED BY <1>1, <1>2, <1>3

(* The start.                                                              *)
LEMMA TypeInit == Init => TypeOK
<1> SUFFICES ASSUME Init PROVE TypeOK
  OBVIOUS
<1>1. PICK s \in Starts : program = s.program /\ caller = s.caller /\ tree = s.tree /\ wanted = s.wanted
  BY DEF Init
<1>2. /\ program \in {"fetch", "sync", "structs"} /\ caller \in {"frs", "extract"}
      /\ wanted \in Seq(Paths \cup {NoId}) /\ tree \in [Folders -> Seq(Paths \cup Folders)]
  BY <1>1, StartsAssumption
<1>3. BatchTypeOK
  BY EmptySeq, BatchAssumption DEF Init, BatchInit, BatchTypeOK
<1>4. calls \in Seq(CallType)
  <2>1. <<Root>> \in Seq(Folders) /\ <<>> \in Seq(Folders)
    BY ConstantTypes
  <2>2. Call(Root, <<Root>>) \in CallType
    BY <2>1, ConstantTypes DEF Call, CallType
  <2>3. calls = <<Call(Root, <<Root>>)>>
    BY DEF Init
  <2> QED BY <2>2, <2>3
<1>5. /\ {token, looking} \subseteq BOOLEAN
      /\ main \in {"login", "listing", "sending", "returned", "crashed"}
      /\ files \in Seq(Paths)
      /\ folders \in Seq([path : Seq(Folders), key : Folders])
      /\ missed \in SUBSET (Folders \X Nat)
      /\ next \in Nat \ {0} /\ count \in Nat
      /\ fileChan \in Seq(Paths) /\ Len(fileChan) <= 1
      /\ faults \in 0..MaxFaults /\ changes \in 0..MaxChanges
  <2>1. token \in BOOLEAN /\ looking \in BOOLEAN
    BY Zenon DEF Init
  <2>2. next = 1 /\ count = 0 /\ fileChan = <<>> /\ faults = 0 /\ changes = 0 /\ main = "login"
        /\ files = <<>> /\ folders = <<>> /\ missed = {}
    BY DEF Init
  <2>3. next \in Nat \ {0} /\ count \in Nat /\ faults \in 0..MaxFaults /\ changes \in 0..MaxChanges
    BY <2>2, ConstantTypes
  <2>4. fileChan \in Seq(Paths) /\ Len(fileChan) <= 1 /\ files \in Seq(Paths)
        /\ folders \in Seq([path : Seq(Folders), key : Folders])
    BY <2>2, EmptySeq
  <2> QED BY <2>1, <2>2, <2>3, <2>4
<1> QED BY <1>2, <1>3, <1>4, <1>5 DEF TypeOK, CallType

(* Each step of the listing.                                               *)
LEMMA TypeList ==
  ASSUME TypeOK, ListStep
  PROVE  TypeOK'
<1> DEFINE Kept == UNCHANGED <<bqVars, startVars, diskVars, sendVars, token>>
           Lists == /\ calls' \in Seq(CallType) /\ files' \in Seq(Paths)
                    /\ folders' \in Seq(FolderType) /\ missed' \in SUBSET (Folders \X Nat)
           Rest == /\ looking' \in BOOLEAN /\ faults' \in 0..MaxFaults
                   /\ main' \in {"login", "listing", "sending", "returned", "crashed"}
<1>0. /\ calls \in Seq(CallType) /\ files \in Seq(Paths) /\ folders \in Seq(FolderType)
      /\ missed \in SUBSET (Folders \X Nat) /\ looking \in BOOLEAN /\ faults \in 0..MaxFaults
      /\ main \in {"login", "listing", "sending", "returned", "crashed"}
  BY DEF TypeOK, CallType, FolderType
<1>a. faults < MaxFaults => faults + 1 \in 0..MaxFaults
  BY <1>0, ConstantTypes
<1>1. ASSUME Kept, Lists, Rest PROVE TypeOK'
  BY <1>1 DEF TypeOK, BatchTypeOK, CallType, FolderType, bqVars, startVars, diskVars, sendVars
<1>2. ASSUME NEW entries \in Seq(Paths \cup Folders), NEW last \in Nat, calls # <<>>,
             ReadPage(entries, last), missed' = missed \/ missed' = missed \cup {<<Top.folder, Top.page>>}
      PROVE  Lists
  <2>1. calls' \in Seq(CallType) /\ files' \in Seq(Paths) /\ folders' \in Seq(FolderType)
    BY <1>2, ReadFacts
  <2>2. <<Top.folder, Top.page>> \in Folders \X Nat
    BY <1>2, TopFacts DEF CallType
  <2> QED BY <1>0, <1>2, <2>1, <2>2
<1>3. CASE PageArrives
  <2> DEFINE entries == Page(tree[Top.folder], Top.page, PageSize)
             last == IF Top.page > 1 THEN Top.last ELSE Ceil(Len(tree[Top.folder]), LastPageSize)
  <2>1. /\ calls # <<>> /\ ReadPage(entries, last) /\ Kept /\ missed' = missed
        /\ looking' \in BOOLEAN /\ faults' = faults /\ main' = main
    BY <1>3 DEF PageArrives, Listing
  <2>2. entries \in Seq(Paths \cup Folders) /\ last \in Nat
    BY <2>1, ArrivingPage, TopFacts DEF CallType
  <2> HIDE DEF entries, last
  <2> QED BY <1>0, <1>1, <1>2, <2>1, <2>2
<1>4. CASE OtherBody \/ PageSkipped
  <2> DEFINE last == IF Top.page > 1 THEN Top.last ELSE 0
             none == <<>>
  <2>1. calls # <<>>
    BY <1>4 DEF OtherBody, PageSkipped, Listing
  <2>2. ReadPage(none, last)
    <3>1. CASE OtherBody
      BY <3>1 DEF OtherBody
    <3>2. CASE PageSkipped
      BY <3>2 DEF PageSkipped
    <3> QED BY <1>4, <3>1, <3>2
  <2>3. missed' = missed \cup {<<Top.folder, Top.page>>}
    BY <1>4 DEF OtherBody, PageSkipped
  <2>4. Kept /\ main' = main /\ looking' = looking
    BY <1>4 DEF OtherBody, PageSkipped
  <2>5. faults' = faults \/ (faults < MaxFaults /\ faults' = faults + 1)
    BY <1>4 DEF OtherBody, PageSkipped
  <2>6. none \in Seq(Paths \cup Folders) /\ last \in Nat
    BY <2>1, NoEntries, TopFacts DEF CallType
  <2> HIDE DEF last, none
  <2> QED BY <1>0, <1>a, <1>1, <1>2, <2>1, <2>2, <2>3, <2>4, <2>5, <2>6
<1>5. CASE FirstPageFails \/ LookUp
  <2>1. Kept /\ UNCHANGED <<calls, files, folders, missed>>
    BY <1>5 DEF FirstPageFails, LookUp, listVars
  <2>2. Rest
    BY <1>5, <1>0, <1>a DEF FirstPageFails, LookUp, listVars
  <2> QED BY <1>0, <1>1, <2>1, <2>2
<1>6. CASE Descend \/ Ascend
  <2>1. Kept /\ UNCHANGED <<files, folders, missed, looking, main, faults>>
    BY <1>6 DEF Descend, Ascend
  <2>2. calls' \in Seq(CallType)
    BY <1>6, DescendFacts, AscendFacts
  <2> QED BY <1>0, <1>1, <2>1, <2>2
<1> QED BY <1>3, <1>4, <1>5, <1>6 DEF ListStep

(* Each step of the others.                                                *)
LEMMA TypeSend ==
  ASSUME TypeOK, RegretNetDiskWithToken \/ SendStep \/ PrintTree \/ DiskChanges
  PROVE  TypeOK'
<1> DEFINE Kept == UNCHANGED <<startVars, listVars>>
           Rest == /\ token' \in BOOLEAN /\ faults' \in 0..MaxFaults
                   /\ main' \in {"login", "listing", "sending", "returned", "crashed"}
           Disk == tree' \in [Folders -> Seq(Paths \cup Folders)] /\ changes' \in 0..MaxChanges
           Sends == /\ next' \in Nat \ {0} /\ count' \in Nat
                    /\ fileChan' \in Seq(Paths) /\ Len(fileChan') <= 1
<1>0. /\ BatchTypeOK /\ token \in BOOLEAN /\ faults \in 0..MaxFaults
      /\ main \in {"login", "listing", "sending", "returned", "crashed"}
      /\ tree \in [Folders -> Seq(Paths \cup Folders)] /\ changes \in 0..MaxChanges
      /\ next \in Nat \ {0} /\ count \in Nat
      /\ fileChan \in Seq(Paths) /\ Len(fileChan) <= 1 /\ files \in Seq(Paths)
      /\ MaxFaults \in Nat /\ MaxChanges \in Nat
  BY ConstantTypes DEF TypeOK
<1>1. ASSUME Kept, Rest, Disk, Sends, BatchTypeOK' PROVE TypeOK'
  BY <1>1 DEF TypeOK, startVars, listVars
<1>2. <<>> \in Seq(Paths) /\ Len(<<>>) = 0
  BY EmptySeq
<1>b. UNCHANGED bqVars => BatchTypeOK'
  BY <1>0 DEF BatchTypeOK, bqVars
<1>3. CASE RegretNetDiskWithToken
  <2>1. Kept /\ UNCHANGED <<bqVars, tree, changes, next, count, fileChan>> /\ main' = "listing"
    BY <1>3 DEF RegretNetDiskWithToken, diskVars, sendVars
  <2>2. token' \in BOOLEAN /\ faults' \in 0..MaxFaults
    <3>1. token' = TRUE \/ token' = FALSE
      BY <1>3 DEF RegretNetDiskWithToken
    <3>2. faults' = faults \/ (faults < MaxFaults /\ faults' = faults + 1)
      BY <1>3 DEF RegretNetDiskWithToken
    <3>3. faults' \in 0..MaxFaults
      BY <1>0, <3>2
    <3>4. token' \in BOOLEAN
      BY <3>1, Zenon
    <3> QED BY <3>3, <3>4
  <2> QED BY <1>0, <1>1, <1>b, <2>1, <2>2
<1>4. CASE StartSending \/ WorkerPanics \/ PrintTree
  <2>1. Kept /\ UNCHANGED <<bqVars, tree, changes, next, count, fileChan, token, faults>>
        /\ main' \in {"sending", "crashed", "returned"}
    BY <1>4 DEF StartSending, WorkerPanics, PrintTree, diskVars, sendVars
  <2> QED BY <1>0, <1>1, <1>b, <2>1
<1>5. CASE SendFile
  <2>1. /\ Kept /\ UNCHANGED <<bqVars, tree, changes, token, main, faults>>
        /\ next <= Len(files) /\ next' = next + 1
        /\ \/ UNCHANGED <<fileChan, count>>
           \/ /\ fileChan' = <<files[next]>>
              /\ count' = IF program = "sync" THEN count + 1 ELSE count
    BY <1>5 DEF SendFile, diskVars
  <2>2. files[next] \in Paths
    BY <1>0, <2>1, LenProperties, ElementOfSeq
  <2>3. <<files[next]>> \in Seq(Paths) /\ Len(<<files[next]>>) = 1
    BY <2>2
  <2>4. fileChan' \in Seq(Paths) /\ Len(fileChan') <= 1 /\ count' \in Nat /\ next' \in Nat \ {0}
    <3> DEFINE one == <<files[next]>>
    <3>1. one \in Seq(Paths) /\ Len(one) = 1
      BY <2>3
    <3>2. fileChan' = fileChan \/ fileChan' = one
      BY <2>1
    <3>3. count' = count \/ count' = count + 1
      BY <2>1
    <3> HIDE DEF one
    <3>4. fileChan' \in Seq(Paths) /\ Len(fileChan') <= 1
      <4>1. CASE fileChan' = fileChan
        BY <1>0, <4>1
      <4>2. CASE fileChan' = one
        BY <3>1, <4>2
      <4> QED BY <3>2, <4>1, <4>2
    <3>5. count' \in Nat /\ next' \in Nat \ {0}
      BY <1>0, <2>1, <3>3
    <3> QED BY <3>4, <3>5
  <2> QED BY <1>0, <1>1, <1>b, <2>1, <2>4
<1>6. CASE WorkerStores
  <2>1. /\ Kept /\ UNCHANGED <<opened, tree, changes, token, main, faults, next>>
        /\ fileChan # <<>> /\ count' = count + 1 /\ fileChan' = <<>> /\ Enqueue(fileChan[1])
    BY <1>6 DEF WorkerStores, diskVars
  <2>2. fileChan[1] \in Paths
    BY <1>0, <2>1, HeadTailFacts
  <2>3. BatchTypeOK'
    BY <1>0, <2>1, <2>2, EnqueueHandsOver
  <2> QED BY <1>0, <1>1, <1>2, <2>1, <2>3
<1>7. CASE WorkerDrops
  <2>1. /\ Kept /\ UNCHANGED <<bqVars, tree, changes, token, main, faults, next, count>>
        /\ fileChan' = <<>>
    BY <1>7 DEF WorkerDrops, diskVars
  <2> QED BY <1>0, <1>1, <1>2, <1>b, <2>1
<1>8. CASE Finish
  <2>1. Kept /\ UNCHANGED <<opened, tree, changes, next, count, fileChan, token, faults>>
        /\ main' \in {"crashed", "returned"}
        /\ (UNCHANGED <<queue, db, old>> \/ DrainAndSave)
    BY <1>8 DEF Finish, diskVars, sendVars
  <2>2. BatchTypeOK'
    BY <1>0, <1>b, <2>1, DrainFacts DEF bqVars
  <2> QED BY <1>0, <1>1, <2>1, <2>2
<1>9. CASE DiskChanges
  <2>1. Kept /\ UNCHANGED <<bqVars, next, count, fileChan, token, main, faults>>
        /\ changes' = changes + 1 /\ changes < MaxChanges
    BY <1>9 DEF DiskChanges, sendVars
  <2>2. tree' \in [Folders -> Seq(Paths \cup Folders)]
    <3>1. PICK d \in Folders :
            \/ \E i \in DOMAIN tree[d] : tree' = [tree EXCEPT ![d] = RemoveAt(tree[d], i)]
            \/ \E f \in Paths, i \in 1..(Len(tree[d]) + 1) :
                  tree' = [tree EXCEPT ![d] = InsertAt(tree[d], i, f)]
      BY <1>9 DEF DiskChanges
    <3> DEFINE e == tree[d]
               U == Paths \cup Folders
    <3>2. e \in Seq(U) /\ Paths \subseteq U
      BY <1>0
    <3> HIDE DEF e, U
    <3>3. /\ \A i \in DOMAIN e : RemoveAt(e, i) \in Seq(U)
          /\ \A x \in U : \A i \in 1..(Len(e) + 1) : InsertAt(e, i, x) \in Seq(U)
      BY <3>2, ChangedFolder
    <3>4. \E s \in Seq(U) : tree' = [tree EXCEPT ![d] = s]
      BY <3>1, <3>2, <3>3 DEF e
    <3> QED BY <1>0, <3>4 DEF U
  <2> QED BY <1>0, <1>1, <1>b, <2>1, <2>2
<1> QED BY <1>3, <1>4, <1>5, <1>6, <1>7, <1>8, <1>9 DEF SendStep

-----------------------------------------------------------------------------
(* The sending of the files.                                               *)

(* Nothing is sent while the disk is listed, and all calls have returned   *)
(* before.                                                                 *)
Phase ==
    /\ main \in {"login", "listing"} =>
          next = 1 /\ fileChan = <<>> /\ count = 0 /\ queue = <<>> /\ db = {}
    /\ main \in {"sending", "returned"} => calls = <<>>

(* Each chosen file that was sent is in the channel, in the queue or in    *)
(* the database, and nothing else is there; the counter lags behind by     *)
(* what the worker of a fetch has not taken yet.                           *)
Sending ==
    program # "structs" /\ main \in {"sending", "returned"} =>
        /\ next <= Len(files) + 1
        /\ Range(fileChan) \subseteq Sent /\ Range(queue) \subseteq Sent
        /\ program = "sync" => queue = <<>>
        /\ program = "fetch" =>
              KeysOf(Sent) = db \cup KeysOf(Range(queue)) \cup KeysOf(Range(fileChan))
        /\ changes = 0 =>
              count + (IF program = "fetch" THEN Len(fileChan) ELSE 0) = Cardinality(Sent)
        /\ main = "returned" => fileChan = <<>> /\ queue = <<>> /\ next = Len(files) + 1

(* The files sent so far.                                                  *)
LEMMA SentFacts ==
  ASSUME TypeOK, next <= Len(files) + 1
  PROVE  /\ \A f : f \in Sent <=> Chosen(f) /\ \E i \in 1..(next - 1) : f = files[i]
         /\ Sent \subseteq Paths /\ IsFiniteSet(Sent) /\ Cardinality(Sent) \in Nat
<1> DEFINE n == next - 1
           s == SubSeq(files, 1, n)
<1>1. files \in Seq(Paths) /\ n \in Nat /\ Len(files) \in Nat /\ n <= Len(files)
  BY LenProperties DEF TypeOK
<1> HIDE DEF n
<1>2. \A i \in 1..n : i \in 1..Len(files) /\ files[i] \in Paths
  BY <1>1, ElementOfSeq
<1>3. Len(s) = n /\ \A i \in 1..n : s[i] = files[i]
  BY <1>1, <1>2, SubSeqProperties
<1>4. s \in Seq(Paths)
  BY <1>1, PartOfSeq
<1>5. DOMAIN s = 1..n
  BY <1>3, <1>4, LenProperties
<1>6. \A f : f \in Range(s) <=> \E i \in 1..n : f = files[i]
  BY <1>3, <1>5 DEF Range
<1>7. Sent = {f \in Range(s) : Chosen(f)}
  BY DEF Sent, n
<1>8. \A f : f \in Sent <=> Chosen(f) /\ \E i \in 1..n : f = files[i]
  BY <1>6, <1>7
<1>9. Sent \subseteq Paths
  BY <1>2, <1>8
<1>10. IsFiniteSet(Sent) /\ Cardinality(Sent) \in Nat
  BY <1>9, ConstantTypes, FS_Subset, FS_CardinalityType
<1> QED BY <1>8, <1>9, <1>10 DEF n

(* The same as a state predicate, to be used of a next state.              *)
SentIs == \A f : f \in Sent <=> Chosen(f) /\ \E i \in 1..(next - 1) : f = files[i]

(* The files sent so far, in that form.                                    *)
LEMMA SentThen == TypeOK /\ next <= Len(files) + 1 => SentIs
  BY SentFacts DEF SentIs

(* Nothing has been sent before the first file is.                         *)
LEMMA SentNone ==
  ASSUME TypeOK, next = 1
  PROVE  Sent = {} /\ Cardinality(Sent) = 0 /\ KeysOf(Sent) = {}
<1>1. Len(files) \in Nat
  BY LenProperties DEF TypeOK
<1>2. next <= Len(files) + 1 /\ next - 1 = 0
  BY <1>1
<1>3. Sent = {}
  BY <1>2, SentFacts
<1> QED BY <1>3, FS_EmptySet DEF KeysOf

(* The same in a form to be used of a next state.                          *)
LEMMA SentEmpty == TypeOK /\ next = 1 => Sent = {}
  BY SentNone

(* One more file sent.                                                     *)
LEMMA SentOneMore ==
  ASSUME TypeOK, TypeOK', next <= Len(files), next' = next + 1, UNCHANGED <<files, startVars>>
  PROVE  /\ Chosen(files[next]) => Sent' = Sent \cup {files[next]}
         /\ ~Chosen(files[next]) => Sent' = Sent
         /\ IsInjective(files) => files[next] \notin Sent
<1> DEFINE n == next - 1
<1>1. n \in Nat /\ next = n + 1 /\ next' = n + 2 /\ Len(files) \in Nat /\ next \in Nat \ {0}
      /\ files \in Seq(Paths) /\ DOMAIN files = 1..Len(files)
  BY LenProperties DEF TypeOK
<1>2. \A f : f \in Sent <=> Chosen(f) /\ \E i \in 1..n : f = files[i]
  BY <1>1, SentFacts
<1>3. next' <= Len(files') + 1
  BY <1>1
<1>4. \A f : f \in Sent' <=> Chosen(f)' /\ \E i \in 1..(next' - 1) : f = files'[i]
  <2>1. (TypeOK /\ next <= Len(files) + 1)'
    BY <1>3
  <2>2. SentIs'
    BY <2>1, SentThen, PTL
  <2> QED BY <2>2 DEF SentIs
<1>5. \A f : Chosen(f)' <=> Chosen(f)
  BY DEF startVars, Chosen, Ids
<1>6. 1..(next' - 1) = 1..n \cup {next} /\ files' = files
  BY <1>1
<1>7. \A f : f \in Sent' <=> Chosen(f) /\ (f = files[next] \/ \E i \in 1..n : f = files[i])
  BY <1>4, <1>5, <1>6
<1>8. \A f : f \in Sent' <=> f \in Sent \/ (Chosen(f) /\ f = files[next])
  BY <1>2, <1>7
<1>9. ASSUME IsInjective(files), files[next] \in Sent PROVE FALSE
  <2>1. PICK i \in 1..n : files[next] = files[i]
    BY <1>2, <1>9
  <2>2. i \in DOMAIN files /\ next \in DOMAIN files /\ i # next
    BY <1>1
  <2> QED BY <1>9, <2>1, <2>2 DEF IsInjective
<1> QED BY <1>8, <1>9

(* Steps that send nothing.                                                *)
LEMMA SendUnchanged ==
  ASSUME Sending, UNCHANGED <<bqVars, startVars, files, sendVars, main, changes>>
  PROVE  Sending'
<1>1. \A f : Chosen(f)' <=> Chosen(f)
  BY DEF startVars, Chosen, Ids
<1>2. Sent' = Sent
  BY <1>1 DEF Sent, sendVars
<1> QED BY <1>2 DEF Sending, bqVars, startVars, sendVars

(* A file is sent.                                                         *)
LEMMA SendFileCore ==
  ASSUME TypeOK, TypeOK', ListInv, Sending, program # "structs", SendFile
  PROVE  Sending'
<1> DEFINE x == files[next]
<1>1. /\ main = "sending" /\ main' = "sending" /\ next <= Len(files) /\ next' = next + 1
      /\ UNCHANGED <<queue, db, files, startVars, changes, program>>
      /\ IF Chosen(x)
         THEN /\ fileChan = <<>> /\ fileChan' = <<x>>
              /\ count' = IF program = "sync" THEN count + 1 ELSE count
         ELSE UNCHANGED <<fileChan, count>>
  BY DEF SendFile, bqVars, listVars, diskVars, startVars
<1>2. /\ next <= Len(files) + 1
      /\ Range(fileChan) \subseteq Sent /\ Range(queue) \subseteq Sent
      /\ program = "sync" => queue = <<>>
      /\ program = "fetch" =>
              KeysOf(Sent) = db \cup KeysOf(Range(queue)) \cup KeysOf(Range(fileChan))
      /\ changes = 0 =>
              count + (IF program = "fetch" THEN Len(fileChan) ELSE 0) = Cardinality(Sent)
  BY <1>1 DEF Sending
<1>3. next' <= Len(files') + 1
  BY <1>1, LenProperties DEF TypeOK
<1>4. /\ Chosen(x) => Sent' = Sent \cup {x}
      /\ ~Chosen(x) => Sent' = Sent
      /\ IsInjective(files) => x \notin Sent
  BY <1>1, SentOneMore
<1>5. changes = 0 => IsInjective(files)
  BY <1>1 DEF ListInv, ListCore
<1>6. program \in {"fetch", "sync"} /\ count \in Nat
  BY DEF TypeOK
<1>7. IsFiniteSet(Sent) /\ Cardinality(Sent) \in Nat
  BY <1>2, SentFacts
<1>c. CASE ~Chosen(x)
  <2>1. Sent' = Sent /\ UNCHANGED <<fileChan, count>>
    BY <1>1, <1>4, <1>c
  <2> QED BY <1>1, <1>2, <1>3, <2>1 DEF Sending
<1>d. CASE Chosen(x)
  <2>1. Sent' = Sent \cup {x} /\ fileChan = <<>> /\ fileChan' = <<x>>
        /\ count' = IF program = "sync" THEN count + 1 ELSE count
    BY <1>1, <1>4, <1>d
  <2>2. Range(<<>>) = {} /\ Len(<<>>) = 0 /\ Range(<<x>>) = {x} /\ Len(<<x>>) = 1
    BY DEF Range
  <2> DEFINE none == <<>>
             one == <<x>>
  <2>3. /\ fileChan = none /\ fileChan' = one
        /\ Range(none) = {} /\ Len(none) = 0 /\ Range(one) = {x} /\ Len(one) = 1
    BY <2>1, <2>2
  <2> HIDE DEF x, none, one
  <2>4. Range(fileChan') \subseteq Sent' /\ Range(queue') \subseteq Sent'
    BY <1>1, <1>2, <2>1, <2>3
  <2>5. program = "fetch" =>
              KeysOf(Sent') = db' \cup KeysOf(Range(queue')) \cup KeysOf(Range(fileChan'))
    <3>1. KeysOf(Sent \cup {x}) = KeysOf(Sent) \cup KeysOf({x}) /\ KeysOf({}) = {}
      BY DEF KeysOf
    <3> QED BY <1>1, <1>2, <2>1, <2>3, <3>1
  <2>6. changes = 0 =>
              count' + (IF program = "fetch" THEN Len(fileChan') ELSE 0) = Cardinality(Sent')
    <3> SUFFICES ASSUME changes = 0
                 PROVE  count' + (IF program = "fetch" THEN Len(fileChan') ELSE 0) = Cardinality(Sent')
      OBVIOUS
    <3>1. Cardinality(Sent') = Cardinality(Sent) + 1
      BY <1>4, <1>5, <1>7, <2>1, FS_AddElement
    <3> QED BY <1>2, <1>6, <1>7, <2>1, <2>3, <3>1
  <2> QED BY <1>1, <1>3, <2>4, <2>5, <2>6 DEF Sending
<1> QED BY <1>c, <1>d

(* The worker takes a file.                                                *)
LEMMA WorkerCore ==
  ASSUME TypeOK, TypeOK', Sending, program # "structs", WorkerStores \/ WorkerDrops
  PROVE  /\ Sending' /\ Sent' = Sent
         /\ \/ db' = db /\ old' = old
            \/ \E batch \in SUBSET Sent :
                   db' = db \cup KeysOf(batch) /\ old' = old \ KeysOf(batch)
<1> DEFINE x == fileChan[1]
           none == <<>>
<1>1. /\ main = "sending" /\ main' = "sending" /\ fileChan # none /\ fileChan' = none
      /\ UNCHANGED <<files, next, startVars, changes, program>>
  BY DEF WorkerStores, WorkerDrops, listVars, diskVars, startVars
<1>2. /\ next <= Len(files) + 1
      /\ Range(fileChan) \subseteq Sent /\ Range(queue) \subseteq Sent
      /\ program = "sync" => queue = <<>>
      /\ program = "fetch" =>
              KeysOf(Sent) = db \cup KeysOf(Range(queue)) \cup KeysOf(Range(fileChan))
      /\ changes = 0 =>
              count + (IF program = "fetch" THEN Len(fileChan) ELSE 0) = Cardinality(Sent)
  BY <1>1 DEF Sending
<1>3. \A f : Chosen(f)' <=> Chosen(f)
  BY <1>1 DEF startVars, Chosen, Ids
<1>4. Sent' = Sent
  BY <1>1, <1>3 DEF Sent
<1>5. Range(none) = {} /\ Len(none) = 0
  BY DEF Range
<1>6. Len(fileChan) = 1 /\ Range(fileChan) = {x} /\ x \in Paths
  <2>1. fileChan \in Seq(Paths) /\ Len(fileChan) <= 1
    BY DEF TypeOK
  <2>2. Len(fileChan) \in Nat \ {0} /\ DOMAIN fileChan = 1..Len(fileChan) /\ fileChan[1] \in Paths
    BY <1>1, <2>1, HeadTailFacts
  <2>3. Len(fileChan) = 1 /\ DOMAIN fileChan = {1}
    BY <2>1, <2>2
  <2> QED BY <2>2, <2>3 DEF Range
<1>7. program \in {"fetch", "sync"} /\ count \in Nat
  BY DEF TypeOK
<1>8. IsFiniteSet(Sent) /\ Cardinality(Sent) \in Nat
  BY <1>2, SentFacts
<1> HIDE DEF x, none
<1>9. CASE WorkerDrops
  <2>1. program = "sync" /\ UNCHANGED <<count, queue, db, old>>
    BY <1>9 DEF WorkerDrops, bqVars
  <2> QED BY <1>1, <1>2, <1>4, <1>5, <1>7, <2>1 DEF Sending
<1>10. CASE WorkerStores
  <2>1. program = "fetch" /\ count' = count + 1 /\ Enqueue(x) /\ UNCHANGED opened
    BY <1>10 DEF WorkerStores, x
  <2>2. \/ db' = db /\ old' = old /\ Range(queue') = Range(queue) \cup {x}
        \/ /\ db' = db \cup KeysOf(Range(queue) \cup {x}) /\ Range(queue') = {}
           /\ old' = old \ KeysOf(Range(queue) \cup {x})
    BY <1>6, <2>1, EnqueueHandsOver DEF TypeOK
  <2>3. /\ KeysOf(Range(queue) \cup {x}) = KeysOf(Range(queue)) \cup KeysOf({x})
        /\ KeysOf({}) = {}
    BY DEF KeysOf
  <2>4. KeysOf(Sent') = db' \cup KeysOf(Range(queue')) \cup KeysOf(Range(fileChan'))
    BY <1>1, <1>2, <1>4, <1>5, <1>6, <2>1, <2>2, <2>3
  <2>5. Range(fileChan') \subseteq Sent' /\ Range(queue') \subseteq Sent'
    BY <1>1, <1>2, <1>4, <1>5, <1>6, <2>2
  <2>6. changes = 0 => count' + Len(fileChan') = Cardinality(Sent')
    BY <1>1, <1>2, <1>4, <1>5, <1>6, <1>7, <1>8, <2>1
  <2>7. Range(queue) \cup {x} \in SUBSET Sent
    BY <1>2, <1>6
  <2> QED BY <1>1, <1>2, <1>4, <2>1, <2>2, <2>4, <2>5, <2>6, <2>7 DEF Sending
<1> QED BY <1>9, <1>10

(* The program returns.                                                    *)
LEMMA FinishCore ==
  ASSUME TypeOK, Sending, program # "structs", Finish
  PROVE  /\ Sending' /\ Sent' = Sent
         /\ main' = "returned" /\ program = "fetch" =>
                db' = KeysOf(Sent) /\ (OldApart => old' = old \ db')
         /\ main' = "crashed" => db' = db /\ old' = old
<1> DEFINE none == <<>>
<1>1. /\ main = "sending" /\ main' \in {"returned", "crashed"}
      /\ next > Len(files) /\ fileChan = none
      /\ UNCHANGED <<files, next, fileChan, count, startVars, changes, program, opened>>
  BY DEF Finish, AllSent, listVars, diskVars, startVars, sendVars
<1>2. /\ next <= Len(files) + 1
      /\ Range(fileChan) \subseteq Sent /\ Range(queue) \subseteq Sent
      /\ program = "sync" => queue = <<>>
      /\ program = "fetch" =>
              KeysOf(Sent) = db \cup KeysOf(Range(queue)) \cup KeysOf(Range(fileChan))
      /\ changes = 0 =>
              count + (IF program = "fetch" THEN Len(fileChan) ELSE 0) = Cardinality(Sent)
  BY <1>1 DEF Sending
<1>3. \A f : Chosen(f)' <=> Chosen(f)
  BY <1>1 DEF startVars, Chosen, Ids
<1>4. Sent' = Sent
  BY <1>1, <1>3 DEF Sent
<1>5. Range(none) = {} /\ KeysOf({}) = {}
  BY DEF Range, KeysOf
<1>6. next = Len(files) + 1
  BY <1>1, <1>2, LenProperties DEF TypeOK
<1> HIDE DEF none
<1>7. CASE main' = "crashed"
  <2>1. db' = db /\ old' = old
    BY <1>7 DEF Finish
  <2> QED BY <1>4, <1>7, <2>1 DEF Sending
<1>8. CASE main' = "returned"
  <2>1. \/ program = "fetch" /\ DrainAndSave
        \/ program = "sync" /\ UNCHANGED <<queue, db>>
    BY <1>8 DEF Finish
  <2>2. CASE program = "fetch"
    <3>1. /\ queue' = none /\ db' = db \cup KeysOf(Range(queue))
          /\ old' = old \ KeysOf(Range(queue))
      BY <1>1, <2>1, <2>2, DrainFacts DEF TypeOK, none
    <3>2. Range(queue') = {} /\ db' = KeysOf(Sent)
      BY <1>1, <1>2, <1>5, <2>2, <3>1
    <3>3. OldApart => old' = old \ db'
      BY <3>1 DEF OldApart
    <3> QED BY <1>1, <1>2, <1>4, <1>5, <1>6, <1>8, <2>2, <3>1, <3>2, <3>3 DEF Sending, none
  <2>3. CASE program = "sync"
    <3> QED BY <1>1, <1>2, <1>4, <1>6, <1>8, <2>1, <2>3 DEF Sending, none
  <2> QED BY <2>1, <2>2, <2>3
<1> QED BY <1>1, <1>7, <1>8

(* Sending and the phases before it after every step of the program.       *)
LEMMA SendNext ==
  ASSUME TypeOK, TypeOK', ListInv, Phase, Sending, ProgramStep \/ DiskChanges
  PROVE  Phase' /\ Sending'
<1>1. CASE RegretNetDiskWithToken \/ ListStep \/ DiskChanges
  <2>1. main \in {"login", "listing"} /\ main' \in {"listing", "crashed"}
    BY <1>1 DEF RegretNetDiskWithToken, ListStep, DiskChanges, PageArrives, OtherBody, FirstPageFails,
           PageSkipped, LookUp, Descend, Ascend, Listing
  <2>2. UNCHANGED <<next, fileChan, count, queue, db>>
    BY <1>1 DEF RegretNetDiskWithToken, ListStep, DiskChanges, PageArrives, OtherBody, FirstPageFails,
           PageSkipped, LookUp, Descend, Ascend, sendVars, bqVars
  <2> QED BY <2>1, <2>2 DEF Phase, Sending
<1>2. CASE PrintTree
  <2>1. main' = "returned" /\ program = "structs" /\ calls = <<>> /\ UNCHANGED <<program, calls>>
    BY <1>2 DEF PrintTree, startVars, listVars
  <2> QED BY <2>1 DEF Phase, Sending
<1>3. CASE StartSending
  <2>1. /\ main = "listing" /\ calls = <<>> /\ main' = "sending" /\ program # "structs"
        /\ UNCHANGED <<queue, db, startVars, program, changes, calls, files, next, fileChan, count>>
    BY <1>3 DEF StartSending, startVars, listVars, diskVars, sendVars, bqVars
  <2>2. next = 1 /\ fileChan = <<>> /\ count = 0 /\ queue = <<>> /\ db = {}
    BY <2>1 DEF Phase
  <2>3. \A f : Chosen(f)' <=> Chosen(f)
    BY <2>1 DEF startVars, Chosen, Ids
  <2>4. Sent' = Sent /\ Sent = {} /\ Cardinality(Sent) = 0 /\ KeysOf({}) = {}
    BY <2>1, <2>2, <2>3, SentNone DEF Sent, KeysOf
  <2>5. Range(<<>>) = {} /\ Len(<<>>) = 0
    BY DEF Range
  <2>6. next <= Len(files) + 1
    BY <2>2, LenProperties DEF TypeOK
  <2> DEFINE none == <<>>
  <2>7. /\ fileChan' = none /\ queue' = none /\ Range(none) = {} /\ Len(none) = 0
        /\ main' = "sending" /\ changes' = changes
    BY <2>1, <2>2, <2>5
  <2>8. Phase'
    BY <2>1 DEF Phase
  <2>9. next' <= Len(files') + 1 /\ count' = 0 /\ db' = {} /\ Sent' = {} /\ Cardinality(Sent') = 0
    BY <2>1, <2>2, <2>4, <2>6
  <2>10. program' = "sync" => queue' = <<>>
    BY <2>1, <2>2
  <2> HIDE DEF none
  <2>11. Range(fileChan') \subseteq Sent' /\ Range(queue') \subseteq Sent'
    BY <2>7
  <2>12. KeysOf(Sent') = db' \cup KeysOf(Range(queue')) \cup KeysOf(Range(fileChan'))
    BY <2>4, <2>7, <2>9
  <2>13. count' + (IF program' = "fetch" THEN Len(fileChan') ELSE 0) = Cardinality(Sent')
    BY <2>7, <2>9
  <2> QED BY <2>7, <2>8, <2>9, <2>10, <2>11, <2>12, <2>13 DEF Sending
<1>4. CASE SendFile \/ WorkerStores \/ WorkerDrops
  <2>1. main = "sending" /\ main' = "sending" /\ UNCHANGED <<calls, program>>
    BY <1>4 DEF SendFile, WorkerStores, WorkerDrops, listVars, startVars
  <2>2. Phase'
    BY <2>1 DEF Phase
  <2>3. CASE program # "structs"
    BY <1>4, <2>2, <2>3, SendFileCore, WorkerCore
  <2>4. CASE program = "structs"
    BY <2>1, <2>2, <2>4 DEF Sending
  <2> QED BY <2>3, <2>4
<1>5. CASE WorkerPanics
  <2>1. main' = "crashed"
    BY <1>5 DEF WorkerPanics
  <2> QED BY <2>1 DEF Phase, Sending
<1>6. CASE Finish
  <2>1. main = "sending" /\ main' \in {"returned", "crashed"} /\ UNCHANGED <<calls, program>>
    BY <1>6 DEF Finish, AllSent, listVars, startVars
  <2>2. Phase'
    BY <2>1 DEF Phase
  <2>3. program # "structs"
    BY <1>6 DEF Finish
  <2> QED BY <1>6, <2>2, <2>3, FinishCore
<1> QED BY <1>1, <1>2, <1>3, <1>4, <1>5, <1>6 DEF ProgramStep, SendStep

-----------------------------------------------------------------------------
(* The download.                                                           *)
AttemptType == [retry : 0..MaxRetry, at : {"check", "stream", "return"}, hash : BOOLEAN, ok : BOOLEAN]

(* The part of the type invariant that the download changes.               *)
DownTypes ==
    /\ remaining \in SUBSET Paths
    /\ current \in SUBSET Paths /\ Cardinality(current) <= 1
    /\ attempts \in Seq(AttemptType)
    /\ disk \in [Paths -> {"none", "whole", "cut", "other"}]
    /\ requests \in [Paths -> Nat]
    /\ synced \in SUBSET Paths /\ failed \in SUBSET Paths

(* The call of SingleFileDownload at a retry count.                        *)
Level(q) == attempts[Len(attempts) - q]

LevelNext(q) == attempts'[Len(attempts') - q]

(* The innermost call.                                                     *)
LEMMA InnerFacts ==
  ASSUME DownTypes, attempts # <<>>
  PROVE  /\ Len(attempts) \in Nat \ {0} /\ Inner \in AttemptType
         /\ Inner = Level(Len(attempts) - 1)
         /\ \A q \in 0..(Len(attempts) - 1) : Level(q) \in AttemptType
<1>1. Len(attempts) \in Nat \ {0} /\ DOMAIN attempts = 1..Len(attempts) /\ attempts \in Seq(AttemptType)
  BY HeadTailFacts DEF DownTypes
<1>2. \A k \in 1..Len(attempts) : attempts[k] \in AttemptType
  BY <1>1, ElementOfSeq
<1>3. Len(attempts) - (Len(attempts) - 1) = 1
  BY <1>1
<1>4. \A q \in 0..(Len(attempts) - 1) : Len(attempts) - q \in 1..Len(attempts)
  BY <1>1
<1> QED BY <1>1, <1>2, <1>3, <1>4 DEF Level, Inner

(* A call with other fields is a call.                                     *)
LEMMA CallFields ==
  ASSUME NEW c \in AttemptType
  PROVE  /\ [c EXCEPT !.at = "stream"] = [retry |-> c.retry, at |-> "stream", hash |-> c.hash, ok |-> c.ok]
         /\ [c EXCEPT !.at = "return"] = [retry |-> c.retry, at |-> "return", hash |-> c.hash, ok |-> c.ok]
         /\ [c EXCEPT !.at = "stream", !.hash = TRUE]
               = [retry |-> c.retry, at |-> "stream", hash |-> TRUE, ok |-> c.ok]
         /\ [c EXCEPT !.at = "return", !.ok = TRUE]
               = [retry |-> c.retry, at |-> "return", hash |-> c.hash, ok |-> TRUE]
<1> DEFINE r0 == [retry |-> c.retry, at |-> c.at, hash |-> c.hash, ok |-> c.ok]
<1>1. c = r0
  BY DEF AttemptType
<1>2. [r0 EXCEPT !.at = "stream"] = [retry |-> c.retry, at |-> "stream", hash |-> c.hash, ok |-> c.ok]
  OBVIOUS
<1>3. [r0 EXCEPT !.at = "return"] = [retry |-> c.retry, at |-> "return", hash |-> c.hash, ok |-> c.ok]
  OBVIOUS
<1> DEFINE r1 == [retry |-> c.retry, at |-> "stream", hash |-> c.hash, ok |-> c.ok]
           r2 == [retry |-> c.retry, at |-> "return", hash |-> c.hash, ok |-> c.ok]
<1>a. ASSUME NEW x
      PROVE  /\ [r1 EXCEPT !.hash = x] = [retry |-> c.retry, at |-> "stream", hash |-> x, ok |-> c.ok]
             /\ [r2 EXCEPT !.ok = x] = [retry |-> c.retry, at |-> "return", hash |-> c.hash, ok |-> x]
  OBVIOUS
<1>4. [r1 EXCEPT !.hash = TRUE]
               = [retry |-> c.retry, at |-> "stream", hash |-> TRUE, ok |-> c.ok]
  BY <1>a
<1>5. [r2 EXCEPT !.ok = TRUE]
               = [retry |-> c.retry, at |-> "return", hash |-> c.hash, ok |-> TRUE]
  BY <1>a
<1>6. /\ [c EXCEPT !.at = "stream", !.hash = TRUE] = [[c EXCEPT !.at = "stream"] EXCEPT !.hash = TRUE]
      /\ [c EXCEPT !.at = "return", !.ok = TRUE] = [[c EXCEPT !.at = "return"] EXCEPT !.ok = TRUE]
  OBVIOUS
<1>7. [c EXCEPT !.at = "stream"] = r1 /\ [c EXCEPT !.at = "return"] = r2
  <2> HIDE DEF r0
  <2> QED BY <1>1, <1>2, <1>3
<1> HIDE DEF r0, r1, r2
<1>8. /\ [c EXCEPT !.at = "stream", !.hash = TRUE]
               = [retry |-> c.retry, at |-> "stream", hash |-> TRUE, ok |-> c.ok]
      /\ [c EXCEPT !.at = "return", !.ok = TRUE]
               = [retry |-> c.retry, at |-> "return", hash |-> c.hash, ok |-> TRUE]
  BY <1>4, <1>5, <1>6, <1>7
<1> QED BY <1>7, <1>8 DEF r1, r2

(* The innermost call goes on, and is the innermost still.                 *)
GoesOn(call) ==
    /\ attempts' \in Seq(AttemptType) /\ Len(attempts') = Len(attempts)
    /\ \A q \in 0..(Len(attempts) - 2) : LevelNext(q) = Level(q)
    /\ LevelNext(Len(attempts) - 1) = call

(* It makes a recursive call.                                              *)
Recurses(call) ==
    /\ attempts' \in Seq(AttemptType) /\ Len(attempts') = Len(attempts) + 1
    /\ \A q \in 0..(Len(attempts) - 2) : LevelNext(q) = Level(q)
    /\ LevelNext(Len(attempts) - 1) = call
    /\ LevelNext(Len(attempts)) = Attempt(Inner.retry + 1)

(* It returns.                                                             *)
Returns ==
    /\ attempts' \in Seq(AttemptType) /\ Len(attempts') = Len(attempts) - 1
    /\ \A q \in 0..(Len(attempts) - 2) : LevelNext(q) = Level(q)

(* The innermost call is replaced.                                         *)
LEMMA GoesOnFacts ==
  ASSUME DownTypes, attempts # <<>>, NEW call \in AttemptType,
         attempts' = [attempts EXCEPT ![1] = call] \/ attempts' = <<call>> \o Tail(attempts)
  PROVE  GoesOn(call)
<1> DEFINE m == Len(attempts)
<1>1. m \in Nat \ {0} /\ DOMAIN attempts = 1..m /\ attempts \in Seq(AttemptType)
  BY HeadTailFacts DEF DownTypes
<1>2. /\ attempts' \in Seq(AttemptType) /\ Len(attempts') = m
      /\ \A k \in 1..m : attempts'[k] = IF k = 1 THEN call ELSE attempts[k]
  <2>1. CASE attempts' = [attempts EXCEPT ![1] = call]
    <3>1. 1 \in 1..m
      BY <1>1
    <3> QED BY <1>1, <2>1, <3>1, ExceptSeq
  <2>2. CASE attempts' = <<call>> \o Tail(attempts)
    <3> DEFINE t == Tail(attempts)
    <3>1. t \in Seq(AttemptType) /\ Len(t) = m - 1 /\ \A i \in 1..(m - 1) : t[i] = attempts[i + 1]
      BY <1>1, HeadTailFacts
    <3> HIDE DEF t
    <3>2. /\ <<call>> \o t \in Seq(AttemptType) /\ Len(<<call>> \o t) = Len(t) + 1
          /\ (<<call>> \o t)[1] = call
          /\ \A i \in 1..Len(t) : (<<call>> \o t)[i + 1] = t[i]
      BY <3>1, ConsFacts
    <3> DEFINE s == <<call>> \o t
    <3>3. s = attempts'
      BY <2>2 DEF t
    <3> HIDE DEF s
    <3>a. s \in Seq(AttemptType) /\ Len(s) = Len(t) + 1 /\ s[1] = call /\ \A i \in 1..Len(t) : s[i + 1] = t[i]
      BY <3>2 DEF s
    <3>4. s \in Seq(AttemptType) /\ Len(s) = m /\ s[1] = call /\ \A i \in 1..(m - 1) : s[i + 1] = attempts[i + 1]
      <4> HIDE DEF m
      <4>1. m \in Nat \ {0} /\ Len(t) = m - 1
        BY <1>1, <3>1
      <4>2. Len(s) = m
        BY <3>a, <4>1
      <4>3. \A i \in 1..(m - 1) : s[i + 1] = t[i]
        BY <3>a, <4>1
      <4>4. \A i \in 1..(m - 1) : t[i] = attempts[i + 1]
        BY <3>1 DEF m
      <4> QED BY <3>a, <4>2, <4>3, <4>4
    <3>5. \A k \in 1..m : k # 1 => k - 1 \in 1..(m - 1) /\ (k - 1) + 1 = k
      BY <1>1
    <3>6. \A k \in 1..m : k # 1 => s[k] = attempts[k]
      <4> SUFFICES ASSUME NEW k \in 1..m, k # 1 PROVE s[k] = attempts[k]
        OBVIOUS
      <4>1. s[(k - 1) + 1] = attempts[(k - 1) + 1]
        BY <3>4, <3>5
      <4> QED BY <3>5, <4>1
    <3> QED BY <3>3, <3>4, <3>6
  <2> QED BY <2>1, <2>2
<1> HIDE DEF m
<1>3. ASSUME NEW q \in 0..(m - 2) PROVE LevelNext(q) = Level(q)
  <2>1. m - q \in 1..m /\ m - q # 1
    BY <1>1
  <2> QED BY <1>2, <2>1 DEF Level, LevelNext, m
<1>4. m - (m - 1) = 1 /\ 1 \in 1..m
  BY <1>1
<1>5. LevelNext(m - 1) = attempts'[Len(attempts') - (m - 1)]
  BY DEF LevelNext, m
<1> QED BY <1>2, <1>3, <1>4, <1>5 DEF GoesOn, m

(* The recursive call is put in front.                                     *)
LEMMA RecursesFacts ==
  ASSUME DownTypes, attempts # <<>>, NEW call \in AttemptType, Attempt(Inner.retry + 1) \in AttemptType,
         attempts' = <<Attempt(Inner.retry + 1)>> \o <<call>> \o Tail(attempts)
  PROVE  Recurses(call)
<1> DEFINE m == Len(attempts)
           t == Tail(attempts)
           new == Attempt(Inner.retry + 1)
           two == <<new>> \o <<call>>
           s == two \o t
<1>1. m \in Nat \ {0} /\ t \in Seq(AttemptType) /\ Len(t) = m - 1 /\ \A i \in 1..(m - 1) : t[i] = attempts[i + 1]
  BY HeadTailFacts DEF DownTypes
<1>2. attempts' = s
  OBVIOUS
<1> HIDE DEF m, t, new
<1>3. two \in Seq(AttemptType) /\ Len(two) = 2 /\ two[1] = new /\ two[2] = call
  <2> DEFINE a == <<new>>
             b == <<call>>
  <2>1. new \in AttemptType
    BY DEF new
  <2>2. /\ a \in Seq(AttemptType) /\ Len(a) = 1 /\ a[1] = new
        /\ b \in Seq(AttemptType) /\ Len(b) = 1 /\ b[1] = call
    BY <2>1
  <2>3. two = a \o b
    OBVIOUS
  <2> HIDE DEF two, a, b
  <2>4. /\ two \in Seq(AttemptType) /\ Len(two) = Len(a) + Len(b)
        /\ \A i \in 1..(Len(a) + Len(b)) : two[i] = IF i <= Len(a) THEN a[i] ELSE b[i - Len(a)]
    BY <2>2, <2>3, ConcatProperties
  <2>5. Len(two) = 2 /\ \A i \in 1..2 : two[i] = IF i <= 1 THEN a[i] ELSE b[i - 1]
    BY <2>2, <2>4
  <2>6. two[1] = a[1] /\ two[2] = b[2 - 1]
    BY <2>5
  <2> QED BY <2>2, <2>4, <2>5, <2>6
<1> HIDE DEF two
<1>4. /\ s \in Seq(AttemptType) /\ Len(s) = Len(two) + Len(t)
      /\ \A i \in 1..(Len(two) + Len(t)) : s[i] = IF i <= Len(two) THEN two[i] ELSE t[i - Len(two)]
  BY <1>1, <1>3, ConcatProperties
<1> HIDE DEF s
<1>5. Len(two) + Len(t) = m + 1
  BY <1>1, <1>3
<1>6. Len(s) = m + 1 /\ \A i \in 1..(m + 1) : s[i] = IF i <= 2 THEN two[i] ELSE t[i - 2]
  BY <1>3, <1>4, <1>5
<1>7. s[1] = new /\ s[2] = call
  <2>1. 1 \in 1..(m + 1) /\ 2 \in 1..(m + 1)
    BY <1>1
  <2> QED BY <1>3, <1>6, <2>1
<1>8. ASSUME NEW q \in 0..(m - 2) PROVE s[(m + 1) - q] = attempts[m - q]
  <2>1. (m + 1) - q \in 1..(m + 1) /\ ~((m + 1) - q <= 2) /\ ((m + 1) - q) - 2 = m - q - 1
        /\ m - q - 1 \in 1..(m - 1) /\ (m - q - 1) + 1 = m - q
    BY <1>1
  <2>2. s[(m + 1) - q] = t[m - q - 1]
    BY <1>6, <2>1
  <2>3. t[m - q - 1] = attempts[(m - q - 1) + 1]
    BY <1>1, <2>1
  <2> QED BY <2>1, <2>2, <2>3
<1>9. (m + 1) - m = 1 /\ (m + 1) - (m - 1) = 2
  BY <1>1
<1>10. /\ LevelNext(m) = s[(m + 1) - m] /\ LevelNext(m - 1) = s[(m + 1) - (m - 1)]
       /\ \A q \in 0..(m - 2) : LevelNext(q) = s[(m + 1) - q] /\ Level(q) = attempts[m - q]
  BY <1>2, <1>6 DEF LevelNext, Level, m
<1>11. LevelNext(m) = new /\ LevelNext(m - 1) = call /\ \A q \in 0..(m - 2) : LevelNext(q) = Level(q)
  BY <1>7, <1>8, <1>9, <1>10
<1> QED BY <1>2, <1>4, <1>6, <1>11 DEF Recurses, m, new

(* The innermost call is taken away.                                       *)
LEMMA ReturnsFacts ==
  ASSUME DownTypes, attempts # <<>>, attempts' = Tail(attempts)
  PROVE  Returns
<1> DEFINE m == Len(attempts)
           t == Tail(attempts)
<1>1. m \in Nat \ {0} /\ t \in Seq(AttemptType) /\ Len(t) = m - 1 /\ \A i \in 1..(m - 1) : t[i] = attempts[i + 1]
  BY HeadTailFacts DEF DownTypes
<1>2. attempts' = t
  OBVIOUS
<1> HIDE DEF m, t
<1>3. ASSUME NEW q \in 0..(m - 2) PROVE LevelNext(q) = Level(q)
  <2>1. (m - 1) - q \in 1..(m - 1) /\ ((m - 1) - q) + 1 = m - q
    BY <1>1
  <2>2. t[(m - 1) - q] = attempts[m - q]
    BY <1>1, <2>1
  <2> QED BY <1>1, <1>2, <2>2 DEF LevelNext, Level, m
<1> QED BY <1>1, <1>2, <1>3 DEF Returns, m

(* The recursive call is made if the retry count allows.                   *)
LEMMA RetryFacts ==
  ASSUME DownTypes, attempts # <<>>, NEW call \in AttemptType, Retry(call)
  PROVE  \/ Inner.retry >= MaxRetry /\ GoesOn(call)
         \/ Inner.retry < MaxRetry /\ Recurses(call)
<1>1. Inner.retry \in 0..MaxRetry /\ MaxRetry \in Nat
  BY InnerFacts, RetryAssumption DEF AttemptType
<1>2. CASE Inner.retry < MaxRetry
  <2>1. attempts' = <<Attempt(Inner.retry + 1)>> \o <<call>> \o Tail(attempts)
    BY <1>2 DEF Retry
  <2>2. Attempt(Inner.retry + 1) \in AttemptType
    <3>1. Inner.retry + 1 \in 0..MaxRetry
      BY <1>1, <1>2
    <3> QED BY <3>1 DEF Attempt, AttemptType
  <2> QED BY <1>2, <2>1, <2>2, RecursesFacts
<1>3. CASE ~(Inner.retry < MaxRetry)
  <2>1. attempts' = <<>> \o <<call>> \o Tail(attempts)
    BY <1>3 DEF Retry
  <2> DEFINE one == <<call>>
             t == Tail(attempts)
  <2>2. t \in Seq(AttemptType) /\ one \in Seq(AttemptType)
    BY HeadTailFacts DEF DownTypes
  <2>3. attempts' = (<<>> \o one) \o t
    BY <2>1
  <2> HIDE DEF one, t
  <2>4. <<>> \o one = one
    BY <2>2, ConcatEmptySeq
  <2>5. attempts' = <<call>> \o Tail(attempts)
    BY <2>3, <2>4 DEF one, t
  <2> QED BY <1>1, <1>3, <2>5, GoesOnFacts
<1> QED BY <1>2, <1>3

(* A call that asks for the region hash goes on with the stream.           *)
LEMMA CheckFacts ==
  ASSUME DownTypes, DownloadCheck
  PROVE  /\ attempts # <<>> /\ Inner.at = "check" /\ Asked
         /\ UNCHANGED <<remaining, current, disk, synced, failed>>
         /\ \E call \in AttemptType :
               /\ call.retry = Inner.retry /\ call.at = "stream" /\ call.ok = Inner.ok
               /\ GoesOn(call) \/ (Inner.retry < MaxRetry /\ Recurses(call))
<1>1. /\ attempts # <<>> /\ Inner.at = "check" /\ Asked
      /\ UNCHANGED <<remaining, current, disk, synced, failed>>
  BY DEF DownloadCheck
<1>2. Inner \in AttemptType
  BY <1>1, InnerFacts
<1> DEFINE c1 == [retry |-> Inner.retry, at |-> "stream", hash |-> TRUE, ok |-> Inner.ok]
           c2 == [retry |-> Inner.retry, at |-> "stream", hash |-> Inner.hash, ok |-> Inner.ok]
<1>3. c1 \in AttemptType /\ c2 \in AttemptType
  BY <1>2 DEF AttemptType
<1>4. /\ c1.retry = Inner.retry /\ c1.at = "stream" /\ c1.ok = Inner.ok
      /\ c2.retry = Inner.retry /\ c2.at = "stream" /\ c2.ok = Inner.ok
  OBVIOUS
<1>5. /\ [Inner EXCEPT !.at = "stream", !.hash = TRUE] = c1
      /\ [Inner EXCEPT !.at = "stream"] = c2
  BY <1>2, CallFields
<1>6. \/ attempts' = [attempts EXCEPT ![1] = [Inner EXCEPT !.at = "stream", !.hash = TRUE]]
      \/ attempts' = [attempts EXCEPT ![1] = [Inner EXCEPT !.at = "stream"]]
      \/ Retry([Inner EXCEPT !.at = "stream"])
  BY DEF DownloadCheck, Inner
<1>7. \/ attempts' = [attempts EXCEPT ![1] = c1]
      \/ attempts' = [attempts EXCEPT ![1] = c2]
      \/ Retry(c2)
  BY <1>5, <1>6
<1> HIDE DEF c1, c2
<1>8. CASE attempts' = [attempts EXCEPT ![1] = c1]
  BY <1>1, <1>3, <1>4, <1>8, GoesOnFacts
<1>9. CASE attempts' = [attempts EXCEPT ![1] = c2]
  BY <1>1, <1>3, <1>4, <1>9, GoesOnFacts
<1>10. CASE Retry(c2)
  <2>1. GoesOn(c2) \/ (Inner.retry < MaxRetry /\ Recurses(c2))
    BY <1>1, <1>3, <1>10, RetryFacts
  <2> QED BY <1>1, <1>3, <1>4, <2>1
<1> QED BY <1>7, <1>8, <1>9, <1>10

(* A call whose stream breaks ends, behind a recursive call if the retry   *)
(* count allows.                                                           *)
LEMMA BreaksFacts ==
  ASSUME DownTypes, StreamBreaks
  PROVE  /\ attempts # <<>> /\ Inner.at = "stream" /\ Asked
         /\ UNCHANGED <<remaining, current, synced, failed>>
         /\ disk' = disk \/ disk' = [disk EXCEPT ![File] = "cut"]
         /\ \E call \in AttemptType :
               /\ call.retry = Inner.retry /\ call.at = "return" /\ call.ok = Inner.ok
               /\ \/ Inner.retry >= MaxRetry /\ GoesOn(call)
                  \/ Inner.retry < MaxRetry /\ Recurses(call)
<1>1. /\ attempts # <<>> /\ Inner.at = "stream" /\ Asked
      /\ UNCHANGED <<remaining, current, synced, failed>>
      /\ disk' = disk \/ disk' = [disk EXCEPT ![File] = "cut"]
      /\ Retry([Inner EXCEPT !.at = "return"])
  BY DEF StreamBreaks
<1>2. Inner \in AttemptType
  BY <1>1, InnerFacts
<1> DEFINE c2 == [retry |-> Inner.retry, at |-> "return", hash |-> Inner.hash, ok |-> Inner.ok]
<1>3. c2 \in AttemptType
  BY <1>2 DEF AttemptType
<1>4. c2.retry = Inner.retry /\ c2.at = "return" /\ c2.ok = Inner.ok
  OBVIOUS
<1>5. Retry(c2)
  BY <1>1, <1>2, CallFields
<1> HIDE DEF c2
<1>6. \/ Inner.retry >= MaxRetry /\ GoesOn(c2)
      \/ Inner.retry < MaxRetry /\ Recurses(c2)
  BY <1>1, <1>3, <1>5, RetryFacts
<1> QED BY <1>1, <1>3, <1>4, <1>6

(* A call whose stream arrives ends well.                                  *)
LEMMA ArrivesFacts ==
  ASSUME DownTypes, StreamArrives
  PROVE  /\ attempts # <<>> /\ Inner.at = "stream" /\ Asked
         /\ UNCHANGED <<remaining, current, synced, failed>>
         /\ \E v \in {"whole", "other"} : disk' = [disk EXCEPT ![File] = v]
         /\ \E call \in AttemptType :
               call.retry = Inner.retry /\ call.at = "return" /\ call.ok = TRUE /\ GoesOn(call)
<1>1. /\ attempts # <<>> /\ Inner.at = "stream" /\ Asked
      /\ UNCHANGED <<remaining, current, synced, failed>>
      /\ \E v \in {"whole", "other"} : disk' = [disk EXCEPT ![File] = v]
      /\ attempts' = [attempts EXCEPT ![1] = [Inner EXCEPT !.at = "return", !.ok = TRUE]]
  BY DEF StreamArrives, Inner
<1>2. Inner \in AttemptType
  BY <1>1, InnerFacts
<1> DEFINE c2 == [retry |-> Inner.retry, at |-> "return", hash |-> Inner.hash, ok |-> TRUE]
<1>3. c2 \in AttemptType
  BY <1>2 DEF AttemptType
<1>4. c2.retry = Inner.retry /\ c2.at = "return" /\ c2.ok = TRUE
  OBVIOUS
<1>5. attempts' = [attempts EXCEPT ![1] = c2]
  BY <1>1, <1>2, CallFields
<1> HIDE DEF c2
<1>6. GoesOn(c2)
  BY <1>1, <1>3, <1>5, GoesOnFacts
<1> QED BY <1>1, <1>3, <1>4, <1>6

(* The outermost call gives the verdict, a nested one none.                *)
LEMMA ReturnFacts ==
  ASSUME DownTypes, AttemptReturns
  PROVE  /\ attempts # <<>> /\ Inner.at = "return" /\ Returns
         /\ UNCHANGED <<remaining, disk, requests>>
         /\ Len(attempts) = 1 => /\ synced' = (IF Inner.ok THEN synced \cup current ELSE synced)
                                 /\ failed' = (IF Inner.ok THEN failed ELSE failed \cup current)
                                 /\ current' = {}
         /\ Len(attempts) # 1 => UNCHANGED <<synced, failed, current>>
<1>1. attempts # <<>> /\ attempts' = Tail(attempts)
  BY DEF AttemptReturns
<1>2. Returns
  BY <1>1, ReturnsFacts
<1> QED BY <1>1, <1>2 DEF AttemptReturns

(* The program and the disk stay as they are while files are downloaded.   *)
LEMMA DownType ==
  ASSUME DownTypes, NetDiskStep \/ TakeEntry \/ SingleFileDownload
  PROVE  DownTypes'
<1>0. /\ remaining \in SUBSET Paths /\ current \in SUBSET Paths /\ Cardinality(current) <= 1
      /\ attempts \in Seq(AttemptType) /\ requests \in [Paths -> Nat]
      /\ disk \in [Paths -> {"none", "whole", "cut", "other"}]
      /\ synced \in SUBSET Paths /\ failed \in SUBSET Paths
  BY DEF DownTypes
<1>1. Asked => requests' \in [Paths -> Nat]
  <2>1. \A f \in Paths : requests[f] + 1 \in Nat
    BY <1>0
  <2> QED BY <1>0, <2>1 DEF Asked
<1>2. CASE NetDiskStep
  <2>1. remaining' \in SUBSET Paths
    BY <1>2 DEF NetDiskStep
  <2>2. UNCHANGED <<current, attempts, disk, requests, synced, failed>>
    BY <1>2 DEF NetDiskStep
  <2> QED BY <1>0, <2>1, <2>2 DEF DownTypes
<1>3. CASE TakeEntry
  <2>1. PICK f \in remaining : current' = {f} /\ remaining' = remaining \ {f}
    BY <1>3 DEF TakeEntry
  <2>2. Cardinality({f}) = 1
    BY FS_Singleton
  <2>3. attempts' = <<Attempt(0)>> /\ UNCHANGED <<disk, requests, synced, failed>>
    BY <1>3 DEF TakeEntry
  <2>4. Attempt(0) \in AttemptType
    BY RetryAssumption DEF Attempt, AttemptType
  <2>5. attempts' \in Seq(AttemptType)
    BY <2>3, <2>4
  <2> QED BY <1>0, <2>1, <2>2, <2>3, <2>5 DEF DownTypes
<1>4. CASE DownloadCheck
  <2>1. Asked /\ UNCHANGED <<remaining, current, disk, synced, failed>> /\ attempts' \in Seq(AttemptType)
    BY <1>4, CheckFacts DEF GoesOn, Recurses
  <2> QED BY <1>0, <1>1, <2>1 DEF DownTypes
<1>5. CASE StreamArrives \/ StreamBreaks
  <2>1. Asked /\ UNCHANGED <<remaining, current, synced, failed>> /\ attempts' \in Seq(AttemptType)
    BY <1>5, ArrivesFacts, BreaksFacts DEF GoesOn, Recurses
  <2>2. disk' = disk \/ \E v \in {"whole", "other", "cut"} : disk' = [disk EXCEPT ![File] = v]
    BY <1>5, ArrivesFacts, BreaksFacts
  <2>3. disk' \in [Paths -> {"none", "whole", "cut", "other"}]
    BY <1>0, <2>2
  <2> QED BY <1>0, <1>1, <2>1, <2>3 DEF DownTypes
<1>6. CASE AttemptReturns
  <2>1. /\ UNCHANGED <<remaining, disk, requests>> /\ attempts' \in Seq(AttemptType)
        /\ synced' \in {synced, synced \cup current} /\ failed' \in {failed, failed \cup current}
        /\ current' \in {current, {}}
    BY <1>6, ReturnFacts DEF Returns
  <2>2. Cardinality({}) = 0
    BY FS_EmptySet
  <2>3. current' \in SUBSET Paths /\ Cardinality(current') <= 1
    <3>1. CASE current' = {}
      BY <2>2, <3>1
    <3>2. CASE current' = current
      BY <1>0, <3>2
    <3> QED BY <2>1, <3>1, <3>2
  <2>4. synced' \in SUBSET Paths /\ failed' \in SUBSET Paths
    BY <1>0, <2>1
  <2> QED BY <1>0, <2>1, <2>3, <2>4 DEF DownTypes
<1> QED BY <1>2, <1>3, <1>4, <1>5, <1>6 DEF SingleFileDownload

-----------------------------------------------------------------------------
(* The whole program.                                                      *)
IInv ==
    /\ TypeOK /\ DownTypes
    /\ ListInv
    /\ Phase
    /\ Sending

(* It holds at the start.                                                  *)
LEMMA InitInv == DownloadInit => IInv
<1> SUFFICES ASSUME DownloadInit PROVE IInv
  OBVIOUS
<1>1. Init
  BY DEF DownloadInit
<1>2. TypeOK /\ ListInv
  BY <1>1, TypeInit, ListInit
<1>3. Phase /\ Sending
  BY <1>1 DEF Init, BatchInit, Phase, Sending
<1>4. DownTypes
  <2>1. /\ remaining = {} /\ current = {} /\ attempts = <<>>
        /\ disk = [f \in Paths |-> "none"] /\ requests = [f \in Paths |-> 0]
        /\ synced = {} /\ failed = {}
    BY DEF DownloadInit
  <2>2. <<>> \in Seq(AttemptType) /\ Cardinality({}) = 0
    BY EmptySeq, FS_EmptySet
  <2> QED BY <2>1, <2>2 DEF DownTypes
<1> QED BY <1>2, <1>3, <1>4 DEF IInv

(* The listing and the sending do not change behind their end.             *)
LEMMA AloneInv ==
  ASSUME IInv, UNCHANGED ndVars
  PROVE  TypeOK' /\ ListInv' /\ Phase' /\ Sending'
<1>1. UNCHANGED <<bqVars, startVars, diskVars, listVars, sendVars, token, main, nodes, faults>>
  BY DEF ndVars
<1>2. UNCHANGED <<queue, db, old, opened, program, caller, wanted, tree, changes, calls, looking, files,
                  folders, missed, next, fileChan, count, token, main, nodes, faults>>
  BY <1>1 DEF bqVars, startVars, diskVars, listVars, sendVars
<1>3. TypeOK'
  BY <1>2 DEF IInv, TypeOK, BatchTypeOK
<1>4. ListInv'
  BY <1>2, ListUnchanged DEF IInv
<1>5. Phase'
  BY <1>2 DEF IInv, Phase
<1>6. Sending'
  BY <1>1, <1>2, SendUnchanged DEF IInv
<1> QED BY <1>3, <1>4, <1>5, <1>6

(* Every step keeps it.                                                    *)
LEMMA NextInv == IInv /\ [Next]_vars => IInv'
<1> SUFFICES ASSUME IInv, [Next]_vars PROVE IInv'
  OBVIOUS
<1>1. CASE NetDiskStep
  <2>1. ProgramStep \/ DiskChanges
    BY <1>1 DEF NetDiskStep
  <2>2. TypeOK'
    BY <2>1, TypeList, TypeSend DEF IInv, ProgramStep
  <2>3. ListInv'
    BY <2>1, ListNext DEF IInv
  <2>4. Phase' /\ Sending'
    BY <2>1, <2>2, SendNext DEF IInv
  <2>5. DownTypes'
    BY <1>1, DownType DEF IInv
  <2> QED BY <2>2, <2>3, <2>4, <2>5 DEF IInv
<1>2. CASE TakeEntry \/ SingleFileDownload
  <2>1. UNCHANGED ndVars
    BY <1>2 DEF TakeEntry, SingleFileDownload, DownloadCheck, StreamArrives, StreamBreaks, AttemptReturns
  <2>2. DownTypes'
    BY <1>2, DownType DEF IInv
  <2> QED BY <2>1, <2>2, AloneInv DEF IInv
<1>3. CASE UNCHANGED vars
  <2>1. UNCHANGED ndVars /\ UNCHANGED <<remaining, current, attempts, disk, requests, synced, failed>>
    BY <1>3 DEF vars, dlVars
  <2>2. DownTypes'
    BY <2>1 DEF IInv, DownTypes
  <2> QED BY <2>1, <2>2, AloneInv DEF IInv
<1> QED BY <1>1, <1>2, <1>3 DEF Next, Terminated

(* The inductive invariant of the listing, the sending and the download.   *)
THEOREM Invariance == Spec => []IInv
  BY InitInv, NextInv, PTL DEF Spec

(* The variables of the listing and of the download always have their      *)
(* types.                                                                  *)
THEOREM TypeCorrect == Spec => []DownloadTypeOK
<1>1. IInv => DownloadTypeOK
  BY DEF IInv, DownTypes, DownloadTypeOK, AttemptType
<1> QED BY <1>1, Invariance, PTL

-----------------------------------------------------------------------------
(* When a fetch or a sync has returned, every folder it got to has been    *)
(* begun and all its pages have been asked for, so what is not listed was  *)
(* on a page that failed.                                                  *)
LEMMA InvAccounts == IInv => FetchAccountsForLoss
<1> SUFFICES ASSUME IInv, main = "returned", program # "structs", changes = 0
             PROVE  /\ \A d \in Folders : Listed(d) =>
                          \A i \in DOMAIN tree[d] : Listed(tree[d][i]) <=> PageRead(d, i, FetchPage)
                    /\ IsInjective(files)
                    /\ count = Cardinality({f \in Range(files) : Chosen(f)})
                    /\ program = "fetch" => db = KeysOf({f \in Range(files) : Chosen(f)})
  BY DEF FetchAccountsForLoss
<1>1. TypeOK /\ calls = <<>> /\ ListCore
  BY DEF IInv, Phase, ListInv
<1>2. files \in Seq(Paths) /\ DOMAIN files = 1..Len(files) /\ Len(files) \in Nat
  BY <1>1, LenProperties DEF TypeOK
<1>3. Begun = Seen /\ \A d, i : Passed(d, i)
  BY <1>1 DEF Begun, Pending, Passed
<1>4. ASSUME NEW d \in Folders, Listed(d), NEW i \in DOMAIN tree[d]
      PROVE  Listed(tree[d][i]) <=> PageRead(d, i, FetchPage)
  <2>1. d \notin Range(files)
    BY <1>2, RangeOfSeq, ConstantTypes
  <2>2. d \in Begun
    BY <1>3, <1>4, <2>1, ListedFacts
  <2>3. ListedExactly
    BY <1>1 DEF ListCore
  <2> QED BY <1>3, <2>2, <2>3 DEF ListedExactly
<1>5. /\ fileChan = <<>> /\ queue = <<>> /\ next = Len(files) + 1
      /\ program = "fetch" =>
              KeysOf(Sent) = db \cup KeysOf(Range(queue)) \cup KeysOf(Range(fileChan))
      /\ count + (IF program = "fetch" THEN Len(fileChan) ELSE 0) = Cardinality(Sent)
  BY DEF IInv, Sending
<1>6. Sent = {f \in Range(files) : Chosen(f)}
  <2>1. next - 1 = Len(files)
    BY <1>2, <1>5
  <2>2. \A f : f \in Sent <=> Chosen(f) /\ \E i \in 1..Len(files) : f = files[i]
    BY <1>1, <1>2, <1>5, <2>1, SentFacts
  <2> QED BY <1>2, <2>2 DEF Range
<1>7. Range(<<>>) = {} /\ Len(<<>>) = 0 /\ KeysOf({}) = {}
  BY DEF Range, KeysOf
<1> DEFINE none == <<>>
<1>8. fileChan = none /\ queue = none /\ Range(none) = {} /\ Len(none) = 0
  BY <1>5, <1>7
<1> HIDE DEF none
<1>9. count = Cardinality(Sent) /\ (program = "fetch" => db = KeysOf(Sent))
  <2>1. count \in Nat
    BY <1>1 DEF TypeOK
  <2>2. (IF program = "fetch" THEN Len(fileChan) ELSE 0) = 0
    BY <1>8
  <2>3. count = Cardinality(Sent)
    BY <1>5, <2>1, <2>2
  <2>4. program = "fetch" => db = KeysOf(Sent)
    BY <1>5, <1>7, <1>8
  <2> QED BY <2>3, <2>4
<1> QED BY <1>1, <1>4, <1>6, <1>9 DEF ListCore

(* A fetch or sync that returns while nobody changes the disk has listed   *)
(* every entry of the folders it got to but those of the pages that        *)
(* failed, counts the chosen ones once each and has stored them all,       *)
(* whatever the disk, the page size and the faults.                        *)
THEOREM LossAccountedFor == Spec => []FetchAccountsForLoss
  BY Invariance, InvAccounts, PTL

(* An entry that this run replaces is no longer one of an earlier run.     *)
LEMMA OldApartNext ==
  ASSUME IInv, OldApart, [Next]_vars
  PROVE  OldApart'
<1>0. TypeOK
  BY DEF IInv
<1>1. CASE UNCHANGED <<db, old>>
  BY <1>1 DEF OldApart
<1>2. CASE UNCHANGED ndVars
  BY <1>1, <1>2 DEF ndVars, bqVars
<1>3. CASE RegretNetDiskWithToken \/ ListStep \/ DiskChanges \/ PrintTree
  <2>1. UNCHANGED bqVars
    BY <1>3 DEF RegretNetDiskWithToken, ListStep, DiskChanges, PageArrives, OtherBody, FirstPageFails,
           PageSkipped, LookUp, Descend, Ascend, PrintTree
  <2> QED BY <1>1, <2>1 DEF bqVars
<1>4. CASE StartSending \/ WorkerPanics \/ WorkerDrops \/ SendFile
  BY <1>1, <1>4 DEF StartSending, WorkerPanics, WorkerDrops, SendFile, bqVars
<1>5. CASE WorkerStores
  <2>1. Enqueue(fileChan[1]) /\ UNCHANGED opened /\ fileChan # <<>> /\ fileChan \in Seq(Paths)
    BY <1>0, <1>5 DEF WorkerStores, TypeOK
  <2>2. fileChan[1] \in Paths
    BY <2>1, HeadTailFacts
  <2>3. \/ db' = db /\ old' = old
        \/ \E K : db' = db \cup K /\ old' = old \ K
    BY <1>0, <2>1, <2>2, EnqueueHandsOver DEF TypeOK
  <2> QED BY <2>3 DEF OldApart
<1>6. CASE Finish
  <2>1. UNCHANGED <<queue, db, old>> \/ DrainAndSave
    BY <1>6 DEF Finish
  <2> QED BY <2>1 DEF OldApart, DrainAndSave, Save
<1>7. NetDiskStep \/ UNCHANGED ndVars
  BY DEF Next, TakeEntry, SingleFileDownload, DownloadCheck, StreamArrives, StreamBreaks, AttemptReturns,
         Terminated, vars
<1> QED BY <1>2, <1>3, <1>4, <1>5, <1>6, <1>7 DEF NetDiskStep, ProgramStep, SendStep

(* Every step of a fetch is one that Collection allows.                    *)
LEMMA StepImplements ==
  ASSUME IInv, IInv', OldApart, [Next]_vars, program = "fetch", changes = 0
  PROVE  Promise!Next \/ UNCHANGED Promise!collectionVars
<1>0. TypeOK /\ TypeOK' /\ ListInv /\ Phase /\ Sending
  BY DEF IInv
<1> DEFINE Same == /\ Sent' = Sent /\ UNCHANGED <<db, old>>
                   /\ main \in {"login", "listing", "sending"}
                   /\ main' \in {"login", "listing", "sending"}
           Dies == /\ Sent' = Sent /\ UNCHANGED <<db, old>>
                   /\ main \in {"login", "listing", "sending"} /\ main' = "crashed"
<1>1. ASSUME Same PROVE UNCHANGED Promise!collectionVars
  BY <1>1 DEF Promise!collectionVars
<1>2. ASSUME Dies PROVE Promise!Next
  BY <1>2 DEF Promise!Next, Promise!Crash
<1>3. ASSUME UNCHANGED <<files, next, startVars>> PROVE Sent' = Sent
  <2>1. \A f : Chosen(f)' <=> Chosen(f)
    BY <1>3 DEF startVars, Chosen, Ids
  <2> QED BY <1>3, <2>1 DEF Sent
<1>4. CASE UNCHANGED ndVars
  <2>1. UNCHANGED <<files, next, startVars, db, old, main, count>>
    BY <1>4 DEF ndVars, listVars, sendVars, bqVars
  <2> QED BY <1>3, <2>1 DEF Promise!collectionVars
<1>5. CASE RegretNetDiskWithToken \/ ListStep \/ DiskChanges
  <2>1. main \in {"login", "listing"} /\ main' \in {"listing", "crashed"}
    BY <1>5 DEF RegretNetDiskWithToken, ListStep, DiskChanges, PageArrives, OtherBody, FirstPageFails,
           PageSkipped, LookUp, Descend, Ascend, Listing
  <2>2. UNCHANGED <<next, db, old>>
    BY <1>5 DEF RegretNetDiskWithToken, ListStep, DiskChanges, PageArrives, OtherBody, FirstPageFails,
           PageSkipped, LookUp, Descend, Ascend, sendVars, bqVars
  <2>3. next = 1 /\ next' = 1
    BY <1>0, <2>1, <2>2 DEF Phase
  <2>4. Sent = {}
    BY <1>0, <2>3, SentNone
  <2>5. Sent' = {}
    <3>1. (TypeOK /\ next = 1)'
      BY <1>0, <2>3
    <3>2. (Sent = {})'
      BY <3>1, SentEmpty, PTL
    <3> QED BY <3>2
  <2> QED BY <1>1, <1>2, <2>1, <2>2, <2>4, <2>5
<1>6. CASE StartSending \/ WorkerPanics
  <2>1. UNCHANGED <<files, next, startVars, db, old>>
    BY <1>6 DEF StartSending, WorkerPanics, listVars, sendVars, bqVars
  <2>2. main \in {"listing", "sending"} /\ main' \in {"sending", "crashed"}
    BY <1>6 DEF StartSending, WorkerPanics
  <2> QED BY <1>1, <1>2, <1>3, <2>1, <2>2
<1>7. CASE SendFile
  <2> DEFINE x == files[next]
  <2>1. /\ main = "sending" /\ main' = "sending" /\ next <= Len(files) /\ next' = next + 1
        /\ UNCHANGED <<db, old, files, startVars>>
    BY <1>7 DEF SendFile, bqVars, listVars
  <2>2. /\ Chosen(x) => Sent' = Sent \cup {x}
        /\ ~Chosen(x) => Sent' = Sent
        /\ IsInjective(files) => x \notin Sent
    BY <1>0, <2>1, SentOneMore
  <2>3. IsInjective(files)
    BY <1>0 DEF ListInv, ListCore
  <2>4. x \in Paths
    BY <1>0, <2>1, LenProperties, ElementOfSeq DEF TypeOK
  <2>5. CASE ~Chosen(x)
    BY <1>1, <2>1, <2>2, <2>5
  <2>6. CASE Chosen(x)
    <3>1. IsFiniteSet(Sent)
      BY <1>0, <2>1, SentFacts DEF Sending
    <3>2. Sent' = Sent \cup {x} /\ x \in Paths \ Sent
      BY <2>2, <2>3, <2>4, <2>6
    <3> HIDE DEF x
    <3>3. Cardinality(Sent') = Cardinality(Sent) + 1
      BY <3>1, <3>2, FS_AddElement
    <3> QED BY <2>1, <3>2, <3>3 DEF Promise!Next, Promise!Visit
  <2> QED BY <2>5, <2>6
<1>8. CASE WorkerStores \/ WorkerDrops
  <2>1. /\ Sent' = Sent
        /\ \/ db' = db /\ old' = old
           \/ \E batch \in SUBSET Sent :
                  db' = db \cup KeysOf(batch) /\ old' = old \ KeysOf(batch)
    BY <1>0, <1>8, WorkerCore
  <2>2. main = "sending" /\ main' = "sending"
    BY <1>8 DEF WorkerStores, WorkerDrops
  <2>3. CASE db' = db /\ old' = old
    BY <1>1, <2>1, <2>2, <2>3
  <2>4. CASE \E batch \in SUBSET Sent :
                  db' = db \cup KeysOf(batch) /\ old' = old \ KeysOf(batch)
    BY <2>1, <2>2, <2>4 DEF Promise!Next, Promise!Store, KeysOf
  <2> QED BY <2>1, <2>3, <2>4
<1>9. CASE Finish
  <2>1. /\ Sent' = Sent
        /\ main' = "returned" => db' = KeysOf(Sent) /\ old' = old \ db'
        /\ main' = "crashed" => db' = db /\ old' = old
    BY <1>0, <1>9, FinishCore
  <2>2. main = "sending" /\ main' \in {"returned", "crashed"} /\ fileChan = <<>> /\ count' = count
    BY <1>9 DEF Finish, AllSent, sendVars
  <2>3. count = Cardinality(Sent)
    <3>1. count + Len(fileChan) = Cardinality(Sent)
      BY <1>0, <2>2 DEF Sending
    <3>2. Len(fileChan) = 0
      BY <2>2
    <3> QED BY <1>0, <3>1, <3>2 DEF TypeOK
  <2>4. CASE main' = "crashed"
    BY <1>2, <2>1, <2>2, <2>4
  <2>5. CASE main' = "returned"
    BY <2>1, <2>2, <2>3, <2>5 DEF Promise!Next, Promise!Return, KeysOf
  <2> QED BY <2>2, <2>4, <2>5
<1>10. CASE PrintTree
  BY <1>10 DEF PrintTree
<1>11. NetDiskStep \/ UNCHANGED ndVars
  BY DEF Next, TakeEntry, SingleFileDownload, DownloadCheck, StreamArrives, StreamBreaks, AttemptReturns,
         Terminated, vars
<1> HIDE DEF Same, Dies
<1> QED BY <1>4, <1>5, <1>6, <1>7, <1>8, <1>9, <1>10, <1>11
        DEF NetDiskStep, ProgramStep, SendStep

(* While nobody changes the disk a fetch keeps what Collection promises to *)
(* frs, whatever is chosen and whatever fails.                             *)
THEOREM FetchRefinement == Spec => FetchImplementsCollection
<1>1. DownloadInit => Promise!Init
  <2> SUFFICES ASSUME DownloadInit PROVE Promise!Init
    OBVIOUS
  <2>1. TypeOK /\ next = 1 /\ db = {} /\ old \in Leftovers /\ main = "login"
    BY TypeInit DEF DownloadInit, Init, BatchInit
  <2>2. Sent = {} /\ Cardinality(Sent) = 0
    BY <2>1, SentNone
  <2> QED BY <2>1, <2>2 DEF Promise!Init
<1>2. IInv /\ IInv' /\ OldApart /\ [Next]_vars
        => [program = "fetch" /\ changes = 0 => Promise!Next]_(Promise!collectionVars)
  BY StepImplements
<1>3. DownloadInit => OldApart
  BY DEF DownloadInit, Init, BatchInit, OldApart
<1>4. IInv /\ OldApart /\ [Next]_vars => OldApart'
  BY OldApartNext
<1> QED BY <1>1, <1>2, <1>3, <1>4, Invariance, PTL DEF Spec, FetchImplementsCollection

-----------------------------------------------------------------------------
(* The requests a download makes.                                          *)

(* f[k] is the k-th power of two.                                          *)
Doubles(f, n) ==
    /\ f \in [0..n -> Nat]
    /\ f[0] = 1
    /\ \A k \in 1..n : f[k] = 2 * f[k - 1]

(* The recursion behind Power.                                             *)
LEMMA PowerSteps ==
  ASSUME NEW n \in Nat
  PROVE  \E f : Doubles(f, n) /\ Power(2, n) = f[n]
<1> DEFINE h == [p \in (1..n) \X Nat |-> 2 * p[2]]
           Is(f) == f = [k \in 0..n |-> IF k = 0 THEN 1 ELSE 2 * f[k - 1]]
<1>1. h \in [(1..n) \X Nat -> Nat]
  OBVIOUS
<1>2. \A k \in 1..n, q \in Nat : h[<<k, q>>] = 2 * q
  OBVIOUS
<1>3. Power(2, n) = (CHOOSE f : Is(f))[n]
  BY DEF Power
<1> HIDE DEF h
<1> DEFINE T == Nat
           a == 1
<1>4. \E f : Runs(f, n, T, a, h)
  <2>1. h \in [(1..n) \X T -> T] /\ a \in T
    BY <1>1
  <2> HIDE DEF T, a
  <2> QED BY <2>1, Recursion
<1>5. PICK f : f \in [0..n -> Nat] /\ f[0] = 1 /\ \A k \in 1..n : f[k] = h[<<k, f[k - 1]>>]
  BY <1>4 DEF Runs
<1>6. ASSUME NEW k \in 1..n PROVE f[k] = 2 * f[k - 1]
  <2>1. k - 1 \in 0..n /\ f[k - 1] \in Nat
    BY <1>5
  <2>2. f[k] = h[<<k, f[k - 1]>>]
    BY <1>5
  <2> QED BY <1>2, <2>1, <2>2
<1>7. Is(f)
  <2>1. \A k \in 0..n : k = 0 \/ k \in 1..n
    OBVIOUS
  <2>2. ASSUME NEW k \in 0..n PROVE f[k] = IF k = 0 THEN 1 ELSE 2 * f[k - 1]
    BY <1>5, <1>6, <2>1
  <2> QED BY <1>5, <2>2
<1> DEFINE g == CHOOSE x : Is(x)
<1>8. Is(g)
  BY <1>7
<1> HIDE DEF g
<1>9. g[0] = 1 /\ \A k \in 1..n : g[k] = 2 * g[k - 1]
  BY <1>8
<1>10. \A k \in 0..n : g[k] \in Nat
  <2> DEFINE G == {k \in 0..n : g[k] \in Nat}
  <2>1. 0 \in G
    BY <1>9
  <2>2. ASSUME NEW k \in 1..n, k - 1 \in G PROVE k \in G
    <3>1. g[k - 1] \in Nat /\ g[k] = 2 * g[k - 1] /\ k \in 0..n
      BY <1>9, <2>2
    <3> QED BY <3>1
  <2>3. \A k \in 0..n : k \in G
    <3> HIDE DEF G
    <3> QED BY <2>1, <2>2, Induction
  <2> QED BY <2>3
<1>11. Doubles(g, n)
  BY <1>8, <1>9, <1>10 DEF Doubles
<1> QED BY <1>3, <1>11 DEF g

(* The powers of two.                                                      *)
LEMMA PowerFacts ==
  ASSUME NEW n \in Nat
  PROVE  /\ Power(2, n) \in Nat
         /\ Power(2, 0) = 1
         /\ Power(2, n + 1) = 2 * Power(2, n)
<1>1. PICK f : Doubles(f, n) /\ Power(2, n) = f[n]
  BY PowerSteps
<1>2. PICK g : Doubles(g, n + 1) /\ Power(2, n + 1) = g[n + 1]
  <2>1. n + 1 \in Nat
    OBVIOUS
  <2> QED BY <2>1, PowerSteps
<1>3. PICK e : Doubles(e, 0) /\ Power(2, 0) = e[0]
  BY PowerSteps
<1>4. \A k \in 0..n : f[k] = g[k]
  <2> DEFINE G == {k \in 0..n : f[k] = g[k]}
  <2>1. 0 \in G
    BY <1>1, <1>2 DEF Doubles
  <2>2. ASSUME NEW k \in 1..n, k - 1 \in G PROVE k \in G
    <3>1. f[k - 1] = g[k - 1] /\ k \in 0..n /\ k \in 1..(n + 1)
      BY <2>2
    <3>2. f[k] = 2 * f[k - 1] /\ g[k] = 2 * g[k - 1]
      BY <1>1, <1>2, <3>1 DEF Doubles
    <3> QED BY <3>1, <3>2
  <2>3. \A k \in 0..n : k \in G
    <3> HIDE DEF G
    <3> QED BY <2>1, <2>2, Induction
  <2> QED BY <2>3
<1>5. f[n] \in Nat /\ e[0] = 1
  BY <1>1, <1>3 DEF Doubles
<1>6. g[n + 1] = 2 * g[(n + 1) - 1] /\ (n + 1) - 1 = n
  <2>1. n + 1 \in 1..(n + 1) /\ (n + 1) - 1 = n
    OBVIOUS
  <2> QED BY <1>2, <2>1 DEF Doubles
<1>7. f[n] = g[n]
  BY <1>4
<1> QED BY <1>1, <1>2, <1>3, <1>5, <1>6, <1>7

(* At most so many requests are made by a call with this retry count, the  *)
(* calls it makes included.                                                *)
Cost(q) == 2 * (Power(2, (MaxRetry + 1) - q) - 1)

(* Both halves of a call make one request and one recursive call.          *)
LEMMA CostFacts ==
  /\ \A q \in 0..(MaxRetry + 1) : Cost(q) \in Nat
  /\ \A q \in 0..MaxRetry : Cost(q) = 2 + 2 * Cost(q + 1)
  /\ Cost(MaxRetry + 1) = 0
  /\ Cost(0) = 2 * (Power(2, MaxRetry + 1) - 1)
<1>1. MaxRetry \in Nat
  BY RetryAssumption
<1>2. \A n \in Nat : Power(2, n) \in Nat /\ Power(2, 0) = 1 /\ Power(2, n + 1) = 2 * Power(2, n)
  BY PowerFacts
<1>3. \A n \in Nat : Power(2, n) \in Nat \ {0}
  <2> SUFFICES ASSUME NEW n \in Nat PROVE Power(2, n) \in Nat \ {0}
    OBVIOUS
  <2> DEFINE G == {k \in 0..n : Power(2, k) \in Nat \ {0}}
  <2>1. 0 \in G
    BY <1>2
  <2>2. ASSUME NEW k \in 1..n, k - 1 \in G PROVE k \in G
    <3>1. k - 1 \in Nat /\ (k - 1) + 1 = k /\ k \in 0..n /\ Power(2, k - 1) \in Nat \ {0}
      BY <2>2
    <3>2. Power(2, (k - 1) + 1) = 2 * Power(2, k - 1)
      BY <1>2, <3>1
    <3> QED BY <3>1, <3>2
  <2>3. \A k \in 0..n : k \in G
    <3> HIDE DEF G
    <3> QED BY <2>1, <2>2, Induction
  <2> QED BY <2>3
<1>4. ASSUME NEW q \in 0..(MaxRetry + 1) PROVE Cost(q) \in Nat
  <2>1. (MaxRetry + 1) - q \in Nat
    BY <1>1
  <2>2. Power(2, (MaxRetry + 1) - q) \in Nat \ {0}
    BY <1>3, <2>1
  <2> QED BY <2>2 DEF Cost
<1>5. ASSUME NEW q \in 0..MaxRetry PROVE Cost(q) = 2 + 2 * Cost(q + 1)
  <2> DEFINE n == (MaxRetry + 1) - (q + 1)
  <2>1. n \in Nat /\ (MaxRetry + 1) - q = n + 1
    BY <1>1
  <2>2. Cost(q) = 2 * (Power(2, n + 1) - 1) /\ Cost(q + 1) = 2 * (Power(2, n) - 1)
    BY <2>1 DEF Cost
  <2> HIDE DEF n
  <2>3. Power(2, n + 1) = 2 * Power(2, n) /\ Power(2, n) \in Nat
    BY <1>2, <2>1
  <2> QED BY <2>2, <2>3
<1>6. Cost(MaxRetry + 1) = 0 /\ Cost(0) = 2 * (Power(2, MaxRetry + 1) - 1)
  <2>1. (MaxRetry + 1) - (MaxRetry + 1) = 0 /\ (MaxRetry + 1) - 0 = MaxRetry + 1 /\ 0 \in Nat
    BY <1>1
  <2>2. Power(2, 0) = 1
    BY <1>2, <2>1
  <2> QED BY <2>1, <2>2 DEF Cost
<1> QED BY <1>4, <1>5, <1>6

(* What is left to a call, with its retry count and what it does next.     *)
Left(q, at) == IF at = "check" THEN Cost(q) ELSE IF at = "stream" THEN 1 + Cost(q + 1) ELSE 0

(* What a call has at least asked for when it is where it is, once it has  *)
(* not made its local copy.                                                *)
Made(at) == IF at = "check" THEN 0 ELSE IF at = "stream" THEN 1 ELSE 2

(* No download before the program has returned; afterwards the calls of    *)
(* SingleFileDownload are for the file in hand.                            *)
Hand ==
    /\ main # "returned" => current = {} /\ remaining = {} /\ synced = {} /\ failed = {}
    /\ attempts = <<>> <=> current = {}

(* A file is taken up once, and has one verdict.                           *)
Apart ==
    /\ remaining \cap (synced \cup failed \cup current) = {}
    /\ synced \cap failed = {}
    /\ current \cap (synced \cup failed) = {}

Untried == \A f \in Paths : f \notin synced \cup failed \cup current => requests[f] = 0

(* Each call has the retry count of its depth; only the innermost has had  *)
(* its stream, and then the local copy is there.                           *)
Levels ==
    \A q \in 0..(Len(attempts) - 1) :
        /\ Level(q).retry = q
        /\ Level(q).ok => /\ q = Len(attempts) - 1 /\ Level(q).at = "return"
                          /\ \A f \in current : disk[f] \in {"whole", "other"}

(* As long as there is no local copy, the calls that are on their way back *)
(* have made their two requests.                                           *)
Given(r) == \A q \in 0..(r - 1) : Level(q).at = "return"

Tried ==
    \A f \in current : disk[f] = "none" =>
        /\ \A r \in 0..(Len(attempts) - 1) : Given(r) => requests[f] >= 2 * r + Made(Level(r).at)
        /\ Given(Len(attempts)) => requests[f] >= 2 * (MaxRetry + 1)

(* b gives each call the number of requests at which it has returned.      *)
Budget(b, n) ==
    /\ b \in [0..MaxRetry -> Nat]
    /\ \A q \in 0..(Len(attempts) - 1) : b[q] <= Cost(0)
    /\ \A q \in 0..(Len(attempts) - 2) : b[q + 1] + Left(q, Level(q).at) <= b[q]
    /\ n + Left(Len(attempts) - 1, Level(Len(attempts) - 1).at) <= b[Len(attempts) - 1]

Bounded == \A f \in current : \E b : Budget(b, requests[f])

RetryInv ==
    /\ Hand /\ Apart /\ Untried /\ Levels /\ Tried /\ Bounded
    /\ RetryAccount

(* The file in hand.                                                       *)
LEMMA OneFile ==
  ASSUME DownTypes, Hand, attempts # <<>>
  PROVE  \E x \in Paths : current = {x} /\ File = x
<1>1. current # {} /\ current \subseteq Paths /\ Cardinality(current) <= 1
  BY DEF Hand, DownTypes
<1>2. PICK x \in current : TRUE
  BY <1>1
<1>3. IsFiniteSet(current)
  BY <1>1, ConstantTypes, FS_Subset
<1>4. /\ IsFiniteSet(current \ {x}) /\ Cardinality(current \ {x}) = Cardinality(current) - 1
      /\ Cardinality(current) \in Nat /\ Cardinality(current \ {x}) \in Nat
  BY <1>2, <1>3, FS_RemoveElement, FS_CardinalityType
<1>5. Cardinality(current \ {x}) = 0
  BY <1>1, <1>4
<1>6. current \ {x} = {}
  BY <1>4, <1>5, FS_EmptySet
<1>7. current = {x}
  BY <1>2, <1>6
<1>8. File \in current
  BY <1>2 DEF File
<1> QED BY <1>1, <1>7, <1>8

(* The innermost call has the highest retry count.                         *)
LEMMA InnerLevel ==
  ASSUME DownTypes, Levels, attempts # <<>>
  PROVE  /\ Len(attempts) \in 1..(MaxRetry + 1) /\ MaxRetry \in Nat
         /\ Inner.retry = Len(attempts) - 1
         /\ Inner.at = Level(Len(attempts) - 1).at /\ Inner.ok = Level(Len(attempts) - 1).ok
         /\ \A q \in 0..(Len(attempts) - 2) : ~Level(q).ok
         /\ Inner.at \in {"check", "stream", "return"}
<1> DEFINE m == Len(attempts)
<1>1. /\ m \in Nat \ {0} /\ Inner \in AttemptType /\ Inner = Level(m - 1)
      /\ \A q \in 0..(m - 1) : Level(q) \in AttemptType
  BY InnerFacts
<1>2. MaxRetry \in Nat
  BY RetryAssumption
<1> HIDE DEF m
<1>3. m - 1 \in 0..(m - 1) /\ \A q \in 0..(m - 2) : q \in 0..(m - 1) /\ q # m - 1
  BY <1>1
<1>4. Level(m - 1).retry = m - 1 /\ \A q \in 0..(m - 2) : ~Level(q).ok
  BY <1>3 DEF Levels, m
<1>5. Inner.retry \in 0..MaxRetry /\ Inner.at \in {"check", "stream", "return"}
  BY <1>1 DEF AttemptType
<1>6. m \in 1..(MaxRetry + 1)
  BY <1>1, <1>2, <1>4, <1>5
<1> QED BY <1>1, <1>2, <1>4, <1>5, <1>6 DEF m

(* One request more for the file in hand.                                  *)
LEMMA AskedFacts ==
  ASSUME DownTypes, NEW x \in Paths, File = x, Asked
  PROVE  /\ requests[x] \in Nat /\ requests'[x] = requests[x] + 1
         /\ \A f \in Paths : f # x => requests'[f] = requests[f]
  BY DEF DownTypes, Asked

(* What is left to a call is a number.                                     *)
LEMMA LeftFacts ==
  ASSUME NEW q \in 0..MaxRetry, NEW at
  PROVE  /\ Left(q, at) \in Nat /\ Cost(q + 1) \in Nat /\ Cost(q) \in Nat
         /\ Left(q, "check") = 2 + 2 * Cost(q + 1) /\ Left(q, "check") = Cost(q)
         /\ Left(q, "stream") = 1 + Cost(q + 1)
         /\ Left(q, "return") = 0
<1>1. MaxRetry \in Nat
  BY RetryAssumption
<1>2. q \in 0..(MaxRetry + 1) /\ q + 1 \in 0..(MaxRetry + 1)
  BY <1>1
<1>3. Cost(q) \in Nat /\ Cost(q + 1) \in Nat /\ Cost(q) = 2 + 2 * Cost(q + 1)
  BY <1>2, CostFacts
<1> QED BY <1>3 DEF Left

(* A file in hand has not used more than the whole budget.                 *)
LEMMA BudgetBound ==
  ASSUME NEW b, NEW n \in Nat, attempts # <<>>, Len(attempts) \in 1..(MaxRetry + 1), Budget(b, n)
  PROVE  n <= Cost(0)
<1> DEFINE r == Len(attempts) - 1
           at == Level(r).at
<1>1. MaxRetry \in Nat
  BY RetryAssumption
<1>2. r \in 0..MaxRetry /\ r \in 0..(Len(attempts) - 1)
  BY <1>1
<1>3. n + Left(r, at) <= b[r] /\ b[r] <= Cost(0) /\ b[r] \in Nat
  BY <1>2 DEF Budget
<1>4. Left(r, at) \in Nat /\ Cost(0) \in Nat
  BY <1>1, <1>2, LeftFacts, CostFacts
<1> HIDE DEF r, at
<1> QED BY <1>3, <1>4

(* The budget after the innermost call has made a request and goes on.     *)
LEMMA BudgetGoesOn ==
  ASSUME DownTypes, Levels, attempts # <<>>, NEW call \in AttemptType, GoesOn(call),
         NEW b, NEW n \in Nat, Budget(b, n),
         \/ Inner.at = "check" /\ call.at = "stream"
         \/ Inner.at = "stream" /\ call.at = "return"
  PROVE  Budget(b, n + 1)'
<1> DEFINE m == Len(attempts)
           r == m - 1
<1>1. /\ m \in 1..(MaxRetry + 1) /\ MaxRetry \in Nat /\ Inner.at = Level(r).at
  BY InnerLevel
<1>2. r \in 0..MaxRetry /\ r \in 0..(m - 1)
  BY <1>1
<1>3. /\ b \in [0..MaxRetry -> Nat]
      /\ \A q \in 0..(m - 1) : b[q] <= Cost(0)
      /\ \A q \in 0..(m - 2) : b[q + 1] + Left(q, Level(q).at) <= b[q]
      /\ n + Left(r, Level(r).at) <= b[r]
  BY DEF Budget
<1>4. Len(attempts') = m /\ (\A q \in 0..(m - 2) : LevelNext(q) = Level(q)) /\ LevelNext(r) = call
  BY DEF GoesOn
<1>5. \A q : Level(q)' = LevelNext(q)
  BY DEF Level, LevelNext
<1>6. (n + 1) + Left(r, call.at) <= b[r]
  <2>1. /\ Cost(r + 1) \in Nat /\ Left(r, "check") = 2 + 2 * Cost(r + 1)
        /\ Left(r, "stream") = 1 + Cost(r + 1) /\ Left(r, "return") = 0
    BY <1>2, LeftFacts
  <2>2. b[r] \in Nat
    BY <1>2, <1>3
  <2> HIDE DEF r
  <2>3. CASE Inner.at = "check" /\ call.at = "stream"
    BY <1>1, <1>3, <2>1, <2>2, <2>3
  <2>4. CASE Inner.at = "stream" /\ call.at = "return"
    BY <1>1, <1>3, <2>1, <2>2, <2>4
  <2> QED BY <2>3, <2>4
<1> HIDE DEF m
<1>7. \A q \in 0..(m - 2) : b[q + 1] + Left(q, LevelNext(q).at) <= b[q]
  BY <1>3, <1>4
<1>8. (n + 1) + Left(m - 1, LevelNext(m - 1).at) <= b[m - 1]
  BY <1>4, <1>6
<1> QED BY <1>3, <1>4, <1>5, <1>7, <1>8 DEF Budget

(* The budget after a recursive call: the new call gets what it costs.     *)
LEMMA BudgetRecurses ==
  ASSUME DownTypes, Levels, attempts # <<>>, NEW call \in AttemptType, Recurses(call),
         Inner.retry < MaxRetry, NEW b, NEW n \in Nat, Budget(b, n),
         \/ Inner.at = "check" /\ call.at = "stream"
         \/ Inner.at = "stream" /\ call.at = "return"
  PROVE  \E c : Budget(c, n + 1)'
<1> DEFINE m == Len(attempts)
           r == m - 1
           v == (n + 1) + Cost(m)
           c == [b EXCEPT ![m] = v]
<1>1. /\ m \in 1..(MaxRetry + 1) /\ MaxRetry \in Nat /\ Inner.at = Level(r).at /\ Inner.retry = r
  BY InnerLevel
<1>2. r \in 0..MaxRetry /\ r \in 0..(m - 1) /\ m \in 0..MaxRetry /\ r + 1 = m /\ m \in Nat \ {0}
  BY <1>1
<1>3. /\ b \in [0..MaxRetry -> Nat]
      /\ \A q \in 0..(m - 1) : b[q] <= Cost(0)
      /\ \A q \in 0..(m - 2) : b[q + 1] + Left(q, Level(q).at) <= b[q]
      /\ n + Left(r, Level(r).at) <= b[r]
  BY DEF Budget
<1>4. /\ Len(attempts') = m + 1 /\ \A q \in 0..(m - 2) : LevelNext(q) = Level(q)
      /\ LevelNext(r) = call /\ LevelNext(m).at = "check"
  BY DEF Recurses, Attempt
<1>5. \A q : Level(q)' = LevelNext(q)
  BY DEF Level, LevelNext
<1>6. /\ Cost(m) \in Nat /\ Left(r, "check") = 2 + 2 * Cost(m)
      /\ Left(r, "stream") = 1 + Cost(m) /\ Left(r, "return") = 0 /\ Left(m, "check") = Cost(m)
      /\ b[r] \in Nat /\ b[r] <= Cost(0) /\ Cost(0) \in Nat
  <2>1. /\ Left(r, "check") = 2 + 2 * Cost(r + 1) /\ Left(r, "stream") = 1 + Cost(r + 1)
        /\ Left(r, "return") = 0 /\ Cost(r + 1) \in Nat
    BY <1>2, LeftFacts
  <2>2. Left(m, "check") = Cost(m) /\ Cost(0) \in Nat
    <3> HIDE DEF m
    <3>1. 0 \in 0..(MaxRetry + 1)
      BY <1>1
    <3> QED BY <1>2, <3>1, LeftFacts, CostFacts
  <2>3. b[r] \in Nat /\ b[r] <= Cost(0)
    <3> HIDE DEF m, r
    <3> QED BY <1>2, <1>3
  <2>4. Cost(r + 1) = Cost(m)
    BY <1>2
  <2> HIDE DEF m, r
  <2> QED BY <2>1, <2>2, <2>3, <2>4
<1> HIDE DEF m, r
<1>7. v \in Nat /\ v + Left(r, call.at) <= b[r]
  <2>1. CASE Inner.at = "check" /\ call.at = "stream"
    BY <1>1, <1>3, <1>6, <2>1
  <2>2. CASE Inner.at = "stream" /\ call.at = "return"
    BY <1>1, <1>3, <1>6, <2>2
  <2> QED BY <2>1, <2>2
<1>8. Left(r, call.at) \in Nat
  BY <1>2, LeftFacts
<1>9. v <= Cost(0)
  BY <1>6, <1>7, <1>8
<1>10. v + 0 <= v /\ (n + 1) + Left(m, "check") <= v
  BY <1>6, <1>7
<1> HIDE DEF v
<1>11. c \in [0..MaxRetry -> Nat] /\ c[m] = v /\ \A q \in 0..(m - 1) : c[q] = b[q]
  BY <1>2, <1>3, <1>7
<1> HIDE DEF c
<1>12. \A q \in 0..m : c[q] <= Cost(0)
  <2>1. \A q \in 0..m : q = m \/ q \in 0..(m - 1)
    BY <1>2
  <2> QED BY <1>3, <1>9, <1>11, <2>1
<1>13. \A q \in 0..(m - 1) : c[q + 1] + Left(q, LevelNext(q).at) <= c[q]
  <2> SUFFICES ASSUME NEW q \in 0..(m - 1)
               PROVE  c[q + 1] + Left(q, LevelNext(q).at) <= c[q]
    OBVIOUS
  <2>1. CASE q = r
    BY <1>2, <1>4, <1>7, <1>11, <2>1
  <2>2. CASE q # r
    <3>1. q \in 0..(m - 2) /\ q + 1 \in 0..(m - 1)
      BY <1>2, <2>2
    <3>2. c[q + 1] = b[q + 1] /\ c[q] = b[q] /\ LevelNext(q) = Level(q)
      BY <1>4, <1>11, <3>1
    <3> QED BY <1>3, <3>1, <3>2
  <2> QED BY <2>1, <2>2
<1>14. (n + 1) + Left(m, LevelNext(m).at) <= c[m]
  BY <1>4, <1>10, <1>11
<1>15. Len(attempts') - 1 = m /\ Len(attempts') - 2 = m - 1
  BY <1>2, <1>4
<1>16. PICK d : d = c
  OBVIOUS
<1>17. /\ d \in [0..MaxRetry -> Nat]
       /\ \A q \in 0..(Len(attempts') - 1) : d[q] <= Cost(0)
       /\ \A q \in 0..(Len(attempts') - 2) : d[q + 1] + Left(q, LevelNext(q).at) <= d[q]
       /\ (n + 1) + Left(Len(attempts') - 1, LevelNext(Len(attempts') - 1).at) <= d[Len(attempts') - 1]
  BY <1>11, <1>12, <1>13, <1>14, <1>15, <1>16
<1>18. Budget(d, n + 1)'
  BY <1>5, <1>17 DEF Budget
<1> QED BY <1>18

(* The budget after a nested call has returned.                            *)
LEMMA BudgetReturns ==
  ASSUME DownTypes, Levels, attempts # <<>>, Len(attempts) # 1, Inner.at = "return", Returns,
         NEW b, NEW n \in Nat, Budget(b, n)
  PROVE  Budget(b, n)'
<1> DEFINE m == Len(attempts)
<1>1. m \in 1..(MaxRetry + 1) /\ MaxRetry \in Nat /\ Level(m - 1).at = "return"
  BY InnerLevel
<1>2. /\ b \in [0..MaxRetry -> Nat]
      /\ \A q \in 0..(m - 1) : b[q] <= Cost(0)
      /\ \A q \in 0..(m - 2) : b[q + 1] + Left(q, Level(q).at) <= b[q]
      /\ n + Left(m - 1, Level(m - 1).at) <= b[m - 1]
  BY DEF Budget
<1>3. Len(attempts') = m - 1 /\ \A q \in 0..(m - 2) : LevelNext(q) = Level(q)
  BY DEF Returns
<1>4. \A q : Level(q)' = LevelNext(q)
  BY DEF Level, LevelNext
<1>5. m # 1
  OBVIOUS
<1> HIDE DEF m
<1>6. m - 1 \in 0..MaxRetry /\ m - 2 \in 0..MaxRetry /\ m - 2 \in 0..(m - 2) /\ (m - 2) + 1 = m - 1
  BY <1>1, <1>5
<1>7. Left(m - 1, Level(m - 1).at) = 0 /\ Left(m - 2, Level(m - 2).at) \in Nat
  BY <1>1, <1>6, LeftFacts
<1>8. b[m - 1] + Left(m - 2, Level(m - 2).at) <= b[m - 2]
  <2>1. b[(m - 2) + 1] + Left(m - 2, Level(m - 2).at) <= b[m - 2]
    BY <1>2, <1>6
  <2> QED BY <1>6, <2>1
<1>9. n + Left(m - 2, Level(m - 2).at) <= b[m - 2]
  <2>1. n <= b[m - 1] /\ b[m - 1] \in Nat /\ b[m - 2] \in Nat
    BY <1>2, <1>6, <1>7
  <2> QED BY <1>7, <1>8, <2>1
<1>10. Len(attempts') - 1 = m - 2 /\ Len(attempts') - 2 = m - 3
  BY <1>1, <1>3
<1>11. \A q \in 0..(m - 3) : q \in 0..(m - 2)
  BY <1>1
<1>12. \A q \in 0..(m - 2) : q \in 0..(m - 1)
  BY <1>1
<1>13. /\ \A q \in 0..(m - 2) : b[q] <= Cost(0)
       /\ \A q \in 0..(m - 3) : b[q + 1] + Left(q, LevelNext(q).at) <= b[q]
       /\ n + Left(m - 2, LevelNext(m - 2).at) <= b[m - 2]
  BY <1>2, <1>3, <1>6, <1>9, <1>11, <1>12
<1>14. /\ \A q \in 0..(Len(attempts') - 1) : b[q] <= Cost(0)
       /\ \A q \in 0..(Len(attempts') - 2) : b[q + 1] + Left(q, LevelNext(q).at) <= b[q]
       /\ n + Left(Len(attempts') - 1, LevelNext(Len(attempts') - 1).at) <= b[Len(attempts') - 1]
  BY <1>10, <1>13
<1> QED BY <1>2, <1>4, <1>14 DEF Budget

(* A budget of the file in hand.                                           *)
LEMMA BoundedNext ==
  ASSUME NEW x, current' = {x}, NEW b, NEW n, requests'[x] = n, Budget(b, n)'
  PROVE  Bounded'
<1>1. ASSUME NEW f \in current' PROVE Budget(b, requests[f])'
  <2>1. requests'[f] = n
    BY <1>1
  <2> QED BY <2>1 DEF Budget
<1> QED BY <1>1 DEF Bounded

(* Retry counts and results when the innermost call goes on.               *)
LEMMA LevelsGoesOn ==
  ASSUME DownTypes, Levels, attempts # <<>>, NEW call \in AttemptType, GoesOn(call),
         call.retry = Inner.retry,
         call.ok => call.at = "return" /\ \A f \in current' : disk'[f] \in {"whole", "other"}
  PROVE  Levels'
<1> DEFINE m == Len(attempts)
<1>1. m \in 1..(MaxRetry + 1) /\ MaxRetry \in Nat /\ Inner.retry = m - 1 /\ \A q \in 0..(m - 2) : ~Level(q).ok
  BY InnerLevel
<1>2. Len(attempts') = m /\ (\A q \in 0..(m - 2) : LevelNext(q) = Level(q)) /\ LevelNext(m - 1) = call
  BY DEF GoesOn
<1>3. \A q \in 0..(m - 1) : Level(q).retry = q
  BY DEF Levels
<1>4. \A q : Level(q)' = LevelNext(q)
  BY DEF Level, LevelNext
<1> HIDE DEF m
<1>5. \A q \in 0..(m - 1) : q = m - 1 \/ (q \in 0..(m - 2) /\ q # m - 1)
  BY <1>1
<1>6. ASSUME NEW q \in 0..(m - 1)
      PROVE  /\ LevelNext(q).retry = q
             /\ LevelNext(q).ok => /\ q = m - 1 /\ LevelNext(q).at = "return"
                                   /\ \A f \in current' : disk'[f] \in {"whole", "other"}
  <2>1. CASE q = m - 1
    BY <1>1, <1>2, <2>1
  <2>2. CASE q \in 0..(m - 2)
    BY <1>1, <1>2, <1>3, <2>2
  <2> QED BY <1>5, <2>1, <2>2
<1> QED BY <1>2, <1>4, <1>6 DEF Levels

(* The same when it makes a recursive call.                                *)
LEMMA LevelsRecurses ==
  ASSUME DownTypes, Levels, attempts # <<>>, NEW call \in AttemptType, Recurses(call),
         call.retry = Inner.retry, ~call.ok
  PROVE  Levels'
<1> DEFINE m == Len(attempts)
<1>1. m \in 1..(MaxRetry + 1) /\ MaxRetry \in Nat /\ Inner.retry = m - 1 /\ \A q \in 0..(m - 2) : ~Level(q).ok
  BY InnerLevel
<1>2. /\ Len(attempts') = m + 1 /\ (\A q \in 0..(m - 2) : LevelNext(q) = Level(q)) /\ LevelNext(m - 1) = call
      /\ LevelNext(m) = Attempt(Inner.retry + 1)
  BY DEF Recurses
<1>3. \A q \in 0..(m - 1) : Level(q).retry = q
  BY DEF Levels
<1>4. \A q : Level(q)' = LevelNext(q)
  BY DEF Level, LevelNext
<1> HIDE DEF m
<1>5. LevelNext(m).retry = m /\ ~LevelNext(m).ok
  BY <1>1, <1>2 DEF Attempt
<1>6. \A q \in 0..m : q = m \/ q = m - 1 \/ (q \in 0..(m - 2) /\ q \in 0..(m - 1))
  BY <1>1
<1>7. ASSUME NEW q \in 0..m PROVE LevelNext(q).retry = q /\ ~LevelNext(q).ok
  <2>1. CASE q = m
    BY <1>5, <2>1
  <2>2. CASE q = m - 1
    BY <1>1, <1>2, <2>2
  <2>3. CASE q \in 0..(m - 2) /\ q \in 0..(m - 1)
    BY <1>1, <1>2, <1>3, <2>3
  <2> QED BY <1>6, <2>1, <2>2, <2>3
<1>8. \A q \in 0..(Len(attempts') - 1) : q \in 0..m
  BY <1>1, <1>2
<1> QED BY <1>4, <1>7, <1>8 DEF Levels

(* The same when it returns.                                               *)
LEMMA LevelsReturns ==
  ASSUME DownTypes, Levels, attempts # <<>>, Returns
  PROVE  Levels'
<1> DEFINE m == Len(attempts)
<1>1. m \in 1..(MaxRetry + 1) /\ MaxRetry \in Nat /\ \A q \in 0..(m - 2) : ~Level(q).ok
  BY InnerLevel
<1>2. Len(attempts') = m - 1 /\ \A q \in 0..(m - 2) : LevelNext(q) = Level(q)
  BY DEF Returns
<1>3. \A q \in 0..(m - 1) : Level(q).retry = q
  BY DEF Levels
<1>4. \A q : Level(q)' = LevelNext(q)
  BY DEF Level, LevelNext
<1> HIDE DEF m
<1>5. \A q \in 0..(Len(attempts') - 1) : q \in 0..(m - 2) /\ q \in 0..(m - 1)
  BY <1>1, <1>2
<1> QED BY <1>1, <1>2, <1>3, <1>4, <1>5 DEF Levels

(* Requests and levels when the innermost call goes on.                    *)
LEMMA TriedGoesOn ==
  ASSUME DownTypes, Levels, Tried, attempts # <<>>, NEW call \in AttemptType, GoesOn(call),
         NEW x \in Paths, current = {x}, current' = {x}, File = x, Asked,
         disk'[x] = "none" => disk[x] = "none",
         \/ Inner.at = "check" /\ call.at = "stream"
         \/ Inner.at = "stream" /\ call.at = "return" /\ (Inner.retry >= MaxRetry \/ disk'[x] # "none")
  PROVE  Tried'
<1> DEFINE m == Len(attempts)
<1>1. m \in 1..(MaxRetry + 1) /\ MaxRetry \in Nat /\ Inner.retry = m - 1 /\ Inner.at = Level(m - 1).at
  BY InnerLevel
<1>2. Len(attempts') = m /\ (\A q \in 0..(m - 2) : LevelNext(q) = Level(q)) /\ LevelNext(m - 1) = call
  BY DEF GoesOn
<1>3. \A q : Level(q)' = LevelNext(q)
  BY DEF Level, LevelNext
<1>4. requests[x] \in Nat /\ requests'[x] = requests[x] + 1
  BY AskedFacts
<1>5. disk[x] = "none" => \A r \in 0..(m - 1) : Given(r) => requests[x] >= 2 * r + Made(Level(r).at)
  BY DEF Tried
<1> HIDE DEF m
<1>6. ASSUME NEW r \in 0..(m - 1), \A q \in 0..(r - 1) : LevelNext(q).at = "return"
      PROVE  Given(r)
  <2>1. \A q \in 0..(r - 1) : q \in 0..(m - 2)
    BY <1>1
  <2> QED BY <1>2, <1>6, <2>1 DEF Given
<1>7. \A r \in 0..(m - 1) : Made(Level(r).at) \in Nat
  BY DEF Made
<1>8. ASSUME disk'[x] = "none", NEW r \in 0..(m - 1), \A q \in 0..(r - 1) : LevelNext(q).at = "return"
      PROVE  requests'[x] >= 2 * r + Made(LevelNext(r).at)
  <2>1. requests[x] >= 2 * r + Made(Level(r).at)
    BY <1>5, <1>6, <1>8
  <2>2. CASE r = m - 1
    <3>1. Made(LevelNext(r).at) = Made(Level(r).at) + 1
      BY <1>1, <1>2, <2>2 DEF Made
    <3> QED BY <1>4, <1>7, <2>1, <3>1
  <2>3. CASE r # m - 1
    <3>1. r \in 0..(m - 2)
      BY <1>1, <2>3
    <3>2. LevelNext(r) = Level(r)
      BY <1>2, <3>1
    <3> QED BY <1>4, <1>7, <2>1, <3>2
  <2> QED BY <2>2, <2>3
<1>9. ASSUME disk'[x] = "none", \A q \in 0..(m - 1) : LevelNext(q).at = "return"
      PROVE  requests'[x] >= 2 * (MaxRetry + 1)
  <2>1. m - 1 \in 0..(m - 1) /\ \A q \in 0..((m - 1) - 1) : q \in 0..(m - 1)
    BY <1>1
  <2>2. LevelNext(m - 1).at = "return"
    BY <1>9, <2>1
  <2>3. m - 1 = MaxRetry /\ Made("return") = 2
    BY <1>1, <1>2, <1>9, <2>2 DEF Made
  <2>4. requests'[x] >= 2 * (m - 1) + Made(LevelNext(m - 1).at)
    BY <1>8, <1>9, <2>1
  <2> QED BY <1>1, <1>4, <2>2, <2>3, <2>4
<1>10. \A r : Given(r)' <=> \A q \in 0..(r - 1) : LevelNext(q).at = "return"
  BY <1>3 DEF Given
<1>11. Given(Len(attempts))' <=> \A q \in 0..(m - 1) : LevelNext(q).at = "return"
  BY <1>2, <1>3 DEF Given
<1> QED BY <1>2, <1>3, <1>8, <1>9, <1>10, <1>11 DEF Tried

(* The same when it makes a recursive call.                                *)
LEMMA TriedRecurses ==
  ASSUME DownTypes, Levels, Tried, attempts # <<>>, NEW call \in AttemptType, Recurses(call),
         NEW x \in Paths, current = {x}, current' = {x}, File = x, Asked,
         disk'[x] = "none" => disk[x] = "none",
         \/ Inner.at = "check" /\ call.at = "stream"
         \/ Inner.at = "stream" /\ call.at = "return"
  PROVE  Tried'
<1> DEFINE m == Len(attempts)
<1>1. m \in 1..(MaxRetry + 1) /\ MaxRetry \in Nat /\ Inner.retry = m - 1 /\ Inner.at = Level(m - 1).at
  BY InnerLevel
<1>2. /\ Len(attempts') = m + 1 /\ (\A q \in 0..(m - 2) : LevelNext(q) = Level(q)) /\ LevelNext(m - 1) = call
      /\ LevelNext(m).at = "check"
  BY DEF Recurses, Attempt
<1>3. \A q : Level(q)' = LevelNext(q)
  BY DEF Level, LevelNext
<1>4. requests[x] \in Nat /\ requests'[x] = requests[x] + 1
  BY AskedFacts
<1>5. disk[x] = "none" => \A r \in 0..(m - 1) : Given(r) => requests[x] >= 2 * r + Made(Level(r).at)
  BY DEF Tried
<1> HIDE DEF m
<1>6. ASSUME NEW r \in 0..(m - 1), \A q \in 0..(r - 1) : LevelNext(q).at = "return"
      PROVE  Given(r)
  <2>1. \A q \in 0..(r - 1) : q \in 0..(m - 2)
    BY <1>1
  <2> QED BY <1>2, <1>6, <2>1 DEF Given
<1>7. \A r \in 0..(m - 1) : Made(Level(r).at) \in Nat
  BY DEF Made
<1>8. ASSUME disk'[x] = "none", NEW r \in 0..(m - 1), \A q \in 0..(r - 1) : LevelNext(q).at = "return"
      PROVE  requests'[x] >= 2 * r + Made(LevelNext(r).at)
  <2>1. requests[x] >= 2 * r + Made(Level(r).at)
    BY <1>5, <1>6, <1>8
  <2>2. CASE r = m - 1
    <3>1. Made(LevelNext(r).at) = Made(Level(r).at) + 1
      BY <1>1, <1>2, <2>2 DEF Made
    <3> QED BY <1>4, <1>7, <2>1, <3>1
  <2>3. CASE r # m - 1
    <3>1. r \in 0..(m - 2)
      BY <1>1, <2>3
    <3>2. LevelNext(r) = Level(r)
      BY <1>2, <3>1
    <3> QED BY <1>4, <1>7, <2>1, <3>2
  <2> QED BY <2>2, <2>3
<1>9. ASSUME disk'[x] = "none", \A q \in 0..(m - 1) : LevelNext(q).at = "return"
      PROVE  requests'[x] >= 2 * m + Made(LevelNext(m).at)
  <2>1. m - 1 \in 0..(m - 1) /\ \A q \in 0..((m - 1) - 1) : q \in 0..(m - 1)
    BY <1>1
  <2>2. LevelNext(m - 1).at = "return"
    BY <1>9, <2>1
  <2>3. Made("return") = 2 /\ Made(LevelNext(m).at) = 0
    BY <1>2 DEF Made
  <2>4. requests'[x] >= 2 * (m - 1) + Made(LevelNext(m - 1).at)
    BY <1>8, <1>9, <2>1
  <2> QED BY <1>1, <1>4, <2>2, <2>3, <2>4
<1>10. ASSUME disk'[x] = "none", NEW r \in 0..m, \A q \in 0..(r - 1) : LevelNext(q).at = "return"
       PROVE  requests'[x] >= 2 * r + Made(LevelNext(r).at)
  <2>1. CASE r = m
    BY <1>9, <1>10, <2>1
  <2>2. CASE r # m
    <3>1. r \in 0..(m - 1)
      BY <1>1, <2>2
    <3> QED BY <1>8, <1>10, <3>1
  <2> QED BY <2>1, <2>2
<1>11. \A r : Given(r)' <=> \A q \in 0..(r - 1) : LevelNext(q).at = "return"
  BY <1>3 DEF Given
<1>12. ~Given(Len(attempts))'
  <2>1. m \in 0..(Len(attempts') - 1)
    BY <1>1, <1>2
  <2> QED BY <1>2, <1>3, <2>1 DEF Given
<1>13. \A r \in 0..(Len(attempts') - 1) : r \in 0..m
  BY <1>1, <1>2
<1> QED BY <1>3, <1>10, <1>11, <1>12, <1>13 DEF Tried

(* The same when a nested call returns.                                    *)
LEMMA TriedReturns ==
  ASSUME DownTypes, Levels, Tried, attempts # <<>>, Inner.at = "return", Returns,
         UNCHANGED <<current, disk, requests>>
  PROVE  Tried'
<1> DEFINE m == Len(attempts)
<1>1. m \in 1..(MaxRetry + 1) /\ Level(m - 1).at = "return"
  BY InnerLevel
<1>2. Len(attempts') = m - 1 /\ \A q \in 0..(m - 2) : LevelNext(q) = Level(q)
  BY DEF Returns
<1>3. \A q : Level(q)' = LevelNext(q)
  BY DEF Level, LevelNext
<1>4. \A f \in current : disk[f] = "none" =>
        /\ \A r \in 0..(m - 1) : Given(r) => requests[f] >= 2 * r + Made(Level(r).at)
        /\ Given(m) => requests[f] >= 2 * (MaxRetry + 1)
  BY DEF Tried
<1> HIDE DEF m
<1>5. \A r : Given(r)' <=> \A q \in 0..(r - 1) : LevelNext(q).at = "return"
  BY <1>3 DEF Given
<1>6. ASSUME NEW r \in 0..(m - 1), Given(r)' PROVE Given(r)
  <2>1. \A q \in 0..(r - 1) : q \in 0..(m - 2)
    BY <1>1
  <2> QED BY <1>2, <1>5, <1>6, <2>1 DEF Given
<1>7. Given(Len(attempts))' => Given(m)
  <2> SUFFICES ASSUME \A q \in 0..((m - 1) - 1) : LevelNext(q).at = "return"
               PROVE  Given(m)
    BY <1>2, <1>3 DEF Given
  <2>1. \A q \in 0..(m - 1) : q = m - 1 \/ (q \in 0..(m - 2) /\ q \in 0..((m - 1) - 1))
    BY <1>1
  <2> QED BY <1>1, <1>2, <2>1 DEF Given
<1>8. \A r \in 0..(Len(attempts') - 1) : r \in 0..(m - 1) /\ LevelNext(r) = Level(r)
  <2>1. \A r \in 0..(Len(attempts') - 1) : r \in 0..(m - 1) /\ r \in 0..(m - 2)
    BY <1>1, <1>2
  <2> QED BY <1>2, <2>1
<1>9. \A r \in 0..(m - 1) : Given(r)' => Given(r)
  BY <1>6
<1> QED BY <1>3, <1>4, <1>7, <1>8, <1>9 DEF Tried

(* The number of requests of a file in hand, and what is reported of the   *)
(* others, after a request.                                                *)
LEMMA AccountKeeps ==
  ASSUME DownTypes, DownTypes', Apart, RetryAccount, Bounded',
         attempts' # <<>>, Len(attempts') \in 1..(MaxRetry + 1),
         NEW x \in Paths, current = {x}, current' = {x}, File = x, Asked,
         UNCHANGED <<synced, failed>>, \A f \in Paths : f # x => disk'[f] = disk[f]
  PROVE  RetryAccount'
<1>1. x \notin synced /\ x \notin failed
  BY DEF Apart
<1>2. \A f \in Paths : f # x => requests'[f] = requests[f]
  BY AskedFacts
<1>3. requests'[x] <= Cost(0)
  <2> DEFINE r == Len(attempts') - 1
             n == requests'[x]
  <2>1. PICK b : Budget(b, requests[x])'
    BY DEF Bounded
  <2>2. \A q : Level(q)' = LevelNext(q)
    BY DEF Level, LevelNext
  <2>3. MaxRetry \in Nat
    BY RetryAssumption
  <2>4. r \in 0..MaxRetry /\ r \in 0..(Len(attempts') - 1)
    BY <2>3
  <2>5. n + Left(r, LevelNext(r).at) <= b[r] /\ b[r] <= Cost(0) /\ b[r] \in Nat
    BY <2>1, <2>2, <2>4 DEF Budget
  <2>6. 0 \in 0..(MaxRetry + 1)
    BY <2>3
  <2>7. Left(r, LevelNext(r).at) \in Nat /\ Cost(0) \in Nat
    BY <2>4, <2>6, LeftFacts, CostFacts
  <2>8. n \in Nat
    BY DEF DownTypes
  <2> HIDE DEF r, n
  <2>9. n <= Cost(0)
    BY <2>5, <2>7, <2>8
  <2> QED BY <2>9 DEF n
<1>4. Cost(0) = 2 * (Power(2, MaxRetry + 1) - 1)
  BY CostFacts
<1> SUFFICES ASSUME NEW f \in Paths
             PROVE  /\ f \in synced' => disk'[f] \in {"whole", "other"} /\ f \notin failed'
                    /\ f \in failed' /\ disk'[f] = "none" => requests'[f] >= 2 * (MaxRetry + 1)
                    /\ requests'[f] <= 2 * (Power(2, MaxRetry + 1) - 1)
  BY DEF RetryAccount
<1>5. CASE f = x
  BY <1>1, <1>3, <1>4, <1>5
<1>6. CASE f # x
  BY <1>2, <1>6 DEF RetryAccount
<1> QED BY <1>5, <1>6

(* What a step of the file in hand leaves alone.                           *)
LEMMA HandKeeps ==
  ASSUME DownTypes, Hand, Apart, Untried, attempts # <<>>, attempts' # <<>>,
         UNCHANGED <<main, remaining, current, synced, failed>>,
         NEW x \in Paths, current = {x}, \A f \in Paths : f # x => requests'[f] = requests[f]
  PROVE  Hand' /\ Apart' /\ Untried'
<1>1. Hand'
  BY DEF Hand
<1>2. Apart'
  BY DEF Apart
<1>3. Untried'
  BY DEF Untried
<1> QED BY <1>1, <1>2, <1>3

(* The program and the disk while nothing is downloaded.                   *)
LEMMA RetryBefore ==
  ASSUME IInv, IInv', RetryInv, NetDiskStep
  PROVE  RetryInv'
<1>1. main # "returned" /\ main \in {"login", "listing", "sending"}
  BY DEF NetDiskStep, ProgramStep, ListStep, SendStep, DiskChanges, RegretNetDiskWithToken, PageArrives,
         OtherBody, FirstPageFails, PageSkipped, LookUp, Descend, Ascend, Listing, StartSending, SendFile,
         WorkerStores, WorkerDrops, WorkerPanics, Finish, AllSent, PrintTree
<1>2. current = {} /\ attempts = <<>> /\ synced = {} /\ failed = {}
  BY <1>1 DEF RetryInv, Hand
<1>3. /\ current' = {} /\ attempts' = <<>> /\ synced' = {} /\ failed' = {}
      /\ disk' = disk /\ requests' = requests
      /\ main' # "returned" => remaining' = {}
  BY <1>2 DEF NetDiskStep
<1>4. Hand' /\ Apart'
  BY <1>3 DEF Hand, Apart
<1>5. Untried'
  BY <1>2, <1>3 DEF RetryInv, Untried
<1>6. Levels' /\ Tried' /\ Bounded'
  <2>1. Len(attempts') = 0 /\ \A q \in 0..(0 - 1) : FALSE
    BY <1>3
  <2> QED BY <1>3, <2>1 DEF Levels, Tried, Bounded
<1>7. RetryAccount'
  BY <1>2, <1>3 DEF RetryInv, RetryAccount
<1> QED BY <1>4, <1>5, <1>6, <1>7 DEF RetryInv

(* A file is taken up.                                                     *)
LEMMA RetryTake ==
  ASSUME IInv, IInv', RetryInv, TakeEntry
  PROVE  RetryInv'
<1>0. DownTypes /\ Hand /\ Apart /\ Untried /\ RetryAccount
  BY DEF IInv, RetryInv
<1>1. PICK x \in remaining : current' = {x} /\ remaining' = remaining \ {x}
  BY DEF TakeEntry
<1>2. /\ main = "returned" /\ current = {} /\ attempts' = <<Attempt(0)>>
      /\ UNCHANGED <<disk, requests, synced, failed>>
  BY DEF TakeEntry
<1>3. main' = main
  BY DEF TakeEntry, ndVars
<1>4. x \in Paths /\ x \notin synced /\ x \notin failed /\ requests[x] = 0
  BY <1>0, <1>1, <1>2 DEF DownTypes, Apart, Untried
<1>5. Len(attempts') = 1 /\ attempts' # <<>> /\ LevelNext(0) = Attempt(0)
  BY <1>2 DEF LevelNext
<1>6. /\ LevelNext(0).retry = 0 /\ LevelNext(0).at = "check" /\ ~LevelNext(0).ok
  BY <1>5 DEF Attempt
<1>7. \A q : Level(q)' = LevelNext(q)
  BY DEF Level, LevelNext
<1>8. Hand'
  BY <1>1, <1>2, <1>3, <1>5 DEF Hand
<1>9. Apart'
  BY <1>0, <1>1, <1>2, <1>4 DEF Apart
<1>10. Untried'
  BY <1>0, <1>1, <1>2 DEF Untried
<1>11. \A q \in 0..(Len(attempts') - 1) : q = 0
  BY <1>5
<1>12. Levels'
  BY <1>6, <1>7, <1>11 DEF Levels
<1>13. Tried'
  <2>1. ~Given(Len(attempts))'
    <3>1. 0 \in 0..(Len(attempts') - 1)
      BY <1>5
    <3> QED BY <1>6, <1>7, <3>1 DEF Given
  <2>2. Made(LevelNext(0).at) = 0
    BY <1>6 DEF Made
  <2>3. \A r \in 0..(Len(attempts') - 1) : 2 * r + Made(LevelNext(r).at) = 0
    BY <1>11, <2>2
  <2>4. requests'[x] >= 0
    BY <1>2, <1>4
  <2> QED BY <1>1, <1>7, <2>1, <2>3, <2>4 DEF Tried
<1>14. MaxRetry \in Nat
  BY RetryAssumption
<1>15. Bounded'
  <2> DEFINE b == [q \in 0..MaxRetry |-> Cost(0)]
  <2>1. Cost(0) \in Nat /\ Left(0, "check") = Cost(0) /\ 0 \in 0..MaxRetry
    <3>1. 0 \in 0..(MaxRetry + 1) /\ 0 \in 0..MaxRetry
      BY <1>14
    <3> QED BY <3>1, LeftFacts, CostFacts
  <2>2. b \in [0..MaxRetry -> Nat] /\ b[0] = Cost(0)
    BY <2>1
  <2> HIDE DEF b
  <2>3. 0 + Left(0, LevelNext(0).at) <= b[0]
    BY <1>6, <2>1, <2>2
  <2>4. b[0] <= Cost(0)
    BY <2>1, <2>2
  <2>5. Len(attempts') - 1 = 0
    BY <1>5
  <2>6. \A q \in 0..(Len(attempts') - 2) : FALSE
    BY <1>5
  <2>7. Budget(b, 0)'
    BY <1>7, <1>11, <2>2, <2>3, <2>4, <2>5, <2>6 DEF Budget
  <2>8. requests'[x] = 0
    BY <1>2, <1>4
  <2> QED BY <1>1, <2>7, <2>8, BoundedNext
<1>16. RetryAccount'
  BY <1>0, <1>2 DEF RetryAccount
<1> QED BY <1>8, <1>9, <1>10, <1>12, <1>13, <1>15, <1>16 DEF RetryInv

(* Every request: the region hash, a stream that breaks, one that arrives. *)
LEMMA RetryAsks ==
  ASSUME IInv, IInv', RetryInv, attempts # <<>>, Asked,
         UNCHANGED <<main, remaining, current, synced, failed>>,
         disk' = disk \/ \E v \in {"whole", "other", "cut"} : disk' = [disk EXCEPT ![File] = v],
         NEW call \in AttemptType, call.retry = Inner.retry,
         call.ok => call.at = "return" /\ disk'[File] \in {"whole", "other"},
         \/ Inner.at = "check" /\ call.at = "stream"
         \/ Inner.at = "stream" /\ call.at = "return",
         \/ /\ GoesOn(call)
            /\ call.at = "return" => call.ok \/ Inner.retry >= MaxRetry
         \/ /\ Recurses(call)
            /\ ~call.ok /\ Inner.retry < MaxRetry
  PROVE  RetryInv'
<1>0. /\ DownTypes /\ DownTypes' /\ Hand /\ Apart /\ Untried /\ Levels /\ Tried /\ Bounded /\ RetryAccount
  BY DEF IInv, RetryInv
<1>1. PICK x \in Paths : current = {x} /\ File = x
  BY <1>0, OneFile
<1>2. current' = {x}
  BY <1>1
<1>3. \A f \in Paths : f # x => disk'[f] = disk[f]
  BY <1>0, <1>1 DEF DownTypes
<1>4. disk'[x] = "none" => disk[x] = "none" /\ ~call.ok
  BY <1>0, <1>1 DEF DownTypes
<1>5. call.ok => disk'[x] \in {"whole", "other"}
  BY <1>0, <1>1 DEF DownTypes
<1>6. requests[x] \in Nat /\ requests'[x] = requests[x] + 1 /\ \A f \in Paths : f # x => requests'[f] = requests[f]
  BY <1>0, <1>1, AskedFacts
<1>7. Levels'
  <2>1. CASE GoesOn(call)
    BY <1>0, <1>2, <1>5, <2>1, LevelsGoesOn
  <2>2. CASE Recurses(call) /\ ~call.ok
    BY <1>0, <2>2, LevelsRecurses
  <2> QED BY <2>1, <2>2
<1>8. Tried'
  <2>1. CASE GoesOn(call) /\ (call.at = "return" => call.ok \/ Inner.retry >= MaxRetry)
    <3>1. \/ Inner.at = "check" /\ call.at = "stream"
          \/ Inner.at = "stream" /\ call.at = "return" /\ (Inner.retry >= MaxRetry \/ disk'[x] # "none")
      BY <1>4, <2>1
    <3> QED BY <1>0, <1>1, <1>2, <1>4, <2>1, <3>1, TriedGoesOn
  <2>2. CASE Recurses(call)
    BY <1>0, <1>1, <1>2, <1>4, <2>2, TriedRecurses
  <2> QED BY <2>1, <2>2
<1>9. Bounded'
  <2>1. PICK n : n = requests[x]
    OBVIOUS
  <2>2. PICK b : Budget(b, n)
    <3>1. x \in current
      BY <1>1
    <3> QED BY <1>0, <2>1, <3>1 DEF Bounded
  <2>3. n \in Nat /\ requests'[x] = n + 1
    BY <1>6, <2>1
  <2>4. CASE GoesOn(call)
    <3>1. Budget(b, n + 1)'
      BY <1>0, <2>2, <2>3, <2>4, BudgetGoesOn
    <3> QED BY <1>2, <2>3, <3>1, BoundedNext
  <2>5. CASE Recurses(call) /\ Inner.retry < MaxRetry
    <3>1. PICK c : Budget(c, n + 1)'
      BY <1>0, <2>2, <2>3, <2>5, BudgetRecurses
    <3> QED BY <1>2, <2>3, <3>1, BoundedNext
  <2> QED BY <2>4, <2>5
<1>10. attempts' # <<>> /\ Len(attempts') \in 1..(MaxRetry + 1)
  <2> DEFINE m == Len(attempts)
  <2>1. m \in 1..(MaxRetry + 1) /\ MaxRetry \in Nat /\ Inner.retry = m - 1
    BY <1>0, InnerLevel
  <2> HIDE DEF m
  <2>2. Len(attempts') = m \/ (Len(attempts') = m + 1 /\ Inner.retry < MaxRetry)
    BY DEF GoesOn, Recurses, m
  <2>3. Len(attempts') \in 1..(MaxRetry + 1)
    BY <2>1, <2>2
  <2>4. Len(attempts') # 0
    BY <2>1, <2>3
  <2> QED BY <2>3, <2>4
<1>11. Hand' /\ Apart' /\ Untried'
  BY <1>0, <1>1, <1>6, <1>10, HandKeeps
<1>12. RetryAccount'
  BY <1>0, <1>1, <1>2, <1>3, <1>9, <1>10, AccountKeeps
<1> QED BY <1>7, <1>8, <1>9, <1>11, <1>12 DEF RetryInv

(* A call returns.                                                         *)
LEMMA RetryReturns ==
  ASSUME IInv, IInv', RetryInv, AttemptReturns
  PROVE  RetryInv'
<1>0. /\ DownTypes /\ DownTypes' /\ Hand /\ Apart /\ Untried /\ Levels /\ Tried /\ Bounded /\ RetryAccount
  BY DEF IInv, RetryInv
<1>1. /\ attempts # <<>> /\ Inner.at = "return" /\ Returns
      /\ UNCHANGED <<remaining, disk, requests>>
      /\ Len(attempts) = 1 => /\ synced' = (IF Inner.ok THEN synced \cup current ELSE synced)
                              /\ failed' = (IF Inner.ok THEN failed ELSE failed \cup current)
                              /\ current' = {}
      /\ Len(attempts) # 1 => UNCHANGED <<synced, failed, current>>
  BY <1>0, ReturnFacts
<1>2. main' = main
  BY DEF AttemptReturns, ndVars
<1>3. PICK x \in Paths : current = {x}
  BY <1>0, <1>1, OneFile
<1>4. /\ Len(attempts) \in 1..(MaxRetry + 1) /\ Inner.at = Level(Len(attempts) - 1).at
      /\ Inner.ok = Level(Len(attempts) - 1).ok
  BY <1>0, <1>1, InnerLevel
<1>5. Levels'
  BY <1>0, <1>1, LevelsReturns
<1>6. CASE Len(attempts) # 1
  <2>1. UNCHANGED <<main, remaining, current, synced, failed, disk, requests>>
    BY <1>1, <1>2, <1>6
  <2>2. attempts' # <<>>
    <3> DEFINE m == Len(attempts)
    <3>1. m \in 1..(MaxRetry + 1) /\ MaxRetry \in Nat
      BY <1>4, RetryAssumption
    <3>2. Len(attempts') = m - 1 /\ m # 1
      BY <1>1, <1>6 DEF Returns
    <3> HIDE DEF m
    <3>3. Len(attempts') # 0
      BY <3>1, <3>2
    <3> QED BY <3>3
  <2>3. Hand' /\ Apart' /\ Untried'
    <3>1. \A f \in Paths : f # x => requests'[f] = requests[f]
      BY <2>1
    <3> QED BY <1>0, <1>1, <1>3, <2>1, <2>2, <3>1, HandKeeps
  <2>4. Tried'
    BY <1>0, <1>1, <2>1, TriedReturns
  <2>5. Bounded'
    <3>1. PICK n : n = requests[x]
      OBVIOUS
    <3>2. PICK b : Budget(b, n)
      <4>1. x \in current
        BY <1>3
      <4> QED BY <1>0, <3>1, <4>1 DEF Bounded
    <3>3. n \in Nat
      BY <1>0, <3>1 DEF DownTypes
    <3>4. Budget(b, n)'
      BY <1>0, <1>1, <1>6, <3>2, <3>3, BudgetReturns
    <3>5. requests'[x] = n /\ current' = {x}
      BY <1>3, <2>1, <3>1
    <3> QED BY <3>4, <3>5, BoundedNext
  <2>6. RetryAccount'
    BY <1>0, <2>1 DEF RetryAccount
  <2> QED BY <1>5, <2>3, <2>4, <2>5, <2>6 DEF RetryInv
<1>7. CASE Len(attempts) = 1
  <2>1. /\ current' = {} /\ UNCHANGED <<main, remaining, disk, requests>>
        /\ synced' = (IF Inner.ok THEN synced \cup {x} ELSE synced)
        /\ failed' = (IF Inner.ok THEN failed ELSE failed \cup {x})
    BY <1>1, <1>2, <1>3, <1>7
  <2>2. attempts' = <<>>
    <3>1. Len(attempts') = 0 /\ attempts' \in Seq(AttemptType)
      BY <1>1, <1>7 DEF Returns
    <3> QED BY <3>1, EmptySeq
  <2>3. main = "returned" /\ x \notin remaining /\ x \notin synced /\ x \notin failed
    BY <1>0, <1>3 DEF Hand, Apart
  <2>4. Hand'
    BY <2>1, <2>2, <2>3 DEF Hand
  <2>5. Apart'
    BY <1>0, <1>3, <2>1, <2>3 DEF Apart
  <2>6. Untried'
    BY <1>0, <1>3, <2>1 DEF Untried
  <2>7. Tried' /\ Bounded'
    BY <2>1 DEF Tried, Bounded
  <2>8. Inner.ok => disk[x] \in {"whole", "other"}
    <3>1. 0 \in 0..(Len(attempts) - 1) /\ Len(attempts) - 1 = 0
      BY <1>7
    <3> QED BY <1>0, <1>3, <1>4, <3>1 DEF Levels
  <2>9. disk[x] = "none" => requests[x] >= 2 * (MaxRetry + 1)
    <3>1. \A q \in 0..(Len(attempts) - 1) : q = Len(attempts) - 1
      BY <1>7
    <3>2. Given(Len(attempts))
      BY <1>1, <1>4, <3>1 DEF Given
    <3> QED BY <1>0, <1>3, <3>2 DEF Tried
  <2>10. RetryAccount'
    <3> SUFFICES ASSUME NEW f \in Paths
                 PROVE  /\ f \in synced' => disk'[f] \in {"whole", "other"} /\ f \notin failed'
                        /\ f \in failed' /\ disk'[f] = "none" => requests'[f] >= 2 * (MaxRetry + 1)
                        /\ requests'[f] <= 2 * (Power(2, MaxRetry + 1) - 1)
      BY DEF RetryAccount
    <3>1. CASE f = x
      BY <1>0, <2>1, <2>3, <2>8, <2>9, <3>1 DEF RetryAccount
    <3>2. CASE f # x
      BY <1>0, <2>1, <3>2 DEF RetryAccount
    <3> QED BY <3>1, <3>2
  <2> QED BY <1>5, <2>4, <2>5, <2>6, <2>7, <2>10 DEF RetryInv
<1> QED BY <1>6, <1>7

(* No request has been made at the start.                                  *)
LEMMA RetryInit == DownloadInit => RetryInv
<1> SUFFICES ASSUME DownloadInit PROVE RetryInv
  OBVIOUS
<1>1. /\ remaining = {} /\ current = {} /\ attempts = <<>> /\ synced = {} /\ failed = {}
      /\ \A f \in Paths : requests[f] = 0
  BY DEF DownloadInit
<1>2. Hand /\ Apart /\ Untried /\ Tried /\ Bounded
  BY <1>1 DEF Hand, Apart, Untried, Tried, Bounded
<1>3. Levels
  <2>1. \A q \in 0..(Len(attempts) - 1) : FALSE
    BY <1>1
  <2> QED BY <2>1 DEF Levels
<1>4. RetryAccount
  <2>1. Cost(0) \in Nat /\ Cost(0) = 2 * (Power(2, MaxRetry + 1) - 1)
    <3>1. 0 \in 0..(MaxRetry + 1)
      BY RetryAssumption
    <3> QED BY <3>1, CostFacts
  <2>2. 0 <= 2 * (Power(2, MaxRetry + 1) - 1)
    <3> DEFINE z == Cost(0)
    <3>1. z \in Nat /\ z = 2 * (Power(2, MaxRetry + 1) - 1)
      BY <2>1
    <3> HIDE DEF z
    <3>2. 0 <= z
      BY <3>1
    <3> QED BY <3>1, <3>2
  <2> QED BY <1>1, <2>2 DEF RetryAccount
<1> QED BY <1>2, <1>3, <1>4 DEF RetryInv

(* Every step keeps the account of the retries.                            *)
LEMMA RetryNext == IInv /\ IInv' /\ RetryInv /\ [Next]_vars => RetryInv'
<1> SUFFICES ASSUME IInv, IInv', RetryInv, [Next]_vars PROVE RetryInv'
  OBVIOUS
<1>0. DownTypes /\ Levels
  BY DEF IInv, RetryInv
<1>1. CASE NetDiskStep
  BY <1>1, RetryBefore
<1>2. CASE TakeEntry
  BY <1>2, RetryTake
<1>3. CASE DownloadCheck
  <2>1. /\ attempts # <<>> /\ Inner.at = "check" /\ Asked
        /\ UNCHANGED <<remaining, current, disk, synced, failed>>
    BY <1>0, <1>3, CheckFacts
  <2>2. main' = main
    BY <1>3 DEF DownloadCheck, ndVars
  <2>3. PICK call \in AttemptType :
           /\ call.retry = Inner.retry /\ call.at = "stream" /\ call.ok = Inner.ok
           /\ GoesOn(call) \/ (Inner.retry < MaxRetry /\ Recurses(call))
    BY <1>0, <1>3, CheckFacts
  <2>4. ~Inner.ok
    <3>1. /\ Len(attempts) \in 1..(MaxRetry + 1) /\ MaxRetry \in Nat
          /\ Inner.at = Level(Len(attempts) - 1).at /\ Inner.ok = Level(Len(attempts) - 1).ok
      BY <1>0, <2>1, InnerLevel
    <3>2. Len(attempts) - 1 \in 0..(Len(attempts) - 1)
      BY <3>1
    <3> QED BY <1>0, <2>1, <3>1, <3>2 DEF Levels
  <2> QED BY <2>1, <2>2, <2>3, <2>4, RetryAsks
<1>4. CASE StreamBreaks
  <2>1. /\ attempts # <<>> /\ Inner.at = "stream" /\ Asked
        /\ UNCHANGED <<remaining, current, synced, failed>>
        /\ disk' = disk \/ disk' = [disk EXCEPT ![File] = "cut"]
    BY <1>0, <1>4, BreaksFacts
  <2>2. main' = main
    BY <1>4 DEF StreamBreaks, ndVars
  <2>3. PICK call \in AttemptType :
           /\ call.retry = Inner.retry /\ call.at = "return" /\ call.ok = Inner.ok
           /\ \/ Inner.retry >= MaxRetry /\ GoesOn(call)
              \/ Inner.retry < MaxRetry /\ Recurses(call)
    BY <1>0, <1>4, BreaksFacts
  <2>4. ~Inner.ok
    <3>1. /\ Len(attempts) \in 1..(MaxRetry + 1) /\ MaxRetry \in Nat
          /\ Inner.at = Level(Len(attempts) - 1).at /\ Inner.ok = Level(Len(attempts) - 1).ok
      BY <1>0, <2>1, InnerLevel
    <3>2. Len(attempts) - 1 \in 0..(Len(attempts) - 1)
      BY <3>1
    <3> QED BY <1>0, <2>1, <3>1, <3>2 DEF Levels
  <2> QED BY <2>1, <2>2, <2>3, <2>4, RetryAsks
<1>5. CASE StreamArrives
  <2>1. /\ attempts # <<>> /\ Inner.at = "stream" /\ Asked
        /\ UNCHANGED <<remaining, current, synced, failed>>
        /\ \E v \in {"whole", "other"} : disk' = [disk EXCEPT ![File] = v]
    BY <1>0, <1>5, ArrivesFacts
  <2>2. main' = main
    BY <1>5 DEF StreamArrives, ndVars
  <2>3. PICK call \in AttemptType :
           call.retry = Inner.retry /\ call.at = "return" /\ call.ok = TRUE /\ GoesOn(call)
    BY <1>0, <1>5, ArrivesFacts
  <2>4. PICK v \in {"whole", "other"} : disk' = [disk EXCEPT ![File] = v]
    BY <2>1
  <2>5. disk'[File] \in {"whole", "other"}
    <3>1. Hand
      BY DEF RetryInv
    <3>2. File \in Paths
      BY <1>0, <2>1, <3>1, OneFile
    <3> QED BY <1>0, <2>4, <3>2 DEF DownTypes
  <2>6. disk' = disk \/ \E w \in {"whole", "other", "cut"} : disk' = [disk EXCEPT ![File] = w]
    BY <2>4
  <2> QED BY <2>1, <2>2, <2>3, <2>5, <2>6, RetryAsks
<1>6. CASE AttemptReturns
  BY <1>6, RetryReturns
<1>7. CASE UNCHANGED vars
  <2>1. UNCHANGED <<main, remaining, current, attempts, disk, requests, synced, failed>>
    BY <1>7 DEF vars, dlVars, ndVars
  <2>2. \A q : Level(q)' = Level(q)
    BY <2>1 DEF Level
  <2>3. Hand' /\ Apart' /\ Untried' /\ RetryAccount'
    BY <2>1 DEF RetryInv, Hand, Apart, Untried, RetryAccount
  <2>4. Levels'
    BY <2>1, <2>2 DEF RetryInv, Levels
  <2>5. Tried'
    BY <2>1, <2>2 DEF RetryInv, Tried, Given
  <2>6. Bounded'
    BY <2>1, <2>2 DEF RetryInv, Bounded, Budget
  <2> QED BY <2>3, <2>4, <2>5, <2>6 DEF RetryInv
<1> QED BY <1>1, <1>2, <1>3, <1>4, <1>5, <1>6, <1>7 DEF Next, SingleFileDownload, Terminated

(* A file reported as synced has a local copy, one given up without any    *)
(* has been tried at each retry count, and none is asked for more often    *)
(* than the tree of recursive calls allows, whatever MaxRetry is.          *)
THEOREM RetryAccounted == Spec => []RetryAccount
<1>1. RetryInv => RetryAccount
  BY DEF RetryInv
<1> QED BY <1>1, RetryInit, RetryNext, Invariance, PTL DEF Spec

-----------------------------------------------------------------------------
(* The tree of netdisk -structs.                                           *)
Larger(a, b) == IF a >= b THEN a ELSE b

(* How far a call has read its folder when it is about to ask for page p.  *)
Reached(p) == IF p = 1 THEN 0 ELSE Larger(FirstPage, (p - 1) * NextPage)

(* The page sizes of FolderFetch.                                          *)
SizeOf(p) == IF p = 1 THEN FirstPage ELSE NextPage

(* The arithmetic of FolderFetch: a page extends what has been reached,    *)
(* and when the last one has been asked for, that is StructsReach.         *)
LEMMA ReachSteps ==
  ASSUME NEW p \in Nat \ {0}, NEW c \in Nat
  PROVE  /\ Reached(p) \in Nat
         /\ \A j \in Nat \ {0} : j <= Reached(p + 1)
                => j <= Reached(p) \/ ((p - 1) * SizeOf(p) < j /\ j <= p * SizeOf(p))
         /\ p = 1 \/ p <= c => p * SizeOf(p) <= Larger(FirstPage, NextPage * c)
         /\ p # 1 /\ p > c /\ (p > 2 => p <= c + 1) => Larger(FirstPage, NextPage * c) = Reached(p)
<1> DEFINE a == FirstPage
           b == NextPage
           u == (p - 1) * b
           v == p * b
           w == c * b
<1>1. a \in Nat \ {0} /\ b \in Nat \ {0} /\ b <= a
  BY ConstantTypes
<1>2. u \in Nat /\ v \in Nat /\ w \in Nat /\ v = u + b /\ NextPage * c = w
  BY <1>1
<1>3. p <= c => v <= w
  <2>1. p < c => p * b + b <= c * b
    BY <1>1, Products
  <2>2. CASE p < c
    BY <1>1, <1>2, <2>1, <2>2
  <2>3. CASE p = c
    BY <1>1, <1>2, <2>3
  <2>4. p <= c => p < c \/ p = c
    OBVIOUS
  <2> QED BY <2>2, <2>3, <2>4
<1>4. /\ Reached(p) = IF p = 1 THEN 0 ELSE Larger(a, u)
      /\ Reached(p + 1) = Larger(a, v)
      /\ SizeOf(p) = IF p = 1 THEN a ELSE b
  <2>1. p + 1 # 1 /\ (p + 1) - 1 = p
    OBVIOUS
  <2> QED BY <2>1 DEF Reached, SizeOf
<1>5. Reached(p) \in Nat
  BY <1>1, <1>2, <1>4 DEF Larger
<1>6. p = 1 => v = b /\ (p - 1) * SizeOf(p) = 0 /\ p * SizeOf(p) = a
  BY <1>1, <1>4
<1>7. p # 1 => (p - 1) * SizeOf(p) = u /\ p * SizeOf(p) = v
  BY <1>4
<1>8. p # 1 /\ p > c /\ (p > 2 => p <= c + 1) => p - 1 = c \/ (p = 2 /\ c = 0)
  OBVIOUS
<1>9. p - 1 = c => u = w
  OBVIOUS
<1>10. p = 2 /\ c = 0 => u = b /\ w = 0
  BY <1>1
<1> HIDE DEF a, b, u, v, w
<1>11. ASSUME NEW j \in Nat \ {0}, j <= Reached(p + 1)
       PROVE  j <= Reached(p) \/ ((p - 1) * SizeOf(p) < j /\ j <= p * SizeOf(p))
  <2>1. CASE p = 1
    BY <1>1, <1>2, <1>4, <1>6, <1>11, <2>1 DEF Larger
  <2>2. CASE p # 1
    BY <1>1, <1>2, <1>4, <1>7, <1>11, <2>2 DEF Larger
  <2> QED BY <2>1, <2>2
<1>12. p = 1 \/ p <= c => p * SizeOf(p) <= Larger(a, w)
  <2>1. CASE p = 1
    BY <1>1, <1>2, <1>6, <2>1 DEF Larger
  <2>2. CASE p # 1
    BY <1>1, <1>2, <1>3, <1>7, <2>2 DEF Larger
  <2> QED BY <2>1, <2>2
<1>13. p # 1 /\ p > c /\ (p > 2 => p <= c + 1) => Larger(a, w) = Reached(p)
  <2>1. CASE p - 1 = c /\ p # 1
    BY <1>4, <1>9, <2>1
  <2>2. CASE p = 2 /\ c = 0
    BY <1>1, <1>2, <1>4, <1>10, <2>2 DEF Larger
  <2> QED BY <1>8, <2>1, <2>2
<1> QED BY <1>2, <1>5, <1>11, <1>12, <1>13 DEF a

(* The larger of the two bounds of StructsReach.                           *)
LEMMA ReachFacts ==
  ASSUME TypeOK, NEW d \in Folders
  PROVE  /\ Ceil(Len(tree[d]), FirstPage) \in Nat
         /\ StructsReach(d) = Larger(FirstPage, NextPage * Ceil(Len(tree[d]), FirstPage))
         /\ StructsReach(d) \in Nat
<1> DEFINE c == Ceil(Len(tree[d]), FirstPage)
           a == FirstPage
           w == NextPage * c
<1>1. a \in Nat \ {0} /\ NextPage \in Nat \ {0}
  BY ConstantTypes
<1>2. c \in Nat
  <2> DEFINE n == Len(tree[d])
  <2>1. tree[d] \in Seq(Paths \cup Folders)
    BY DEF TypeOK
  <2>2. n \in Nat
    BY <2>1, LenProperties
  <2> HIDE DEF n
  <2> QED BY <1>1, <2>2, CeilFacts
<1> HIDE DEF c
<1>3. w \in Nat
  BY <1>1, <1>2
<1>4. StructsReach(d) = Max({a, w})
  BY DEF StructsReach, c
<1> HIDE DEF a, w
<1>5. Max({a, w}) = Larger(a, w)
  <2> DEFINE x == Max({a, w})
  <2>1. \E y \in {a, w} : \A z \in {a, w} : y >= z
    <3>1. CASE a >= w
      BY <1>1, <1>3, <3>1
    <3>2. CASE ~(a >= w)
      BY <1>1, <1>3, <3>2
    <3> QED BY <3>1, <3>2
  <2>2. x \in {a, w} /\ \A z \in {a, w} : x >= z
    BY <2>1 DEF Max
  <2> HIDE DEF x
  <2>3. x = Larger(a, w)
    BY <1>1, <1>3, <2>2 DEF Larger
  <2> QED BY <2>3 DEF x
<1>6. Larger(a, w) \in Nat
  BY <1>1, <1>3 DEF Larger
<1> QED BY <1>2, <1>4, <1>5, <1>6 DEF a, w, c

(* The sub-folders among the first n entries of folder d are listed.       *)
Reads(d, n) == \A i \in DOMAIN tree[d] : tree[d][i] \in Folders /\ i <= n => tree[d][i] \in Seen

StackReached ==
    \A k \in DOMAIN calls :
        /\ calls[k].page = 1 => calls[k].last = 1
        /\ calls[k].page # 1 => calls[k].last = Ceil(Len(tree[calls[k].folder]), FirstPage)
        /\ calls[k].page > 2 => calls[k].page <= calls[k].last + 1
        /\ Reads(calls[k].folder, Reached(calls[k].page))

OnlyReached ==
    \A d \in Folders : \A i \in DOMAIN tree[d] : tree[d][i] \in Seen => i <= StructsReach(d)

(* A folder waits, is being read, or has been read as far as possible.     *)
AllRead ==
    \A d \in Seen :
        \/ d \in Pending
        \/ \E k \in DOMAIN calls : calls[k].folder = d
        \/ Reads(d, StructsReach(d))

StructsCore == StackReached /\ OnlyReached /\ AllRead

StructsInv ==
    program = "structs" /\ faults = 0 /\ changes = 0 =>
        /\ main # "login" => token
        /\ StructsCore

(* A page arrives.                                                         *)
LEMMA StructsPage ==
  ASSUME TypeOK, TreeApart, StructsCore, program = "structs", PageArrives
  PROVE  StructsCore'
<1> DEFINE f == Top.folder
           p == Top.page
           e == tree[f]
           entries == Page(e, p, PageSize)
           c == Ceil(Len(e), FirstPage)
           last == IF p > 1 THEN Top.last ELSE Ceil(Len(tree[f]), LastPageSize)
<1>1. /\ calls # <<>> /\ p <= Top.last /\ ReadPage(entries, last)
      /\ UNCHANGED <<tree, program>>
  BY DEF PageArrives, Listing, MorePages, diskVars, startVars
<1>2. /\ entries \in Seq(Paths \cup Folders) /\ last \in Nat /\ LastPageSize = FirstPage
      /\ f \in Folders /\ p \in Nat \ {0} /\ e \in Seq(Paths \cup Folders)
      /\ Top = calls[1] /\ 1 \in DOMAIN calls
  BY <1>1, TopFacts, ArrivingPage DEF CallType, LastPageSize
<1>3. PageSize = SizeOf(p) /\ PageSize \in Nat \ {0}
  BY <1>1, TopFacts DEF PageSize, SizeOf
<1>4. \A x : x \in Range(entries) <=> OnPage(x, e, p, PageSize)
  <2> DEFINE U == Paths \cup Folders
             z == PageSize
  <2>1. e \in Seq(U) /\ p \in Nat \ {0} /\ z \in Nat \ {0}
    BY <1>2, <1>3
  <2> HIDE DEF U, z, e, p
  <2> QED BY <2>1, PageFacts DEF z
<1>5. /\ DOMAIN calls' = DOMAIN calls
      /\ \A k \in DOMAIN calls : k # 1 => calls'[k] = calls[k]
      /\ calls'[1] = [folder |-> Top.folder, path |-> Top.path, page |-> Top.page + 1,
                      last |-> last, own |-> Top.own \o FoldersIn(entries)]
      /\ FoldersIn(entries) \in Seq(Folders) /\ Range(FoldersIn(entries)) = Range(entries) \cap Folders
      /\ KeysSeen' = KeysSeen \cup (Range(entries) \cap Folders)
  <2> HIDE DEF entries, last
  <2> QED BY <1>1, <1>2, ReadFacts
<1>6. Top.own \in Seq(Folders)
  BY <1>1, TopFacts DEF CallType
<1>7. calls'[1].folder = f /\ calls'[1].page = p + 1 /\ calls'[1].last = last
      /\ calls'[1].own = Top.own \o FoldersIn(entries)
  <2> HIDE DEF entries, last
  <2> QED BY <1>5
<1>8. Range(calls'[1].own) = Range(Top.own) \cup (Range(entries) \cap Folders)
  <2> DEFINE s == Top.own
             t == FoldersIn(entries)
  <2>1. s \in Seq(Folders) /\ t \in Seq(Folders)
    BY <1>5, <1>6
  <2> HIDE DEF s, t
  <2>2. Range(s \o t) = Range(s) \cup Range(t)
    BY <2>1, ConcatFacts
  <2> QED BY <1>5, <1>7, <2>2 DEF s, t
<1>9. Seen' = Seen \cup (Range(entries) \cap Folders)
  BY <1>5 DEF Seen
<1>10. Pending' = Pending \cup (Range(entries) \cap Folders)
  <2>1. \A k \in DOMAIN calls : Range(calls'[k].own) = Range(calls[k].own) \cup
                                    (IF k = 1 THEN Range(entries) \cap Folders ELSE {})
    BY <1>2, <1>5, <1>8
  <2> HIDE DEF entries
  <2> QED BY <1>2, <1>5, <2>1 DEF Pending
<1>11. c \in Nat /\ StructsReach(f) = Larger(FirstPage, NextPage * c)
  BY <1>2, ReachFacts
<1>12. \A d : StructsReach(d)' = StructsReach(d)
  BY <1>1 DEF StructsReach
<1>13. \A d, n : Reads(d, n) => Reads(d, n)'
  BY <1>1, <1>9 DEF Reads
<1>14. /\ p = 1 => Top.last = 1
       /\ p # 1 => Top.last = c
       /\ p > 2 => p <= Top.last + 1
       /\ Reads(f, Reached(p))
  BY <1>2 DEF StructsCore, StackReached
<1>15. last = c
  BY <1>2, <1>14
<1>16. \A i \in DOMAIN e : i \in Nat \ {0}
  BY <1>2, LenProperties
<1>17. \A i \in DOMAIN e : (p - 1) * PageSize < i /\ i <= p * PageSize => Ceil(i, PageSize) = p
  <2> DEFINE z == PageSize
  <2>1. z \in Nat \ {0} /\ p \in Nat \ {0}
    BY <1>2, <1>3
  <2> HIDE DEF z, p, e
  <2>2. ASSUME NEW i \in DOMAIN e PROVE Ceil(i, z) = p <=> (p - 1) * z < i /\ i <= p * z
    <3>1. i \in Nat \ {0}
      BY <1>16
    <3> QED BY <2>1, <3>1, PageNumber
  <2> QED BY <2>2 DEF z
<1>18. \A i \in DOMAIN e : e[i] \in Folders /\ i <= Reached(p + 1) => e[i] \in Seen'
  <2> SUFFICES ASSUME NEW i \in DOMAIN e, e[i] \in Folders, i <= Reached(p + 1)
               PROVE  e[i] \in Seen'
    OBVIOUS
  <2>1. i \in Nat \ {0}
    BY <1>16
  <2>2. i <= Reached(p) \/ ((p - 1) * SizeOf(p) < i /\ i <= p * SizeOf(p))
    <3> HIDE DEF p
    <3> QED BY <1>2, <1>11, <2>1, ReachSteps DEF p
  <2>3. CASE i <= Reached(p)
    BY <1>9, <1>14, <2>3 DEF Reads
  <2>4. CASE (p - 1) * SizeOf(p) < i /\ i <= p * SizeOf(p)
    <3>1. OnPage(e[i], e, p, PageSize)
      BY <1>3, <1>17, <2>4 DEF OnPage
    <3> HIDE DEF entries, e, p
    <3> QED BY <1>4, <1>9, <3>1
  <2> QED BY <2>2, <2>3, <2>4
<1>19. StackReached'
  <2> SUFFICES ASSUME NEW k \in DOMAIN calls
               PROVE  /\ calls'[k].page = 1 => calls'[k].last = 1
                      /\ calls'[k].page # 1 => calls'[k].last = Ceil(Len(tree'[calls'[k].folder]), FirstPage)
                      /\ calls'[k].page > 2 => calls'[k].page <= calls'[k].last + 1
                      /\ Reads(calls[k].folder, Reached(calls[k].page))'
    BY <1>5 DEF StackReached
  <2>1. CASE k = 1
    <3>1. Reads(calls[k].folder, Reached(calls[k].page))'
      <4>1. calls'[k].folder = f /\ calls'[k].page = p + 1
        BY <1>7, <2>1
      <4>2. tree'[calls'[k].folder] = e
        BY <1>1, <4>1
      <4>3. Reached(calls'[k].page) = Reached(p + 1)
        BY <4>1
      <4> HIDE DEF e, p
      <4>4. \A i \in DOMAIN tree'[calls'[k].folder] :
              tree'[calls'[k].folder][i] \in Folders /\ i <= Reached(calls'[k].page)
                => tree'[calls'[k].folder][i] \in Seen'
        BY <1>18, <4>2, <4>3
      <4> QED BY <4>4 DEF Reads, Reached
    <3>2. p + 1 # 1 /\ (p + 1 > 2 => p + 1 <= c + 1)
      BY <1>1, <1>2, <1>11, <1>14
    <3>3. calls'[k].page = p + 1 /\ calls'[k].last = c /\ Ceil(Len(tree'[calls'[k].folder]), FirstPage) = c
      BY <1>1, <1>7, <1>15, <2>1
    <3> QED BY <3>1, <3>2, <3>3
  <2>2. CASE k # 1
    <3>1. calls'[k] = calls[k]
      BY <1>5, <2>2
    <3>2. Reads(calls[k].folder, Reached(calls[k].page))'
      BY <1>1, <1>9, <3>1 DEF Reads, Reached, StructsCore, StackReached
    <3> QED BY <1>1, <3>1, <3>2 DEF StructsCore, StackReached
  <2> QED BY <2>1, <2>2
<1>20. OnlyReached'
  <2> SUFFICES ASSUME NEW d \in Folders, NEW i \in DOMAIN tree[d], tree[d][i] \in Seen'
               PROVE  i <= StructsReach(d)
    BY <1>1, <1>12 DEF OnlyReached
  <2>1. CASE tree[d][i] \in Seen
    BY <2>1 DEF StructsCore, OnlyReached
  <2>2. CASE tree[d][i] \in Range(entries)
    <3>1. PICK j \in DOMAIN e : tree[d][i] = e[j] /\ Ceil(j, PageSize) = p
      <4> HIDE DEF entries, e, p
      <4> QED BY <1>4, <2>2 DEF OnPage
    <3>2. d = f /\ i = j
      BY <1>2, <3>1 DEF TreeApart
    <3>3. j \in Nat \ {0}
      BY <1>16
    <3>4. j <= p * SizeOf(p)
      <4> DEFINE z == PageSize
      <4>1. z \in Nat \ {0} /\ p \in Nat \ {0} /\ Ceil(j, z) = p /\ z = SizeOf(p)
        BY <1>2, <1>3, <3>1
      <4> HIDE DEF z, p
      <4>2. Ceil(j, z) = p <=> (p - 1) * z < j /\ j <= p * z
        BY <3>3, <4>1, PageNumber
      <4> QED BY <4>1, <4>2
    <3>5. p = 1 \/ p <= c
      BY <1>1, <1>14
    <3>6. p * SizeOf(p) <= StructsReach(f)
      <4> HIDE DEF p, c
      <4> QED BY <1>2, <1>11, <3>5, ReachSteps DEF p
    <3>7. StructsReach(f) \in Nat /\ p * SizeOf(p) \in Nat
      BY <1>2, <1>3, ReachFacts
    <3>8. j <= StructsReach(f)
      <4> DEFINE x == p * SizeOf(p)
                 y == StructsReach(f)
      <4>1. j <= x /\ x <= y /\ x \in Nat /\ y \in Nat
        BY <3>4, <3>6, <3>7
      <4> HIDE DEF x, y
      <4>2. j <= y
        BY <3>3, <4>1
      <4> QED BY <4>2 DEF y
    <3> QED BY <3>2, <3>8
  <2> QED BY <1>9, <2>1, <2>2
<1>21. AllRead'
  <2> SUFFICES ASSUME NEW d \in Seen'
               PROVE  \/ d \in Pending'
                      \/ \E k \in DOMAIN calls' : calls'[k].folder = d
                      \/ Reads(d, StructsReach(d))'
    BY DEF AllRead
  <2>1. CASE d \in Range(entries) \cap Folders
    BY <1>10, <2>1
  <2>2. CASE d \in Seen
    <3>1. CASE d \in Pending
      BY <1>10, <3>1
    <3>2. CASE \E k \in DOMAIN calls : calls[k].folder = d
      <4>1. \A k \in DOMAIN calls : calls'[k].folder = calls[k].folder
        BY <1>2, <1>5, <1>7
      <4> QED BY <1>5, <3>2, <4>1
    <3>3. CASE Reads(d, StructsReach(d))
      BY <1>1, <1>9, <1>12, <3>3 DEF Reads
    <3> QED BY <2>2, <3>1, <3>2, <3>3 DEF StructsCore, AllRead
  <2> QED BY <1>9, <2>1, <2>2
<1> QED BY <1>19, <1>20, <1>21 DEF StructsCore

(* A folder that waited is begun.                                          *)
LEMMA StructsDescend ==
  ASSUME TypeOK, StructsCore, Descend
  PROVE  StructsCore'
<1> DEFINE n == Len(calls)
           d0 == Head(Top.own)
<1>1. UNCHANGED <<tree, folders>>
  BY DEF Descend, diskVars
<1>2. /\ calls # <<>> /\ Top.own # <<>> /\ d0 \in Folders
      /\ DOMAIN calls' = 1..(n + 1)
      /\ calls'[1] = Call(d0, Append(Top.path, d0))
      /\ calls'[2] = [folder |-> Top.folder, path |-> Top.path, page |-> Top.page,
                      last |-> Top.last, own |-> Tail(Top.own)]
      /\ \A k \in 2..n : calls'[k + 1] = calls[k]
  BY DescendFacts
<1>3. Top = calls[1] /\ DOMAIN calls = 1..n /\ n \in Nat \ {0} /\ Top \in CallType
  BY <1>2, TopFacts
<1>4. Range(Top.own) = {d0} \cup Range(Tail(Top.own))
  <2>1. Top.own \in Seq(Folders)
    BY <1>3 DEF CallType
  <2> QED BY <1>2, <2>1, HeadTailFacts
<1> HIDE DEF n, d0
<1>5. /\ calls'[1].folder = d0 /\ calls'[1].page = 1 /\ calls'[1].last = 1
      /\ calls'[2].folder = Top.folder /\ calls'[2].page = Top.page /\ calls'[2].last = Top.last
      /\ calls'[2].own = Tail(Top.own)
  BY <1>2 DEF Call
<1>6. \A k \in 1..(n + 1) : k = 1 \/ k = 2 \/ (k - 1 \in 2..n /\ (k - 1) + 1 = k)
  BY <1>3
<1>7. \A k \in 1..(n + 1) :
         \/ k = 1
         \/ \E j \in DOMAIN calls : /\ calls'[k].folder = calls[j].folder
                                    /\ calls'[k].page = calls[j].page
                                    /\ calls'[k].last = calls[j].last
  <2> SUFFICES ASSUME NEW k \in 1..(n + 1), k # 1
               PROVE  \E j \in DOMAIN calls : /\ calls'[k].folder = calls[j].folder
                                              /\ calls'[k].page = calls[j].page
                                              /\ calls'[k].last = calls[j].last
    OBVIOUS
  <2>1. CASE k = 2
    BY <1>3, <1>5, <2>1
  <2>2. CASE k - 1 \in 2..n /\ (k - 1) + 1 = k
    <3>1. calls'[(k - 1) + 1] = calls[k - 1]
      BY <1>2, <2>2
    <3>2. k - 1 \in DOMAIN calls /\ calls'[k] = calls[k - 1]
      BY <1>3, <2>2, <3>1
    <3> QED BY <3>2
  <2> QED BY <1>6, <2>1, <2>2
<1>8. Seen' = Seen
  BY <1>1 DEF Seen, KeysSeen
<1>9. \A d, m : Reads(d, m)' <=> Reads(d, m)
  BY <1>1, <1>8 DEF Reads
<1>10. StackReached'
  <2> SUFFICES ASSUME NEW k \in DOMAIN calls'
               PROVE  /\ calls'[k].page = 1 => calls'[k].last = 1
                      /\ calls'[k].page # 1 => calls'[k].last = Ceil(Len(tree'[calls'[k].folder]), FirstPage)
                      /\ calls'[k].page > 2 => calls'[k].page <= calls'[k].last + 1
                      /\ Reads(calls[k].folder, Reached(calls[k].page))'
    BY DEF StackReached
  <2>1. CASE k = 1
    <3>1. Reached(calls'[k].page) = 0 /\ calls'[k].folder = d0
      BY <1>5, <2>1 DEF Reached
    <3>2. \A i \in DOMAIN tree[d0] : ~(i <= 0)
      <4>1. tree[d0] \in Seq(Paths \cup Folders)
        BY <1>2 DEF TypeOK
      <4> QED BY <4>1, LenProperties
    <3>3. Reads(calls[k].folder, Reached(calls[k].page))'
      BY <1>1, <3>1, <3>2 DEF Reads, Reached
    <3>4. calls'[k].page = 1 /\ calls'[k].last = 1
      BY <1>5, <2>1
    <3> QED BY <3>3, <3>4
  <2>2. CASE k # 1
    <3>1. PICK j \in DOMAIN calls : /\ calls'[k].folder = calls[j].folder
                                    /\ calls'[k].page = calls[j].page
                                    /\ calls'[k].last = calls[j].last
      BY <1>2, <1>7, <2>2
    <3>2. /\ calls[j].page = 1 => calls[j].last = 1
          /\ calls[j].page # 1 => calls[j].last = Ceil(Len(tree[calls[j].folder]), FirstPage)
          /\ calls[j].page > 2 => calls[j].page <= calls[j].last + 1
          /\ Reads(calls[j].folder, Reached(calls[j].page))
      BY DEF StructsCore, StackReached
    <3>3. Reads(calls[k].folder, Reached(calls[k].page))'
      BY <1>1, <1>8, <3>1, <3>2 DEF Reads, Reached
    <3> QED BY <1>1, <3>1, <3>2, <3>3
  <2> QED BY <2>1, <2>2
<1>11. OnlyReached'
  BY <1>1, <1>8 DEF StructsCore, OnlyReached, StructsReach
<1>12. AllRead'
  <2> SUFFICES ASSUME NEW d \in Seen
               PROVE  \/ d \in Pending'
                      \/ \E k \in DOMAIN calls' : calls'[k].folder = d
                      \/ Reads(d, StructsReach(d))'
    BY <1>8 DEF AllRead
  <2>1. 1 \in DOMAIN calls' /\ 2 \in DOMAIN calls' /\ \A k \in 2..n : k + 1 \in DOMAIN calls'
    BY <1>2, <1>3
  <2>2. \A k \in DOMAIN calls : k = 1 \/ k \in 2..n
    BY <1>3
  <2>3. CASE d \in Pending
    <3>1. PICK k \in DOMAIN calls : d \in Range(calls[k].own)
      BY <2>3 DEF Pending
    <3>2. CASE k = 1 /\ d = d0
      BY <1>5, <2>1, <3>2
    <3>3. CASE k = 1 /\ d # d0
      <4>1. d \in Range(calls'[2].own)
        BY <1>3, <1>4, <1>5, <3>1, <3>3
      <4> QED BY <2>1, <4>1 DEF Pending
    <3>4. CASE k \in 2..n
      <4>1. d \in Range(calls'[k + 1].own)
        BY <1>2, <3>1, <3>4
      <4> QED BY <2>1, <3>4, <4>1 DEF Pending
    <3> QED BY <2>2, <3>2, <3>3, <3>4
  <2>4. CASE \E k \in DOMAIN calls : calls[k].folder = d
    <3>1. PICK k \in DOMAIN calls : calls[k].folder = d
      BY <2>4
    <3>2. CASE k = 1
      BY <1>3, <1>5, <2>1, <3>1, <3>2
    <3>3. CASE k \in 2..n
      BY <1>2, <2>1, <3>1, <3>3
    <3> QED BY <2>2, <3>2, <3>3
  <2>5. CASE Reads(d, StructsReach(d))
    BY <1>1, <1>8, <2>5 DEF Reads, StructsReach
  <2> QED BY <2>3, <2>4, <2>5 DEF StructsCore, AllRead
<1> QED BY <1>10, <1>11, <1>12 DEF StructsCore

(* A folder whose last page has been asked for is left.                    *)
LEMMA StructsAscend ==
  ASSUME TypeOK, StructsCore, Ascend
  PROVE  StructsCore'
<1> DEFINE n == Len(calls)
           f == Top.folder
           p == Top.page
           c == Ceil(Len(tree[f]), FirstPage)
<1>1. UNCHANGED <<tree, folders>> /\ ~(p <= Top.last)
  BY DEF Ascend, diskVars, MorePages
<1>2. /\ calls # <<>> /\ Top.own = <<>>
      /\ DOMAIN calls' = 1..(n - 1) /\ \A k \in 1..(n - 1) : calls'[k] = calls[k + 1]
  BY AscendFacts
<1>3. Top = calls[1] /\ DOMAIN calls = 1..n /\ n \in Nat \ {0} /\ Top \in CallType
  BY <1>2, TopFacts
<1> HIDE DEF n
<1>4. \A k \in 1..(n - 1) : k + 1 \in DOMAIN calls
  BY <1>3
<1>5. \A k \in DOMAIN calls : k = 1 \/ (k - 1 \in 1..(n - 1) /\ (k - 1) + 1 = k)
  BY <1>3
<1>6. Seen' = Seen
  BY <1>1 DEF Seen, KeysSeen
<1>7. StackReached'
  <2> SUFFICES ASSUME NEW k \in DOMAIN calls'
               PROVE  /\ calls'[k].page = 1 => calls'[k].last = 1
                      /\ calls'[k].page # 1 => calls'[k].last = Ceil(Len(tree'[calls'[k].folder]), FirstPage)
                      /\ calls'[k].page > 2 => calls'[k].page <= calls'[k].last + 1
                      /\ Reads(calls[k].folder, Reached(calls[k].page))'
    BY DEF StackReached
  <2>1. PICK j \in DOMAIN calls : calls'[k] = calls[j]
    BY <1>2, <1>4
  <2>2. /\ calls[j].page = 1 => calls[j].last = 1
        /\ calls[j].page # 1 => calls[j].last = Ceil(Len(tree[calls[j].folder]), FirstPage)
        /\ calls[j].page > 2 => calls[j].page <= calls[j].last + 1
        /\ Reads(calls[j].folder, Reached(calls[j].page))
    BY DEF StructsCore, StackReached
  <2>3. Reads(calls[k].folder, Reached(calls[k].page))'
    BY <1>1, <1>6, <2>1, <2>2 DEF Reads, Reached
  <2> QED BY <1>1, <2>1, <2>2, <2>3
<1>8. OnlyReached'
  BY <1>1, <1>6 DEF StructsCore, OnlyReached, StructsReach
<1>9. Reads(f, StructsReach(f))
  <2>1. f \in Folders /\ p \in Nat \ {0} /\ Top.last \in Nat
    BY <1>3 DEF CallType
  <2>2. /\ p = 1 => Top.last = 1
        /\ p # 1 => Top.last = c
        /\ p > 2 => p <= Top.last + 1
        /\ Reads(f, Reached(p))
    BY <1>3 DEF StructsCore, StackReached
  <2>3. c \in Nat /\ StructsReach(f) = Larger(FirstPage, NextPage * c)
    BY <2>1, ReachFacts
  <2> HIDE DEF c, p
  <2>4. p # 1 /\ p > c /\ (p > 2 => p <= c + 1)
    BY <1>1, <2>1, <2>2, <2>3
  <2>5. StructsReach(f) = Reached(p)
    BY <2>1, <2>3, <2>4, ReachSteps
  <2> QED BY <2>2, <2>5
<1>10. AllRead'
  <2> SUFFICES ASSUME NEW d \in Seen
               PROVE  \/ d \in Pending'
                      \/ \E k \in DOMAIN calls' : calls'[k].folder = d
                      \/ Reads(d, StructsReach(d))'
    BY <1>6 DEF AllRead
  <2>1. ASSUME Reads(d, StructsReach(d)) PROVE Reads(d, StructsReach(d))'
    BY <1>1, <1>6, <2>1 DEF Reads, StructsReach
  <2>2. CASE d \in Pending
    <3>1. PICK k \in DOMAIN calls : d \in Range(calls[k].own)
      BY <2>2 DEF Pending
    <3>2. k # 1
      <4>1. Range(<<>>) = {}
        BY DEF Range
      <4> QED BY <1>2, <1>3, <3>1, <4>1
    <3>3. k - 1 \in DOMAIN calls' /\ calls'[k - 1] = calls[k]
      BY <1>2, <1>5, <3>2
    <3> QED BY <3>1, <3>3 DEF Pending
  <2>3. CASE \E k \in DOMAIN calls : calls[k].folder = d
    <3>1. PICK k \in DOMAIN calls : calls[k].folder = d
      BY <2>3
    <3>2. CASE k = 1
      <4>1. d = f
        BY <1>3, <3>1, <3>2
      <4> QED BY <1>9, <2>1, <4>1
    <3>3. CASE k # 1
      <4>1. k - 1 \in DOMAIN calls' /\ calls'[k - 1] = calls[k]
        BY <1>2, <1>5, <3>3
      <4> QED BY <3>1, <4>1
    <3> QED BY <3>2, <3>3
  <2> QED BY <2>1, <2>2, <2>3 DEF StructsCore, AllRead
<1> QED BY <1>7, <1>8, <1>10 DEF StructsCore

(* The listing of -structs after every step.                               *)
LEMMA StructsNext ==
  ASSUME TypeOK, ListInv, StructsInv, ProgramStep \/ DiskChanges
  PROVE  StructsInv'
<1>1. program' = program
  BY DEF ProgramStep, ListStep, SendStep, DiskChanges, RegretNetDiskWithToken, PageArrives, OtherBody,
         FirstPageFails, PageSkipped, LookUp, Descend, Ascend, StartSending, SendFile, WorkerStores,
         WorkerDrops, WorkerPanics, Finish, PrintTree, startVars
<1>2. ASSUME UNCHANGED <<calls, folders, tree>>, StructsCore PROVE StructsCore'
  <2>1. Seen' = Seen /\ Pending' = Pending
    BY <1>2 DEF Seen, KeysSeen, Pending
  <2> QED BY <1>2, <2>1 DEF StructsCore, StackReached, OnlyReached, AllRead, Reads, StructsReach
<1>3. CASE RegretNetDiskWithToken
  <2>1. /\ UNCHANGED <<calls, folders, tree, changes>> /\ main' # "login"
        /\ (token' = TRUE /\ faults' = faults) \/ faults' = faults + 1
    BY <1>3 DEF RegretNetDiskWithToken, diskVars, listVars
  <2>2. faults' = 0 => token' = TRUE /\ faults = 0
    BY <2>1 DEF TypeOK
  <2> QED BY <1>1, <1>2, <2>1, <2>2 DEF StructsInv
<1>4. CASE OtherBody \/ PageSkipped \/ FirstPageFails
  <2>1. main = "listing" /\ changes' = changes
    BY <1>4 DEF OtherBody, PageSkipped, FirstPageFails, Listing, diskVars
  <2>2. faults' = faults + 1 \/ (~token /\ faults' = faults)
    BY <1>4 DEF OtherBody, PageSkipped, FirstPageFails
  <2>3. faults' # 0 \/ (~token /\ faults' = faults)
    BY <2>2 DEF TypeOK
  <2> QED BY <1>1, <2>1, <2>3 DEF StructsInv
<1>5. CASE LookUp \/ SendStep \/ PrintTree
  <2>1. UNCHANGED <<calls, folders, tree, changes, token>> /\ main # "login"
    BY <1>5 DEF LookUp, SendStep, PrintTree, StartSending, SendFile, WorkerStores,
         WorkerDrops, WorkerPanics, Finish, AllSent, diskVars, listVars
  <2>2. faults' = faults \/ faults' = faults + 1
    BY <1>5 DEF LookUp, SendStep, PrintTree, StartSending, SendFile, WorkerStores,
         WorkerDrops, WorkerPanics, Finish
  <2>3. faults' = 0 => faults = 0
    BY <2>2 DEF TypeOK
  <2> QED BY <1>1, <1>2, <2>1, <2>3 DEF StructsInv
<1>6. CASE PageArrives \/ Descend \/ Ascend
  <2>1. UNCHANGED <<changes, faults, token>> /\ main = "listing"
    BY <1>6 DEF PageArrives, Descend, Ascend, Listing, diskVars
  <2> SUFFICES ASSUME program = "structs", faults = 0, changes = 0
               PROVE  token' /\ StructsCore'
    BY <1>1, <2>1 DEF StructsInv
  <2>2. token /\ StructsCore /\ TreeApart
    BY <2>1 DEF StructsInv, ListInv
  <2> QED BY <1>6, <2>1, <2>2, StructsPage, StructsDescend, StructsAscend
<1>7. CASE DiskChanges
  <2>1. changes' # 0
    BY <1>7 DEF DiskChanges, TypeOK
  <2> QED BY <2>1 DEF StructsInv
<1> QED BY <1>3, <1>4, <1>5, <1>6, <1>7 DEF ProgramStep, ListStep

(* At the start the root is about to be read.                              *)
LEMMA StructsInit == Init => StructsInv
<1> SUFFICES ASSUME Init PROVE StructsInv
  OBVIOUS
<1>0. TypeOK
  BY TypeInit
<1>1. main = "login" /\ calls = <<Call(Root, <<Root>>)>> /\ folders = <<>>
  BY DEF Init
<1>2. PICK s \in Starts : tree = s.tree
  BY DEF Init
<1>3. TreeApart
  BY <1>2, StartsAssumption DEF TreeApart
<1>4. /\ DOMAIN calls = {1} /\ calls[1].folder = Root /\ calls[1].page = 1 /\ calls[1].last = 1
  BY <1>1 DEF Call
<1>5. Seen = {Root}
  <2>1. Range(<<>>) = {}
    BY DEF Range
  <2> QED BY <1>1, <2>1 DEF Seen, KeysSeen
<1>6. StackReached
  <2>1. Reached(1) = 0
    BY DEF Reached
  <2>2. \A i \in DOMAIN tree[Root] : ~(i <= 0)
    <3>1. tree[Root] \in Seq(Paths \cup Folders)
      BY <1>0, ConstantTypes DEF TypeOK
    <3> QED BY <3>1, LenProperties
  <2> QED BY <1>4, <2>1, <2>2 DEF StackReached, Reads
<1>7. OnlyReached
  <2>1. \A d \in Folders : \A i \in DOMAIN tree[d] : tree[d][i] # Root
    BY <1>3, ConstantTypes DEF TreeApart
  <2> QED BY <1>5, <2>1 DEF OnlyReached
<1>8. AllRead
  BY <1>4, <1>5 DEF AllRead
<1> QED BY <1>1, <1>6, <1>7, <1>8 DEF StructsInv, StructsCore

(* The prefixes of a path are those of its parent's, and the path.         *)
LEMMA PrefixFacts ==
  ASSUME NEW U, NEW q \in Seq(U), NEW x \in U
  PROVE  /\ Append(q, x) \in Seq(U) /\ Append(q, x) # <<>> /\ Last(Append(q, x)) = x
         /\ Prefixes(Append(q, x)) = Prefixes(q) \cup {Append(q, x)}
         /\ Prefixes(q) \subseteq Seq(U)
<1> DEFINE a == Append(q, x)
           n == Len(q)
<1>1. /\ a \in Seq(U) /\ a # <<>> /\ Len(a) = n + 1 /\ n \in Nat
      /\ \A i \in 1..n : a[i] = q[i] /\ q[i] \in U
      /\ a[n + 1] = x
  BY AppendProperties, LenProperties, ElementOfSeq
<1> HIDE DEF a, n
<1>2. ASSUME NEW l \in 0..n PROVE SubSeq(a, 1, l) = SubSeq(q, 1, l) /\ SubSeq(q, 1, l) \in Seq(U)
  <2> DEFINE s == SubSeq(a, 1, l)
             t == SubSeq(q, 1, l)
  <2>1. l \in Int /\ l \in Nat /\ 1 \in Int /\ \A i \in 1..l : i \in 1..n
    BY <1>1
  <2>2. \A i \in 1..l : a[i] \in U /\ q[i] \in U /\ a[i] = q[i]
    BY <1>1, <2>1
  <2>3. /\ s \in Seq(U) /\ Len(s) = (IF 1 <= l THEN l - 1 + 1 ELSE 0) /\ \A i \in 1..(l - 1 + 1) : s[i] = a[1 + i - 1]
        /\ t \in Seq(U) /\ Len(t) = (IF 1 <= l THEN l - 1 + 1 ELSE 0) /\ \A i \in 1..(l - 1 + 1) : t[i] = q[1 + i - 1]
    BY <2>1, <2>2, SubSeqProperties
  <2> HIDE DEF s, t
  <2>4. Len(s) = l /\ Len(t) = l
    BY <2>1, <2>3
  <2>5. \A i \in 1..l : s[i] = t[i]
    <3> SUFFICES ASSUME NEW i \in 1..l PROVE s[i] = t[i]
      OBVIOUS
    <3>1. i \in 1..(l - 1 + 1) /\ 1 + i - 1 = i
      BY <2>1
    <3> QED BY <2>2, <2>3, <3>1
  <2>6. s = t
    BY <2>3, <2>4, <2>5, SeqEqual
  <2> QED BY <2>3, <2>6 DEF s, t
<1>3. SubSeq(a, 1, n + 1) = a
  BY <1>1, SubSeqFull
<1>4. Prefixes(a) = {SubSeq(a, 1, l) : l \in 0..(n + 1)} /\ Prefixes(q) = {SubSeq(q, 1, l) : l \in 0..n}
  BY <1>1 DEF Prefixes, n
<1>5. \A l \in 0..(n + 1) : l \in 0..n \/ l = n + 1
  BY <1>1
<1>6. n + 1 \in 0..(n + 1) /\ \A l \in 0..n : l \in 0..(n + 1)
  BY <1>1
<1>7. Prefixes(a) = Prefixes(q) \cup {a}
  <2>1. ASSUME NEW y \in Prefixes(a) PROVE y \in Prefixes(q) \cup {a}
    <3>1. PICK l \in 0..(n + 1) : y = SubSeq(a, 1, l)
      BY <1>4, <2>1
    <3> QED BY <1>2, <1>3, <1>4, <1>5, <3>1
  <2>2. ASSUME NEW y \in Prefixes(q) PROVE y \in Prefixes(a)
    <3>1. PICK l \in 0..n : y = SubSeq(q, 1, l)
      BY <1>4, <2>2
    <3>2. y = SubSeq(a, 1, l) /\ l \in 0..(n + 1)
      BY <1>2, <1>6, <3>1
    <3> QED BY <1>4, <3>2
  <2>3. a \in Prefixes(a)
    BY <1>3, <1>4, <1>6
  <2> QED BY <2>1, <2>2, <2>3
<1>8. Prefixes(q) \subseteq Seq(U)
  BY <1>2, <1>4
<1>9. Last(a) = x
  BY <1>1 DEF Last
<1> QED BY <1>1, <1>7, <1>8, <1>9 DEF a

(* The trees that are built.                                               *)
Trees == {<<>>} \cup UNION {[D -> Folders] : D \in SUBSET Seq(Folders)}

(* Adding a path to a tree gives a tree.                                   *)
LEMMA AddType ==
  ASSUME NEW t \in Trees, NEW p \in FolderType
  PROVE  AddPathToTree(t, p) \in Trees
<1> DEFINE new == {q \in Prefixes(p.path) : q # <<>>} \ DOMAIN t
           D == DOMAIN t \cup new
<1>1. p.path \in Seq(Folders) /\ p.key \in Folders
  BY DEF FolderType
<1>2. Prefixes(p.path) \subseteq Seq(Folders)
  <2> DEFINE U == Folders
             s == p.path
             x == p.key
  <2>1. s \in Seq(U) /\ x \in U
    BY <1>1
  <2> HIDE DEF U, s, x
  <2>2. Prefixes(s) \subseteq Seq(U)
    BY <2>1, PrefixFacts
  <2> QED BY <2>2 DEF U, s
<1>3. DOMAIN t \in SUBSET Seq(Folders) /\ \A q \in DOMAIN t : t[q] \in Folders
  <2>1. CASE t = <<>>
    BY <2>1
  <2>2. CASE t # <<>>
    BY <2>2 DEF Trees
  <2> QED BY <2>1, <2>2
<1>4. D \in SUBSET Seq(Folders)
  BY <1>2, <1>3
<1>5. AddPathToTree(t, p) = [q \in D |-> IF q \in DOMAIN t THEN t[q] ELSE p.key]
  BY DEF AddPathToTree
<1> HIDE DEF D
<1>6. AddPathToTree(t, p) \in [D -> Folders]
  BY <1>1, <1>3, <1>5
<1> QED BY <1>4, <1>6 DEF Trees

(* f[k] is the tree after the first k paths.                               *)
Builds(f, s) ==
    /\ f \in [0..Len(s) -> Trees]
    /\ f[0] = <<>>
    /\ \A k \in 1..Len(s) : f[k] = AddPathToTree(f[k - 1], s[k])

(* The recursion behind TreeOf.                                            *)
LEMMA TreeSteps ==
  ASSUME NEW s \in Seq(FolderType)
  PROVE  \E f : Builds(f, s) /\ TreeOf(s) = f[Len(s)]
<1> DEFINE n == Len(s)
           h == [z \in (1..n) \X Trees |-> AddPathToTree(z[2], s[z[1]])]
           Is(f) == f = [k \in 0..n |-> IF k = 0 THEN <<>> ELSE AddPathToTree(f[k - 1], s[k])]
<1>1. n \in Nat /\ \A k \in 1..n : s[k] \in FolderType
  BY LenProperties, ElementOfSeq
<1>2. TreeOf(s) = (CHOOSE f : Is(f))[n]
  BY DEF TreeOf
<1>3. h \in [(1..n) \X Trees -> Trees]
  <2>1. \A z \in (1..n) \X Trees : AddPathToTree(z[2], s[z[1]]) \in Trees
    BY <1>1, AddType
  <2> QED BY <2>1
<1>4. \A k \in 1..n, t \in Trees : h[<<k, t>>] = AddPathToTree(t, s[k])
  OBVIOUS
<1> HIDE DEF h, n
<1> DEFINE T == Trees
           a == <<>>
<1>5. \E f : Runs(f, n, T, a, h)
  <2>1. h \in [(1..n) \X T -> T] /\ a \in T
    BY <1>3 DEF Trees
  <2> HIDE DEF T, a
  <2> QED BY <1>1, <2>1, Recursion
<1>6. PICK f : f \in [0..n -> Trees] /\ f[0] = <<>> /\ \A k \in 1..n : f[k] = h[<<k, f[k - 1]>>]
  BY <1>5 DEF Runs
<1>7. ASSUME NEW k \in 1..n PROVE f[k] = AddPathToTree(f[k - 1], s[k])
  <2>1. k - 1 \in 0..n /\ f[k - 1] \in Trees
    BY <1>1, <1>6
  <2>2. f[k] = h[<<k, f[k - 1]>>]
    BY <1>6
  <2> QED BY <1>4, <2>1, <2>2
<1>8. Is(f)
  <2>1. \A k \in 0..n : k = 0 \/ k \in 1..n
    BY <1>1
  <2>2. ASSUME NEW k \in 0..n PROVE f[k] = IF k = 0 THEN <<>> ELSE AddPathToTree(f[k - 1], s[k])
    BY <1>6, <1>7, <2>1
  <2> QED BY <1>6, <2>2
<1> DEFINE g == CHOOSE x : Is(x)
<1>9. Is(g)
  BY <1>8
<1> HIDE DEF g
<1>10. g[0] = <<>>
  BY <1>1, <1>9
<1>11. ASSUME NEW k \in 1..n PROVE g[k] = AddPathToTree(g[k - 1], s[k])
  <2>1. k \in 0..n /\ k # 0
    BY <1>1
  <2> QED BY <1>9, <2>1
<1>12. \A k \in 0..n : g[k] \in Trees
  <2> DEFINE G == {k \in 0..n : g[k] \in Trees}
  <2>1. 0 \in G
    BY <1>1, <1>10 DEF Trees
  <2>2. ASSUME NEW k \in 1..n, k - 1 \in G PROVE k \in G
    <3>1. g[k - 1] \in Trees /\ k \in 0..n /\ s[k] \in FolderType
      BY <1>1, <2>2
    <3>2. AddPathToTree(g[k - 1], s[k]) \in Trees
      BY <3>1, AddType
    <3> QED BY <1>11, <3>1, <3>2
  <2>3. \A k \in 0..n : k \in G
    <3> HIDE DEF G
    <3> QED BY <1>1, <2>1, <2>2, Induction
  <2> QED BY <2>3
<1>13. Builds(g, s)
  BY <1>9, <1>10, <1>11, <1>12 DEF Builds, n
<1> QED BY <1>2, <1>13 DEF g, n

(* Every path is that of a folder whose parent is the root or comes before *)
(* it.                                                                     *)
Grows(s) ==
    \A i \in DOMAIN s : \E q \in Seq(Folders) :
        /\ s[i].path = Append(q, s[i].key)
        /\ q = <<>> \/ \E j \in 1..(i - 1) : s[j].path = q

(* A tree that holds with each node the nodes above it, each with the id   *)
(* of its own folder.                                                      *)
Proper(t) ==
    \A q \in DOMAIN t : t[q] = Last(q) /\ \A x \in Prefixes(q) : x = <<>> \/ x \in DOMAIN t

(* A path below a node of such a tree adds one node to it, its own.        *)
LEMMA AddProper ==
  ASSUME NEW t \in Trees, Proper(t), NEW p \in FolderType, NEW q \in Seq(Folders),
         p.path = Append(q, p.key), q = <<>> \/ q \in DOMAIN t
  PROVE  /\ DOMAIN AddPathToTree(t, p) = DOMAIN t \cup {p.path}
         /\ Proper(AddPathToTree(t, p))
<1> DEFINE y == p.path
           new == {x \in Prefixes(y) : x # <<>>} \ DOMAIN t
           u == AddPathToTree(t, p)
<1>1. y # <<>> /\ Last(y) = p.key /\ Prefixes(y) = Prefixes(q) \cup {y}
  <2> DEFINE U == Folders
             x == p.key
  <2>1. q \in Seq(U) /\ x \in U /\ y = Append(q, x)
    BY DEF FolderType
  <2> HIDE DEF U, x, y
  <2> QED BY <2>1, PrefixFacts DEF x
<1>2. \A x \in Prefixes(q) : x = <<>> \/ x \in DOMAIN t
  <2>1. CASE q = <<>>
    <3>1. Prefixes(q) = {SubSeq(q, 1, l) : l \in 0..0}
      BY <2>1 DEF Prefixes
    <3>2. \A l \in 0..0 : SubSeq(q, 1, l) = <<>>
      <4>1. SubSeq(q, 1, 0) = <<>>
        BY SubSeqEmpty
      <4> QED BY <4>1
    <3> QED BY <3>1, <3>2
  <2>2. CASE q \in DOMAIN t
    BY <2>2 DEF Proper
  <2> QED BY <2>1, <2>2
<1> HIDE DEF y
<1>3. DOMAIN t \cup new = DOMAIN t \cup {y}
  BY <1>1, <1>2
<1>4. u = [x \in DOMAIN t \cup new |-> IF x \in DOMAIN t THEN t[x] ELSE p.key]
  BY DEF AddPathToTree, y
<1> HIDE DEF new, u
<1>5. DOMAIN u = DOMAIN t \cup {y} /\ \A x \in DOMAIN t \cup {y} : u[x] = IF x \in DOMAIN t THEN t[x] ELSE p.key
  BY <1>3, <1>4
<1>6. Proper(u)
  <2> SUFFICES ASSUME NEW x \in DOMAIN t \cup {y}
               PROVE  u[x] = Last(x) /\ \A z \in Prefixes(x) : z = <<>> \/ z \in DOMAIN u
    BY <1>5 DEF Proper
  <2>1. CASE x \in DOMAIN t
    BY <1>5, <2>1 DEF Proper
  <2>2. CASE x \notin DOMAIN t
    <3>1. x = y
      BY <2>2
    <3>2. u[x] = Last(x)
      BY <1>1, <1>5, <2>2, <3>1
    <3> QED BY <1>1, <1>2, <1>5, <3>1, <3>2
  <2> QED BY <2>1, <2>2
<1> QED BY <1>5, <1>6 DEF u, y

(* The tree of paths that grow: each node has the id of its own folder.    *)
LEMMA TreeProper ==
  ASSUME NEW s \in Seq(FolderType), Grows(s)
  PROVE  Proper(TreeOf(s))
<1> DEFINE n == Len(s)
<1>1. n \in Nat /\ DOMAIN s = 1..n /\ \A k \in 1..n : s[k] \in FolderType
  BY LenProperties, ElementOfSeq
<1>2. PICK g : Builds(g, s) /\ TreeOf(s) = g[n]
  BY TreeSteps
<1>3. /\ g \in [0..n -> Trees] /\ g[0] = <<>>
      /\ \A k \in 1..n : g[k] = AddPathToTree(g[k - 1], s[k])
  BY <1>2 DEF Builds
<1> HIDE DEF n
<1> DEFINE Good(k) == DOMAIN g[k] = {s[j].path : j \in 1..k} /\ Proper(g[k])
           G == {k \in 0..n : Good(k)}
<1>4. 0 \in G
  <2>1. DOMAIN g[0] = {} /\ {s[j].path : j \in 1..0} = {}
    BY <1>3
  <2>2. Good(0)
    BY <2>1 DEF Proper
  <2> QED BY <1>1, <2>2
<1>5. ASSUME NEW k \in 1..n, k - 1 \in G PROVE k \in G
  <2> DEFINE t == g[k - 1]
             p == s[k]
  <2>1. k \in 0..n /\ k - 1 \in 0..n /\ k \in Nat
    BY <1>1
  <2>2. Good(k - 1)
    BY <1>5
  <2>3. t \in Trees /\ p \in FolderType /\ Proper(t) /\ DOMAIN t = {s[j].path : j \in 1..(k - 1)}
    BY <1>1, <1>3, <2>1, <2>2
  <2>4. g[k] = AddPathToTree(t, p)
    BY <1>3
  <2>5. PICK q \in Seq(Folders) : /\ p.path = Append(q, p.key)
                                  /\ q = <<>> \/ \E j \in 1..(k - 1) : s[j].path = q
    BY <1>1 DEF Grows
  <2> HIDE DEF t, p
  <2>6. q = <<>> \/ q \in DOMAIN t
    BY <2>3, <2>5
  <2>7. DOMAIN g[k] = DOMAIN t \cup {p.path} /\ Proper(g[k])
    BY <2>3, <2>4, <2>5, <2>6, AddProper
  <2>8. {s[j].path : j \in 1..k} = {s[j].path : j \in 1..(k - 1)} \cup {p.path}
    <3>1. \A j \in 1..k : j \in 1..(k - 1) \/ j = k
      BY <2>1
    <3>2. k \in 1..k /\ \A j \in 1..(k - 1) : j \in 1..k
      BY <2>1
    <3> QED BY <3>1, <3>2 DEF p
  <2>9. Good(k)
    BY <2>3, <2>7, <2>8
  <2> QED BY <2>1, <2>9
<1>6. \A k \in 0..n : k \in G
  <2> HIDE DEF G
  <2> QED BY <1>1, <1>4, <1>5, Induction
<1>7. n \in 0..n
  BY <1>1
<1>8. Good(n)
  BY <1>6, <1>7
<1> QED BY <1>2, <1>8

(* The paths that are known.                                               *)
PathsOf == {<<Root>>} \cup {x.path : x \in Range(folders)}

(* A call, and each of the sub-folders it has still to list, has a known   *)
(* path.                                                                   *)
CallPaths ==
    \A k \in DOMAIN calls :
        /\ calls[k].path \in PathsOf
        /\ \A e \in Range(calls[k].own) : Append(calls[k].path, e) \in PathsOf

(* A folder is listed behind its parent.                                   *)
ParentsFirst ==
    \A i \in DOMAIN folders : \E q \in Seq(Folders) :
        /\ folders[i].path = Append(q, folders[i].key)
        /\ q = <<Root>> \/ \E j \in 1..(i - 1) : folders[j].path = q

(* The tree is printed from such a list.                                   *)
TreeInv == CallPaths /\ ParentsFirst /\ \A q \in DOMAIN nodes : nodes[q] = Last(q)

(* The folders of a page that is read are behind those of their call.      *)
LEMMA PathsRead ==
  ASSUME TypeOK, calls # <<>>, CallPaths, ParentsFirst,
         NEW entries \in Seq(Paths \cup Folders), NEW last \in Nat, ReadPage(entries, last)
  PROVE  CallPaths' /\ ParentsFirst'
<1> DEFINE own == FoldersIn(entries)
           put == [i \in DOMAIN own |-> [path |-> Append(Top.path, own[i]), key |-> own[i]]]
           n == Len(folders)
<1>1. /\ DOMAIN calls' = DOMAIN calls
      /\ \A k \in DOMAIN calls : k # 1 => calls'[k] = calls[k]
      /\ calls'[1] = [folder |-> Top.folder, path |-> Top.path, page |-> Top.page + 1,
                      last |-> last, own |-> Top.own \o own]
      /\ own \in Seq(Folders)
  BY ReadFacts
<1>2. folders' = folders \o put
  BY DEF ReadPage
<1>3. /\ Top = calls[1] /\ 1 \in DOMAIN calls /\ Top.path \in Seq(Folders) /\ Top.own \in Seq(Folders)
  BY TopFacts DEF CallType
<1>4. calls'[1].path = Top.path /\ calls'[1].own = Top.own \o own
  <2> HIDE DEF own
  <2> QED BY <1>1
<1> HIDE DEF own
<1>5. Range(Top.own \o own) = Range(Top.own) \cup Range(own)
  <2> DEFINE s == Top.own
  <2>1. s \in Seq(Folders)
    BY <1>3
  <2> HIDE DEF s
  <2>2. Range(s \o own) = Range(s) \cup Range(own)
    BY <1>1, <2>1, ConcatFacts
  <2> QED BY <2>2 DEF s
<1>6. Len(own) \in Nat /\ DOMAIN own = 1..Len(own) /\ \A i \in 1..Len(own) : own[i] \in Folders
  BY <1>1, LenProperties, ElementOfSeq
<1>7. put \in Seq(FolderType) /\ Len(put) = Len(own)
      /\ \A i \in 1..Len(own) : put[i].path = Append(Top.path, own[i]) /\ put[i].key = own[i]
  <2>1. \A i \in 1..Len(own) : [path |-> Append(Top.path, own[i]), key |-> own[i]] \in FolderType
    <3> SUFFICES ASSUME NEW i \in 1..Len(own)
                 PROVE  [path |-> Append(Top.path, own[i]), key |-> own[i]] \in FolderType
      OBVIOUS
    <3>1. Append(Top.path, own[i]) \in Seq(Folders)
      BY <1>3, <1>6, AppendProperties
    <3> QED BY <1>6, <3>1 DEF FolderType
  <2>2. DOMAIN put = 1..Len(own) /\ put \in [1..Len(own) -> FolderType]
    BY <1>6, <2>1
  <2>3. put \in Seq(FolderType)
    BY <1>6, <2>2, IsASeq
  <2>4. Len(put) = Len(own)
    <3> HIDE DEF put
    <3>1. DOMAIN put = 1..Len(put) /\ Len(put) \in Nat
      BY <2>3, LenProperties
    <3> QED BY <1>6, <2>2, <3>1
  <2>5. \A i \in 1..Len(own) : put[i] = [path |-> Append(Top.path, own[i]), key |-> own[i]]
    BY <1>6
  <2> QED BY <2>3, <2>4, <2>5
<1> HIDE DEF put
<1>8. folders \in Seq(FolderType) /\ n \in Nat /\ DOMAIN folders = 1..n
  BY LenProperties DEF TypeOK, FolderType
<1> HIDE DEF n
<1>9. /\ DOMAIN folders' = 1..(n + Len(own))
      /\ \A i \in 1..n : folders'[i] = folders[i]
      /\ \A i \in 1..Len(own) : folders'[n + i] = put[i]
  <2>1. /\ folders' \in Seq(FolderType) /\ Len(folders') = n + Len(own)
        /\ \A i \in 1..(n + Len(own)) : folders'[i] = IF i <= n THEN folders[i] ELSE put[i - n]
    <3>1. Len(folders) = n
      BY DEF n
    <3>2. /\ folders \o put \in Seq(FolderType)
          /\ Len(folders \o put) = Len(folders) + Len(put)
          /\ \A i \in 1..(Len(folders) + Len(put)) :
                (folders \o put)[i] = IF i <= Len(folders) THEN folders[i] ELSE put[i - Len(folders)]
      <4> DEFINE T == FolderType
      <4>1. folders \in Seq(T) /\ put \in Seq(T)
        BY <1>7, <1>8
      <4> HIDE DEF T
      <4>2. \A u, v \in Seq(T) : /\ u \o v \in Seq(T)
                                /\ Len(u \o v) = Len(u) + Len(v)
                                /\ \A i \in 1..(Len(u) + Len(v)) :
                                      (u \o v)[i] = IF i <= Len(u) THEN u[i] ELSE v[i - Len(u)]
        BY ConcatProperties
      <4>3. /\ folders \o put \in Seq(T)
            /\ Len(folders \o put) = Len(folders) + Len(put)
            /\ \A i \in 1..(Len(folders) + Len(put)) :
                  (folders \o put)[i] = IF i <= Len(folders) THEN folders[i] ELSE put[i - Len(folders)]
        BY <4>1, <4>2
      <4> QED BY <4>3 DEF T
    <3> DEFINE t == folders \o put
    <3>3. t \in Seq(FolderType) /\ Len(t) = n + Len(own)
          /\ \A i \in 1..(n + Len(own)) : t[i] = IF i <= n THEN folders[i] ELSE put[i - n]
      BY <3>1, <3>2, <1>7
    <3>4. folders' = t
      BY <1>2
    <3> HIDE DEF t
    <3> QED BY <3>3, <3>4
  <2>2. DOMAIN folders' = 1..(n + Len(own))
    BY <2>1, LenProperties
  <2>3. \A i \in 1..n : i \in 1..(n + Len(own)) /\ i <= n
    BY <1>6, <1>8
  <2>4. \A i \in 1..Len(own) : n + i \in 1..(n + Len(own)) /\ ~(n + i <= n) /\ (n + i) - n = i
    BY <1>6, <1>8
  <2> QED BY <2>1, <2>2, <2>3, <2>4
<1>10. \A i \in 1..(n + Len(own)) : i \in 1..n \/ (i - n \in 1..Len(own) /\ n + (i - n) = i)
  BY <1>6, <1>8
<1>11. PathsOf \subseteq PathsOf'
  <2>1. ASSUME NEW x \in Range(folders) PROVE x \in Range(folders')
    <3>1. PICK i \in 1..n : x = folders[i]
      BY <1>8, <2>1 DEF Range
    <3>2. i \in DOMAIN folders' /\ folders'[i] = x
      BY <1>6, <1>8, <1>9, <3>1
    <3> QED BY <3>2 DEF Range
  <2> QED BY <2>1 DEF PathsOf
<1>12. ASSUME NEW e \in Range(own) PROVE Append(Top.path, e) \in PathsOf'
  <2>1. PICK i \in 1..Len(own) : e = own[i]
    BY <1>6, <1>12 DEF Range
  <2>2. n + i \in DOMAIN folders' /\ folders'[n + i].path = Append(Top.path, e)
    BY <1>6, <1>7, <1>8, <1>9, <2>1
  <2>3. folders'[n + i] \in Range(folders')
    BY <2>2 DEF Range
  <2> QED BY <2>2, <2>3 DEF PathsOf
<1>13. CallPaths'
  <2> SUFFICES ASSUME NEW k \in DOMAIN calls
               PROVE  /\ calls'[k].path \in PathsOf'
                      /\ \A e \in Range(calls'[k].own) : Append(calls'[k].path, e) \in PathsOf'
    BY <1>1 DEF CallPaths
  <2>1. CASE k = 1
    <3>1. calls'[k].path = Top.path /\ calls'[k].own = Top.own \o own
      BY <1>4, <2>1
    <3>2. Top.path \in PathsOf /\ \A e \in Range(Top.own) : Append(Top.path, e) \in PathsOf
      BY <1>3 DEF CallPaths
    <3> QED BY <1>5, <1>11, <1>12, <3>1, <3>2
  <2>2. CASE k # 1
    BY <1>1, <1>11, <2>2 DEF CallPaths
  <2> QED BY <2>1, <2>2
<1>14. ParentsFirst'
  <2> SUFFICES ASSUME NEW i \in 1..(n + Len(own))
               PROVE  \E q \in Seq(Folders) :
                         /\ folders'[i].path = Append(q, folders'[i].key)
                         /\ q = <<Root>> \/ \E j \in 1..(i - 1) : folders'[j].path = q
    BY <1>9 DEF ParentsFirst
  <2>1. CASE i \in 1..n
    <3>1. PICK q \in Seq(Folders) : /\ folders[i].path = Append(q, folders[i].key)
                                    /\ q = <<Root>> \/ \E j \in 1..(i - 1) : folders[j].path = q
      BY <1>8, <2>1 DEF ParentsFirst
    <3>2. \A j \in 1..(i - 1) : j \in 1..n
      BY <1>8, <2>1
    <3> QED BY <1>9, <2>1, <3>1, <3>2
  <2>2. CASE i - n \in 1..Len(own) /\ n + (i - n) = i
    <3>1. folders'[i].path = Append(Top.path, folders'[i].key)
      <4>1. folders'[n + (i - n)] = put[i - n]
        BY <1>9, <2>2
      <4>2. folders'[i] = put[i - n]
        BY <2>2, <4>1
      <4> QED BY <1>7, <2>2, <4>2
    <3>2. Top.path = <<Root>> \/ \E j \in 1..n : folders[j].path = Top.path
      BY <1>3, <1>8 DEF CallPaths, PathsOf, Range
    <3>3. \A j \in 1..n : j \in 1..(i - 1)
      BY <1>6, <1>8, <2>2
    <3> QED BY <1>3, <1>9, <3>1, <3>2, <3>3
  <2> QED BY <1>10, <2>1, <2>2
<1> QED BY <1>13, <1>14

(* The tree after every step.                                              *)
LEMMA TreeNext ==
  ASSUME TypeOK, TreeInv, ProgramStep \/ DiskChanges
  PROVE  TreeInv'
<1>1. CASE PageArrives \/ OtherBody \/ PageSkipped
  <2>1. calls # <<>> /\ nodes' = nodes
    BY <1>1 DEF PageArrives, OtherBody, PageSkipped, Listing
  <2>2. \E entries \in Seq(Paths \cup Folders), last \in Nat : ReadPage(entries, last)
    <3>1. Top.last \in Nat /\ 0 \in Nat /\ <<>> \in Seq(Paths \cup Folders)
      BY <2>1, TopFacts, NoEntries DEF CallType
    <3>2. CASE PageArrives
      <4> DEFINE e == Page(tree[Top.folder], Top.page, PageSize)
                 l == IF Top.page > 1 THEN Top.last ELSE Ceil(Len(tree[Top.folder]), LastPageSize)
      <4>1. e \in Seq(Paths \cup Folders) /\ l \in Nat
        BY <2>1, <3>1, ArrivingPage
      <4>2. ReadPage(e, l)
        BY <3>2 DEF PageArrives
      <4> HIDE DEF e, l
      <4> QED BY <4>1, <4>2
    <3>3. CASE OtherBody
      <4> DEFINE l == IF Top.page > 1 THEN Top.last ELSE 0
      <4>1. l \in Nat /\ ReadPage(<<>>, l)
        BY <3>1, <3>3 DEF OtherBody
      <4> HIDE DEF l
      <4> QED BY <3>1, <4>1
    <3>4. CASE PageSkipped
      BY <3>1, <3>4 DEF PageSkipped
    <3> QED BY <1>1, <3>2, <3>3, <3>4
  <2>3. CallPaths' /\ ParentsFirst'
    BY <2>1, <2>2, PathsRead DEF TreeInv
  <2> QED BY <2>1, <2>3 DEF TreeInv
<1>2. CASE Descend
  <2> DEFINE n == Len(calls)
             d == Head(Top.own)
  <2>1. UNCHANGED <<folders, nodes>>
    BY <1>2 DEF Descend
  <2>2. /\ calls # <<>> /\ Top.own # <<>> /\ d \in Folders
        /\ DOMAIN calls' = 1..(n + 1)
        /\ calls'[1] = Call(d, Append(Top.path, d))
        /\ calls'[2] = [folder |-> Top.folder, path |-> Top.path, page |-> Top.page,
                        last |-> Top.last, own |-> Tail(Top.own)]
        /\ \A k \in 2..n : calls'[k + 1] = calls[k]
    BY <1>2, DescendFacts
  <2>3. Top = calls[1] /\ DOMAIN calls = 1..n /\ n \in Nat \ {0} /\ Top.own \in Seq(Folders)
    BY <2>2, TopFacts DEF CallType
  <2>4. Range(Top.own) = {d} \cup Range(Tail(Top.own))
    BY <2>2, <2>3, HeadTailFacts
  <2> HIDE DEF n, d
  <2>5. /\ calls'[1].path = Append(Top.path, d) /\ calls'[1].own = <<>>
        /\ calls'[2].path = Top.path /\ calls'[2].own = Tail(Top.own)
    BY <2>2 DEF Call
  <2>6. /\ Top.path \in PathsOf /\ \A e \in Range(Top.own) : Append(Top.path, e) \in PathsOf
    <3>1. 1 \in DOMAIN calls
      BY <2>3
    <3>2. calls[1].path \in PathsOf /\ \A e \in Range(calls[1].own) : Append(calls[1].path, e) \in PathsOf
      BY <3>1 DEF TreeInv, CallPaths
    <3> QED BY <2>3, <3>2
  <2>7. PathsOf' = PathsOf
    BY <2>1 DEF PathsOf
  <2>8. CallPaths'
    <3> SUFFICES ASSUME NEW k \in 1..(n + 1)
                 PROVE  /\ calls'[k].path \in PathsOf
                        /\ \A e \in Range(calls'[k].own) : Append(calls'[k].path, e) \in PathsOf
      BY <2>2, <2>7 DEF CallPaths
    <3>1. CASE k = 1
      <4>1. Range(<<>>) = {}
        BY DEF Range
      <4> QED BY <2>4, <2>5, <2>6, <3>1, <4>1
    <3>2. CASE k = 2
      BY <2>4, <2>5, <2>6, <3>2
    <3>3. CASE k # 1 /\ k # 2
      <4>1. k - 1 \in 2..n /\ (k - 1) + 1 = k /\ k - 1 \in DOMAIN calls
        BY <2>3, <3>3
      <4>2. calls'[(k - 1) + 1] = calls[k - 1]
        BY <2>2, <4>1
      <4>3. calls'[k] = calls[k - 1]
        BY <4>1, <4>2
      <4> QED BY <4>1, <4>3 DEF TreeInv, CallPaths
    <3> QED BY <3>1, <3>2, <3>3
  <2>9. ParentsFirst'
    BY <2>1 DEF TreeInv, ParentsFirst
  <2> QED BY <2>1, <2>8, <2>9 DEF TreeInv
<1>3. CASE Ascend
  <2>1. UNCHANGED <<folders, nodes>>
    BY <1>3 DEF Ascend
  <2>2. /\ calls # <<>> /\ DOMAIN calls' = 1..(Len(calls) - 1)
        /\ \A k \in 1..(Len(calls) - 1) : calls'[k] = calls[k + 1]
    BY <1>3, AscendFacts
  <2>3. \A k \in 1..(Len(calls) - 1) : k + 1 \in DOMAIN calls
    BY <2>2, TopFacts
  <2>4. PathsOf' = PathsOf
    BY <2>1 DEF PathsOf
  <2>5. CallPaths'
    BY <2>2, <2>3, <2>4 DEF TreeInv, CallPaths
  <2>6. ParentsFirst'
    BY <2>1 DEF TreeInv, ParentsFirst
  <2> QED BY <2>1, <2>5, <2>6 DEF TreeInv
<1>4. CASE RegretNetDiskWithToken \/ FirstPageFails \/ LookUp \/ SendStep \/ DiskChanges
  <2>1. UNCHANGED <<calls, folders, nodes>>
    BY <1>4 DEF RegretNetDiskWithToken, FirstPageFails, LookUp, SendStep, DiskChanges, StartSending,
           SendFile, WorkerStores, WorkerDrops, WorkerPanics, Finish, listVars
  <2> QED BY <2>1 DEF TreeInv, CallPaths, ParentsFirst, PathsOf
<1>5. CASE PrintTree
  <2> DEFINE first == [path |-> <<Root>>, key |-> Root]
             s == <<first>> \o folders
             n == Len(folders)
  <2>1. UNCHANGED <<calls, folders>> /\ nodes' = TreeOf(s)
    BY <1>5 DEF PrintTree, listVars
  <2>2. folders \in Seq(FolderType) /\ n \in Nat /\ DOMAIN folders = 1..n
    BY LenProperties DEF TypeOK, FolderType
  <2>3. first \in FolderType /\ first.path = <<Root>> /\ first.key = Root
    BY ConstantTypes DEF FolderType
  <2>4. <<Root>> = Append(<<>>, Root) /\ <<>> \in Seq(Folders)
    OBVIOUS
  <2> HIDE DEF first
  <2>5. /\ s \in Seq(FolderType) /\ DOMAIN s = 1..(n + 1) /\ s[1] = first
        /\ \A i \in 1..n : s[i + 1] = folders[i]
    BY <2>2, <2>3, ConsFacts
  <2> HIDE DEF s, n
  <2>6. Grows(s)
    <3> SUFFICES ASSUME NEW i \in 1..(n + 1)
                 PROVE  \E q \in Seq(Folders) : /\ s[i].path = Append(q, s[i].key)
                                                /\ q = <<>> \/ \E j \in 1..(i - 1) : s[j].path = q
      BY <2>5 DEF Grows
    <3>1. CASE i = 1
      BY <2>3, <2>4, <2>5, <3>1
    <3>2. CASE i # 1
      <4>1. i - 1 \in 1..n /\ (i - 1) + 1 = i /\ 1 \in 1..(i - 1)
        BY <2>2, <3>2
      <4>2. s[(i - 1) + 1] = folders[i - 1]
        BY <2>5, <4>1
      <4>3. s[i] = folders[i - 1]
        BY <4>1, <4>2
      <4>4. PICK q \in Seq(Folders) : /\ folders[i - 1].path = Append(q, folders[i - 1].key)
                                      /\ q = <<Root>> \/ \E j \in 1..((i - 1) - 1) : folders[j].path = q
        BY <2>2, <4>1 DEF TreeInv, ParentsFirst
      <4>5. CASE q = <<Root>>
        BY <2>3, <2>5, <4>1, <4>3, <4>4, <4>5
      <4>6. CASE \E j \in 1..((i - 1) - 1) : folders[j].path = q
        <5>1. PICK j \in 1..((i - 1) - 1) : folders[j].path = q
          BY <4>6
        <5>2. j \in 1..n /\ j + 1 \in 1..(i - 1)
          BY <2>2, <4>1
        <5>3. s[j + 1].path = q
          BY <2>5, <5>1, <5>2
        <5> QED BY <4>3, <4>4, <5>2, <5>3
      <4> QED BY <4>4, <4>5, <4>6
    <3> QED BY <3>1, <3>2
  <2>7. Proper(TreeOf(s))
    BY <2>5, <2>6, TreeProper
  <2>8. \A q \in DOMAIN nodes' : nodes'[q] = Last(q)
    BY <2>1, <2>7 DEF Proper
  <2> QED BY <2>1, <2>8 DEF TreeInv, CallPaths, ParentsFirst, PathsOf
<1> QED BY <1>1, <1>2, <1>3, <1>4, <1>5 DEF ProgramStep, ListStep

(* At the start there is the call for the root, and no tree.               *)
LEMMA TreeInit == Init => TreeInv
<1> SUFFICES ASSUME Init PROVE TreeInv
  OBVIOUS
<1>1. calls = <<Call(Root, <<Root>>)>> /\ folders = <<>> /\ nodes = <<>>
  BY DEF Init
<1>2. DOMAIN calls = {1} /\ calls[1].path = <<Root>> /\ calls[1].own = <<>>
  BY <1>1 DEF Call
<1>3. Range(<<>>) = {}
  BY DEF Range
<1> QED BY <1>1, <1>2, <1>3 DEF TreeInv, CallPaths, ParentsFirst, PathsOf

(* Every step keeps what the tree of -structs rests on.                    *)
LEMMA StructsStep == IInv /\ StructsInv /\ TreeInv /\ [Next]_vars => StructsInv' /\ TreeInv'
<1> SUFFICES ASSUME IInv, StructsInv, TreeInv, [Next]_vars PROVE StructsInv' /\ TreeInv'
  OBVIOUS
<1>1. CASE NetDiskStep
  <2>1. ProgramStep \/ DiskChanges
    BY <1>1 DEF NetDiskStep
  <2> QED BY <2>1, StructsNext, TreeNext DEF IInv
<1>2. CASE UNCHANGED ndVars
  <2>1. UNCHANGED <<calls, folders, tree, program, faults, changes, main, token, nodes>>
    BY <1>2 DEF ndVars, startVars, diskVars, listVars
  <2>2. Seen' = Seen /\ Pending' = Pending
    BY <2>1 DEF Seen, KeysSeen, Pending
  <2>3. StructsInv'
    BY <2>1, <2>2 DEF StructsInv, StructsCore, StackReached, OnlyReached, AllRead, Reads, StructsReach
  <2>4. TreeInv'
    BY <2>1 DEF TreeInv, CallPaths, ParentsFirst, PathsOf
  <2> QED BY <2>3, <2>4
<1>3. NetDiskStep \/ UNCHANGED ndVars
  BY DEF Next, TakeEntry, SingleFileDownload, DownloadCheck, StreamArrives, StreamBreaks, AttemptReturns,
         Terminated, vars
<1> QED BY <1>1, <1>2, <1>3

(* What the invariants say of the tree when it has been printed.           *)
LEMMA InvTree == IInv /\ StructsInv /\ TreeInv => StructsTree
<1> SUFFICES ASSUME IInv, StructsInv, TreeInv, main = "returned", program = "structs"
             PROVE  /\ \A q \in DOMAIN nodes : nodes[q] = Last(q)
                    /\ faults = 0 /\ changes = 0 =>
                          \A d \in Folders : Listed(d) =>
                              \A i \in DOMAIN tree[d] :
                                  tree[d][i] \in Folders =>
                                      (Listed(tree[d][i]) <=> i <= StructsReach(d))
  BY DEF StructsTree
<1>1. \A q \in DOMAIN nodes : nodes[q] = Last(q)
  BY DEF TreeInv
<1>2. ASSUME faults = 0, changes = 0, NEW d \in Folders, Listed(d), NEW i \in DOMAIN tree[d],
             tree[d][i] \in Folders
      PROVE  Listed(tree[d][i]) <=> i <= StructsReach(d)
  <2>1. calls = <<>>
    BY DEF IInv, Phase
  <2>2. Pending = {} /\ DOMAIN calls = {}
    BY <2>1 DEF Pending
  <2>3. \A e \in Folders : Listed(e) <=> e \in Seen
    <3>1. Range(files) \subseteq Paths
      <4>1. files \in Seq(Paths)
        BY DEF IInv, TypeOK
      <4> QED BY <4>1, LenProperties, ElementOfSeq DEF Range
    <3> QED BY <3>1, ConstantTypes, ListedFacts
  <2>4. Reads(d, StructsReach(d)) /\ OnlyReached
    BY <1>2, <2>2, <2>3 DEF StructsInv, StructsCore, AllRead
  <2> QED BY <1>2, <2>3, <2>4 DEF Reads, OnlyReached
<1> QED BY <1>1, <1>2

(* netdisk -structs prints each folder on its path with its own id, and,   *)
(* when nothing fails, exactly the sub-folders up to StructsReach.         *)
THEOREM StructsPrinted == Spec => []StructsTree
<1>1. DownloadInit => StructsInv /\ TreeInv
  BY StructsInit, TreeInit DEF DownloadInit
<1> QED BY <1>1, InvTree, StructsStep, Invariance, PTL DEF Spec
=============================================================================
