---------------------------- MODULE ReportProofs ----------------------------
(***************************************************************************)
(* Proofs about frs -report, for every report, any number of goroutines,   *)
(* any capacity of the channel and any list of filters.                    *)
(*                                                                         *)
(* The state: the lines that were taken are the first ones of the report   *)
(* (Lines, Taken, QueueInv); no two lines of one heading name a file twice *)
(* (Apart); a counter holds the copies of the files of the lines taken     *)
(* (CounterInv, if no name starts with a line that is a number), and a     *)
(* list on which no two appends overlapped holds them too, except for what *)
(* the goroutines have in hand (ListInv, TableInv).                        *)
(*                                                                         *)
(* The lines: a filter matches what its wildcards stand for, unless it     *)
(* misreads the name (FilterMeaning), and a file with a plain name is on a *)
(* line that a counter is about exactly if it belongs to the counter       *)
(* (CountedMeans).                                                         *)
(***************************************************************************)
EXTENDS Report, FiniteSetTheorems, SequenceTheorems, WellFoundedInduction, TLAPS

(* A set of numbers up to n that is not empty has a least one.  (Initial   *)
(* segments are well-founded under strict inclusion, says the library.)    *)
LEMMA LeastMember ==
  ASSUME NEW n \in Nat, NEW B, B \subseteq 0..n, B # {}
  PROVE  \E k \in B : \A j \in B : k <= j
<1> DEFINE S == 0..n
           R == StrictSubsetOrdering(S)
           T == {0..k : k \in B}
<1>1. IsWellFoundedOn(R, FiniteSubsetsOf(S))
  BY FS_StrictSubsetOrderingWellFounded
<1>2. T \subseteq FiniteSubsetsOf(S) 
  <2> SUFFICES ASSUME NEW k \in B PROVE 0..k \in SUBSET S /\ IsFiniteSet(0..k)
    BY DEF FiniteSubsetsOf
  <2>1. k \in 0..n
    OBVIOUS
  <2> QED BY <2>1, FS_Interval
<1>3. T # {}
  OBVIOUS
<1> HIDE DEF R, T
<1>4. PICK x \in T : \A y \in T : ~(<<y, x>> \in R)
  BY <1>1, <1>2, <1>3, WFMin
<1>5. PICK k \in B : x = 0..k
  BY <1>4 DEF T
<1>6. ASSUME NEW j \in B, j < k PROVE FALSE
  <2> DEFINE p == <<0..j, 0..k>>
  <2>1. /\ 0..j \in T /\ 0..j \subseteq 0..k
        /\ k \notin 0..j /\ k \in 0..k
        /\ 0..j \in SUBSET S /\ 0..k \in SUBSET S
    BY <1>6 DEF T
  <2>2. 0..j # 0..k
    BY <2>1
  <2>3. p \in (SUBSET S) \X (SUBSET S) /\ p[1] \subseteq p[2] /\ p[1] # p[2]
    BY <2>1, <2>2
  <2> HIDE DEF p, S
  <2>4. p \in R
    BY <2>3 DEF R, StrictSubsetOrdering
  <2> QED BY <2>1, <2>4, <1>4, <1>5 DEF p
<1> QED BY <1>6

(* Induction up to n, over the set of the numbers for which a fact holds.  *)
LEMMA Induction ==
  ASSUME NEW n \in Nat, NEW G, 0 \in G,
         \A k \in 1..n : k - 1 \in G => k \in G
  PROVE  \A k \in 0..n : k \in G
<1> DEFINE B == {k \in 0..n : k \notin G}
<1> SUFFICES ASSUME B # {} PROVE FALSE
  OBVIOUS
<1>1. PICK k \in B : \A j \in B : k <= j
  <2>1. B \subseteq 0..n
    OBVIOUS
  <2> HIDE DEF B
  <2> QED BY <2>1, LeastMember
<1>2. k \in 1..n /\ k - 1 \in 0..n /\ k \notin G
  BY <1>1
<1>3. k - 1 \notin B
  BY <1>1, <1>2
<1> QED BY <1>2, <1>3

(* f is what the step function h makes of the value a, step by step up to  *)
(* n: the recursive functions of the library are of this form.               *)
Runs(f, n, T, a, h) ==
    /\ f \in [0..n -> T]
    /\ f[0] = a
    /\ \A k \in 1..n : f[k] = h[<<k, f[k - 1]>>]

(* There is such a function.                                               *)
LEMMA Recursion ==
  ASSUME NEW n \in Nat, NEW T, NEW a \in T, NEW h \in [(1..n) \X T -> T]
  PROVE  \E f : Runs(f, n, T, a, h)
<1> DEFINE G == {m \in 0..n : \E f : Runs(f, m, T, a, h)}
<1>1. 0 \in G
  <2>1. Runs([k \in 0..0 |-> a], 0, T, a, h)
    BY DEF Runs
  <2> QED BY <2>1
<1>2. ASSUME NEW m \in 1..n, m - 1 \in G PROVE m \in G
  <2>1. PICK f : Runs(f, m - 1, T, a, h)
    BY <1>2
  <2> DEFINE g == [k \in 0..m |-> IF k < m THEN f[k] ELSE h[<<m, f[m - 1]>>]]
  <2>2. f[m - 1] \in T /\ h[<<m, f[m - 1]>>] \in T
    BY <2>1 DEF Runs
  <2>3. g \in [0..m -> T] /\ g[0] = a
    BY <2>1, <2>2 DEF Runs
  <2>4. ASSUME NEW k \in 1..m PROVE g[k] = h[<<k, g[k - 1]>>]
    <3>1. g[k - 1] = f[k - 1]
      OBVIOUS
    <3>2. CASE k = m
      <4>1. g[m] = h[<<m, f[m - 1]>>] /\ g[m - 1] = f[m - 1]
        BY <3>1, <3>2
      <4> QED BY <3>2, <4>1
    <3>3. CASE k < m
      BY <2>1, <3>1, <3>3 DEF Runs
    <3> QED BY <3>2, <3>3
  <2>5. Runs(g, m, T, a, h)
    <3> HIDE DEF g
    <3> QED BY <2>3, <2>4 DEF Runs
  <2> QED BY <2>5
<1>3. n \in G
  <2> HIDE DEF G
  <2> QED BY <1>1, <1>2, Induction
<1> QED BY <1>3
-----------------------------------------------------------------------------
(* Any two elements of s are related by R, a set of pairs.                 *)
Pairwise(s, R) == \A i, j \in DOMAIN s : i # j => <<s[i], s[j]>> \in R

(* What the concatenation of two sequences holds.                          *)
LEMMA ConcatFacts ==
  ASSUME NEW T, NEW s \in Seq(T), NEW t \in Seq(T), NEW R
  PROVE  /\ s \o t \in Seq(T)
         /\ Range(s \o t) = Range(s) \cup Range(t)
         /\ /\ Pairwise(s, R) /\ Pairwise(t, R)
            /\ \A x \in Range(s), y \in Range(t) : <<x, y>> \in R /\ <<y, x>> \in R
            => Pairwise(s \o t, R)
<1>1. /\ s \o t \in Seq(T)
      /\ Len(s \o t) = Len(s) + Len(t)
      /\ \A i \in 1..(Len(s) + Len(t)) :
            (s \o t)[i] = IF i <= Len(s) THEN s[i] ELSE t[i - Len(s)]
  BY ConcatProperties
<1>2. /\ Len(s) \in Nat /\ DOMAIN s = 1..Len(s)
      /\ Len(t) \in Nat /\ DOMAIN t = 1..Len(t)
      /\ DOMAIN (s \o t) = 1..(Len(s) + Len(t))
  BY <1>1, LenProperties
<1> DEFINE c == s \o t
           m == Len(s)
           n == Len(t)
<1>3. /\ m \in Nat /\ n \in Nat /\ DOMAIN s = 1..m /\ DOMAIN t = 1..n /\ DOMAIN c = 1..(m + n)
      /\ \A i \in 1..(m + n) : c[i] = IF i <= m THEN s[i] ELSE t[i - m]
  BY <1>1, <1>2
<1> HIDE DEF c, m, n
<1>4. \A i \in 1..(m + n) : \/ i \in 1..m /\ c[i] = s[i] /\ c[i] \in Range(s)
                            \/ /\ i - m \in 1..n /\ c[i] = t[i - m] /\ c[i] \in Range(t)
                               /\ i = m + (i - m)
  <2> SUFFICES ASSUME NEW i \in 1..(m + n)
               PROVE  \/ i \in 1..m /\ c[i] = s[i] /\ c[i] \in Range(s)
                      \/ /\ i - m \in 1..n /\ c[i] = t[i - m] /\ c[i] \in Range(t)
                         /\ i = m + (i - m)
    OBVIOUS
  <2>1. CASE i <= m
    <3>1. i \in 1..m /\ c[i] = s[i]
      BY <1>3, <2>1
    <3>2. s[i] \in Range(s)
      BY <1>3, <3>1 DEF Range
    <3> QED BY <3>1, <3>2
  <2>2. CASE ~(i <= m)
    <3>1. i - m \in 1..n /\ c[i] = t[i - m] /\ i = m + (i - m)
      BY <1>3, <2>2
    <3>2. t[i - m] \in Range(t)
      BY <1>3, <3>1 DEF Range
    <3> QED BY <3>1, <3>2
  <2> QED BY <2>1, <2>2
<1>5. Range(c) = Range(s) \cup Range(t)
  <2>1. ASSUME NEW x \in Range(c) PROVE x \in Range(s) \cup Range(t)
    BY <1>3, <1>4 DEF Range
  <2>2. ASSUME NEW x \in Range(s) PROVE x \in Range(c)
    <3>1. PICK i \in 1..m : x = s[i]
      BY <1>3 DEF Range
    <3>2. i \in 1..(m + n) /\ c[i] = x
      BY <1>3, <3>1
    <3> QED BY <1>3, <3>2 DEF Range
  <2>3. ASSUME NEW x \in Range(t) PROVE x \in Range(c)
    <3>1. PICK i \in 1..n : x = t[i]
      BY <1>3 DEF Range
    <3>2. m + i \in 1..(m + n) /\ ~(m + i <= m) /\ (m + i) - m = i
      BY <1>3
    <3>3. c[m + i] = x
      BY <1>3, <3>1, <3>2
    <3> QED BY <1>3, <3>2, <3>3 DEF Range
  <2> QED BY <2>1, <2>2, <2>3
<1>6. ASSUME Pairwise(s, R), Pairwise(t, R),
             \A x \in Range(s), y \in Range(t) : <<x, y>> \in R /\ <<y, x>> \in R
      PROVE  Pairwise(c, R)
  <2> SUFFICES ASSUME NEW i \in 1..(m + n), NEW j \in 1..(m + n), i # j
               PROVE  <<c[i], c[j]>> \in R
    BY <1>3 DEF Pairwise
  <2>1. CASE i \in 1..m /\ j \in 1..m
    <3>1. c[i] = s[i] /\ c[j] = s[j]
      BY <1>3, <2>1
    <3> QED BY <1>3, <1>6, <2>1, <3>1 DEF Pairwise
  <2>2. CASE i \notin 1..m /\ j \notin 1..m
    <3>1. i - m \in 1..n /\ j - m \in 1..n /\ c[i] = t[i - m] /\ c[j] = t[j - m] /\ i - m # j - m
      BY <1>3, <2>2
    <3> QED BY <1>3, <1>6, <3>1 DEF Pairwise
  <2>3. CASE i \in 1..m /\ j \notin 1..m
    <3>1. c[i] \in Range(s) /\ c[j] \in Range(t)
      BY <1>3, <1>4, <2>3
    <3> QED BY <1>6, <3>1
  <2>4. CASE i \notin 1..m /\ j \in 1..m
    <3>1. c[j] \in Range(s) /\ c[i] \in Range(t)
      BY <1>3, <1>4, <2>4
    <3> QED BY <1>6, <3>1
  <2> QED BY <2>1, <2>2, <2>3, <2>4
<1> QED BY <1>1, <1>5, <1>6 DEF c

(* f[k] is the concatenation of the first k of the sequences ss.           *)
Flattens(f, T, ss) ==
    /\ f \in [0..Len(ss) -> Seq(T)]
    /\ f[0] = <<>>
    /\ \A k \in 1..Len(ss) : f[k] = f[k - 1] \o ss[k]

(* The steps of FlattenSeq.                                                *)
LEMMA FlattenSteps ==
  ASSUME NEW T, NEW ss \in Seq(Seq(T)), ss # <<>>
  PROVE  \E f : Flattens(f, T, ss) /\ FlattenSeq(ss) = f[Len(ss)]
<1> DEFINE n == Len(ss)
           U == Seq(T)
           a == <<>>
           h == [p \in (1..n) \X Seq(T) |-> p[2] \o ss[p[1]]]
           Is(f) == f = [k \in 1..n |-> IF k = 1 THEN ss[k] ELSE f[k - 1] \o ss[k]]
<1>1. n \in Nat /\ n # 0 /\ \A k \in 1..n : ss[k] \in Seq(T)
  <2>1. n \in Nat /\ DOMAIN ss = 1..n
    BY LenProperties
  <2>2. n # 0
    BY EmptySeq
  <2> QED BY <2>1, <2>2, ElementOfSeq
<1>2. h \in [(1..n) \X Seq(T) -> Seq(T)]
  <2>1. \A p \in (1..n) \X Seq(T) : p[2] \o ss[p[1]] \in Seq(T)
    <3> SUFFICES ASSUME NEW p \in (1..n) \X Seq(T) PROVE p[2] \o ss[p[1]] \in Seq(T)
      OBVIOUS
    <3>1. p[2] \in Seq(T) /\ ss[p[1]] \in Seq(T)
      BY <1>1
    <3> QED BY <3>1, ConcatProperties
  <2> QED BY <2>1
<1>3. \A k \in 1..n, q \in Seq(T) : h[<<k, q>>] = q \o ss[k]
  OBVIOUS
<1>4. FlattenSeq(ss) = (CHOOSE f : Is(f))[n]
  BY <1>1 DEF FlattenSeq
<1> HIDE DEF h, n
<1>5. \E f : Runs(f, n, U, a, h)
  <2>1. n \in Nat /\ h \in [(1..n) \X U -> U] /\ a \in U
    BY <1>1, <1>2, EmptySeq
  <2> HIDE DEF U, a
  <2> QED BY <2>1, Recursion
<1>6. PICK f : /\ f \in [0..n -> Seq(T)] /\ f[0] = <<>>
               /\ \A k \in 1..n : f[k] = h[<<k, f[k - 1]>>]
  BY <1>5 DEF Runs
<1>7. ASSUME NEW k \in 1..n PROVE f[k] = f[k - 1] \o ss[k]
  <2>1. k - 1 \in 0..n /\ f[k - 1] \in Seq(T)
    BY <1>1, <1>6
  <2>2. f[k] = h[<<k, f[k - 1]>>]
    BY <1>6
  <2> QED BY <1>3, <2>1, <2>2
<1>8. f[1] = ss[1]
  <2>1. 1 \in 1..n /\ ss[1] \in Seq(T) /\ 1 - 1 = 0
    BY <1>1
  <2>2. f[1] = <<>> \o ss[1]
    BY <1>6, <1>7, <2>1
  <2> QED BY <2>1, <2>2, ConcatEmptySeq
<1> DEFINE g == [k \in 1..n |-> f[k]]
<1>9. Is(g)
  <2>1. ASSUME NEW k \in 1..n
        PROVE  f[k] = IF k = 1 THEN ss[k] ELSE g[k - 1] \o ss[k]
    <3>1. CASE k = 1
      BY <1>8, <3>1
    <3>2. CASE k # 1
      <4>1. k - 1 \in 1..n
        BY <1>1, <3>2
      <4> QED BY <1>7, <3>2, <4>1
    <3> QED BY <3>1, <3>2
  <2>2. g = [k \in 1..n |-> IF k = 1 THEN ss[k] ELSE g[k - 1] \o ss[k]]
    BY <2>1
  <2> QED BY <2>2
<1> HIDE DEF g
<1> DEFINE c == CHOOSE x : Is(x)
<1>10. Is(c)
  BY <1>9
<1> HIDE DEF c
<1> DEFINE G == {k \in 0..n : k = 0 \/ c[k] = f[k]}
<1>11. \A k \in 0..n : k \in G
  <2>1. 0 \in G
    BY <1>1
  <2>2. ASSUME NEW k \in 1..n, k - 1 \in G PROVE k \in G
    <3>1. c[k] = IF k = 1 THEN ss[k] ELSE c[k - 1] \o ss[k]
      BY <1>10
    <3>2. CASE k = 1
      BY <1>1, <1>8, <3>1, <3>2
    <3>3. CASE k # 1
      <4>1. c[k - 1] = f[k - 1] /\ k \in 0..n
        BY <1>1, <2>2, <3>3
      <4> QED BY <1>7, <3>1, <3>3, <4>1
    <3> QED BY <3>2, <3>3
  <2> HIDE DEF G
  <2> QED BY <1>1, <2>1, <2>2, Induction
<1>12. c[n] = f[n]
  BY <1>1, <1>11
<1>13. Flattens(f, T, ss)
  BY <1>6, <1>7 DEF Flattens, n
<1> QED BY <1>4, <1>12, <1>13 DEF c, n

(* FlattenSeq holds what the sequences hold, and relates any two elements  *)
(* if each sequence does and any two of them do.                           *)
LEMMA FlattenFacts ==
  ASSUME NEW T, NEW ss \in Seq(Seq(T)), NEW R
  PROVE  /\ FlattenSeq(ss) \in Seq(T)
         /\ Range(FlattenSeq(ss)) = UNION {Range(ss[k]) : k \in DOMAIN ss}
         /\ /\ \A k \in DOMAIN ss : Pairwise(ss[k], R)
            /\ \A k, l \in DOMAIN ss : k # l => \A x \in Range(ss[k]), y \in Range(ss[l]) : <<x, y>> \in R
            => Pairwise(FlattenSeq(ss), R)
<1> DEFINE n == Len(ss)
<1>1. n \in Nat /\ DOMAIN ss = 1..n /\ \A k \in 1..n : ss[k] \in Seq(T)
  BY LenProperties, ElementOfSeq
<1>2. CASE ss = <<>>
  <2>1. FlattenSeq(ss) = <<>>
    BY <1>2, EmptySeq DEF FlattenSeq
  <2>2. DOMAIN <<>> = {} /\ <<>> \in Seq(T)
    BY EmptySeq
  <2>3. Range(<<>>) = {} /\ Pairwise(<<>>, R)
    BY <2>2 DEF Range, Pairwise
  <2> QED BY <1>2, <2>1, <2>2, <2>3
<1>3. CASE ss # <<>>
  <2>1. PICK f : Flattens(f, T, ss) /\ FlattenSeq(ss) = f[Len(ss)]
    BY <1>3, FlattenSteps
  <2>2. f \in [0..n -> Seq(T)] /\ f[0] = <<>> /\ (\A k \in 1..n : f[k] = f[k - 1] \o ss[k])
        /\ FlattenSeq(ss) = f[n]
    BY <2>1 DEF Flattens
  <2> HIDE DEF n
  <2> DEFINE Held(k) == UNION {Range(ss[i]) : i \in 1..k}
             Related == /\ \A k \in 1..n : Pairwise(ss[k], R)
                        /\ \A k, l \in 1..n : k # l =>
                              \A x \in Range(ss[k]), y \in Range(ss[l]) : <<x, y>> \in R
             G == {k \in 0..n : Range(f[k]) = Held(k) /\ (Related => Pairwise(f[k], R))}
  <2>3. 0 \in G
    <3>1. DOMAIN <<>> = {}
      OBVIOUS
    <3>2. Range(<<>>) = {} /\ Pairwise(<<>>, R)
      BY <3>1 DEF Range, Pairwise
    <3>3. Held(0) = {}
      OBVIOUS
    <3> QED BY <1>1, <2>2, <3>2, <3>3
  <2>4. ASSUME NEW k \in 1..n, k - 1 \in G PROVE k \in G
    <3>1. k \in 0..n /\ k - 1 \in 0..n /\ f[k - 1] \in Seq(T) /\ ss[k] \in Seq(T) /\ f[k] = f[k - 1] \o ss[k]
      <4>1. k \in 0..n /\ k - 1 \in 0..n
        BY <1>1
      <4>2. f[k - 1] \in Seq(T) /\ ss[k] \in Seq(T)
        BY <1>1, <2>2, <4>1
      <4>3. f[k] = f[k - 1] \o ss[k]
        BY <2>2
      <4> QED BY <4>1, <4>2, <4>3
    <3>2. Range(f[k - 1]) = Held(k - 1) /\ (Related => Pairwise(f[k - 1], R))
      BY <2>4
    <3>3. Held(k) = Held(k - 1) \cup Range(ss[k])
      <4>1. 1..k = (1..(k - 1)) \cup {k}
        BY <1>1
      <4> QED BY <4>1
    <3>4. ASSUME NEW x \in Held(k - 1), NEW y \in Range(ss[k]), Related
          PROVE  <<x, y>> \in R /\ <<y, x>> \in R
      <4>1. PICK i \in 1..(k - 1) : x \in Range(ss[i])
        OBVIOUS
      <4>2. i \in 1..n /\ i # k
        BY <1>1, <4>1
      <4> QED BY <3>4, <4>1, <4>2
    <3> HIDE DEF Held
    <3>5. Range(f[k]) = Held(k)
      <4>1. Range(f[k - 1] \o ss[k]) = Range(f[k - 1]) \cup Range(ss[k])
        <5>1. \A s, t \in Seq(T) : Range(s \o t) = Range(s) \cup Range(t)
          BY ConcatFacts
        <5> QED BY <3>1, <5>1
      <4> QED BY <3>1, <3>2, <3>3, <4>1
    <3>6. ASSUME Related PROVE Pairwise(f[k], R)
      <4>1. Pairwise(f[k - 1], R) /\ Pairwise(ss[k], R)
        BY <3>2, <3>6
      <4>2. \A x \in Range(f[k - 1]), y \in Range(ss[k]) : <<x, y>> \in R /\ <<y, x>> \in R
        BY <3>2, <3>4, <3>6
      <4> HIDE DEF Related
      <4> QED BY <3>1, <4>1, <4>2, ConcatFacts
    <3> HIDE DEF Related
    <3> QED BY <3>1, <3>5, <3>6
  <2>5. \A k \in 0..n : k \in G
    <3> HIDE DEF G
    <3> QED BY <1>1, <2>3, <2>4, Induction
  <2>6. n \in G
    <3> HIDE DEF G
    <3> QED BY <1>1, <2>5
  <2>7. f[n] \in Seq(T) /\ Range(f[n]) = Held(n) /\ (Related => Pairwise(f[n], R))
    BY <1>1, <2>2, <2>6
  <2> QED BY <1>1, <2>2, <2>7
<1> QED BY <1>2, <1>3

-----------------------------------------------------------------------------
(* A set of numbers up to n that is not empty has a Min and a Max.         *)
LEMMA MinMaxFacts ==
  ASSUME NEW n \in Nat, NEW B, B \subseteq 0..n, B # {}
  PROVE  /\ Min(B) \in B /\ \A x \in B : Min(B) <= x
         /\ Max(B) \in B /\ \A x \in B : x <= Max(B)
<1>1. \E k \in B : \A j \in B : k <= j
  BY LeastMember
<1>2. Min(B) \in B /\ \A x \in B : Min(B) <= x
  BY <1>1 DEF Min
<1> DEFINE C == {n - k : k \in B}
<1>3. C \subseteq 0..n /\ C # {}
  <2>1. \A k \in B : k \in 0..n /\ n - k \in 0..n
    OBVIOUS
  <2> QED BY <2>1
<1> HIDE DEF C
<1>4. PICK c \in C : \A j \in C : c <= j
  BY <1>3, LeastMember
<1>5. PICK k \in B : c = n - k
  BY <1>4 DEF C
<1>6. \A j \in B : j <= k
  <2> SUFFICES ASSUME NEW j \in B PROVE j <= k
    OBVIOUS
  <2>1. n - j \in C
    BY DEF C
  <2>2. n - k <= n - j
    BY <1>4, <1>5, <2>1
  <2>3. k \in 0..n /\ j \in 0..n
    OBVIOUS
  <2> QED BY <2>2, <2>3
<1>7. Max(B) \in B /\ \A y \in B : Max(B) >= y
  <2>1. \E x \in B : \A y \in B : x >= y
    <3>1. \A y \in B : k >= y
      <4>1. \A y \in B : y \in Int /\ k \in Int
        OBVIOUS
      <4> QED BY <1>6, <4>1
    <3> QED BY <3>1
  <2> QED BY <2>1 DEF Max
<1>8. \A y \in B : y <= Max(B)
  <2>1. \A y \in B : y \in Int
    OBVIOUS
  <2> QED BY <1>7, <2>1
<1> QED BY <1>2, <1>7, <1>8

(* SetToSeq holds each element of a finite set once.                       *)
LEMMA EnumFacts ==
  ASSUME NEW X, IsFiniteSet(X)
  PROVE  /\ SetToSeq(X) \in Seq(X) /\ Len(SetToSeq(X)) = Cardinality(X)
         /\ Range(SetToSeq(X)) = X /\ IsInjective(SetToSeq(X))
<1> DEFINE n == Cardinality(X)
           s == SetToSeq(X)
<1>1. n \in Nat /\ ExistsBijection(1..n, X)
  BY FS_CardinalityType
<1> HIDE DEF n
<1>2. \E f \in [1..n -> X] : IsInjective(f)
  <2>1. PICK f : f \in Bijection(1..n, X)
    BY <1>1 DEF ExistsBijection
  <2> QED BY <2>1 DEF Bijection, Injection, IsInjective
<1>3. s \in [1..n -> X] /\ IsInjective(s)
  BY <1>2 DEF SetToSeq, n
<1> HIDE DEF s
<1>4. s \in Seq(X) /\ Len(s) = n
  <2>1. s \in Seq(X)
    BY <1>1, <1>3
  <2>2. DOMAIN s = 1..Len(s) /\ Len(s) \in Nat /\ DOMAIN s = 1..n
    BY <1>3, <2>1, LenProperties
  <2> DEFINE m == Len(s)
  <2>3. 1..m = 1..n /\ m \in Nat
    BY <2>2
  <2> HIDE DEF m
  <2>4. m = n
    BY <1>1, <2>3
  <2> QED BY <2>1, <2>4 DEF m
<1>5. s \in Injection(1..n, X)
  BY <1>3 DEF Injection, IsInjective
<1>6. Cardinality(1..n) = n
  BY <1>1, FS_Interval
<1>7. s \in Surjection(1..n, X)
  BY <1>5, <1>6, FS_Injection DEF n
<1>8. Range(s) = X
  BY <1>3, <1>7 DEF Surjection, Range
<1> QED BY <1>3, <1>4, <1>8 DEF s, n

(* The copies of the files of S: Copies(S) is their number.                *)
AllCopies(S) == UNION {CopiesOf(f) : f \in S}

(* A finite set of files has finitely many copies.                         *)
LEMMA CopiesFinite ==
  ASSUME NEW S, S \subseteq Files, IsFiniteSet(S)
  PROVE  IsFiniteSet(AllCopies(S)) /\ Copies(S) = Cardinality(AllCopies(S)) /\ Copies(S) \in Nat
<1>1. ASSUME NEW f \in S PROVE IsFiniteSet(CopiesOf(f))
  <2>1. File[f].copies \in Nat
    BY ReportAssumption
  <2>2. IsFiniteSet({f}) /\ IsFiniteSet(1..File[f].copies)
    <3>1. 1 \in Int /\ File[f].copies \in Int
      BY <2>1
    <3> DEFINE m == File[f].copies
    <3> HIDE DEF m
    <3>2. IsFiniteSet(1..m)
      BY <3>1, FS_Interval DEF m
    <3> QED BY <3>2, FS_Singleton DEF m
  <2> QED BY <2>2, FS_Product DEF CopiesOf
<1> DEFINE I == {CopiesOf(f) : f \in S}
           h == [f \in S |-> CopiesOf(f)]
<1>2. h \in Surjection(S, I)
  BY DEF Surjection
<1> HIDE DEF h
<1>3. IsFiniteSet(I)
  BY <1>2, FS_Surjection
<1>4. \A c \in I : IsFiniteSet(c)
  BY <1>1
<1> HIDE DEF I
<1>5. IsFiniteSet(UNION I)
  BY <1>3, <1>4, FS_UNION
<1>6. IsFiniteSet(AllCopies(S))
  BY <1>5 DEF AllCopies, I
<1>7. Copies(S) = Cardinality(AllCopies(S))
  BY DEF Copies, AllCopies
<1> QED BY <1>6, <1>7, FS_CardinalityType

(* Copies of files that are in one of two sets; every file has one.        *)
LEMMA CopiesFacts ==
  ASSUME NEW S, S \subseteq Files, IsFiniteSet(S), NEW A, A \subseteq S, NEW B, B \subseteq S
  PROVE  /\ Copies({}) = 0 /\ Copies(A) \in Nat /\ Copies(B) \in Nat
         /\ A \cap B = {} => Copies(A \cup B) = Copies(A) + Copies(B)
         /\ A \subseteq B => Copies(A) <= Copies(B)
         /\ A # {} => Copies(A) > 0
<1>1. IsFiniteSet(A) /\ IsFiniteSet(B) /\ IsFiniteSet(A \cup B) /\ A \subseteq Files /\ B \subseteq Files
  <2>1. A \in SUBSET S /\ B \in SUBSET S /\ (A \cup B) \in SUBSET S
    OBVIOUS
  <2> QED BY <2>1, FS_Subset
<1> DEFINE a == AllCopies(A)
           b == AllCopies(B)
           c == AllCopies(A \cup B)
<1>2. /\ IsFiniteSet(a) /\ Copies(A) = Cardinality(a) /\ Copies(A) \in Nat
      /\ IsFiniteSet(b) /\ Copies(B) = Cardinality(b) /\ Copies(B) \in Nat
      /\ Copies(A \cup B) = Cardinality(c)
  <2>1. (A \cup B) \subseteq Files
    BY <1>1
  <2> QED BY <1>1, <2>1, CopiesFinite
<1>3. c = a \cup b
  BY DEF AllCopies
<1>4. Copies({}) = 0
  <2>1. UNION {CopiesOf(f) : f \in {}} = {}
    OBVIOUS
  <2> QED BY <2>1, FS_EmptySet DEF Copies
<1>5. ASSUME A \cap B = {} PROVE Copies(A \cup B) = Copies(A) + Copies(B)
  <2>1. \A f, g, x : x \in CopiesOf(f) /\ x \in CopiesOf(g) => f = g
    BY DEF CopiesOf
  <2>2. a \cap b = {}
    <3> SUFFICES ASSUME NEW x, x \in a, x \in b PROVE FALSE
      OBVIOUS
    <3>1. PICK f \in A : x \in CopiesOf(f)
      BY DEF AllCopies
    <3>2. PICK g \in B : x \in CopiesOf(g)
      BY DEF AllCopies
    <3>3. f = g
      BY <2>1, <3>1, <3>2
    <3> QED BY <1>5, <3>3
  <2> HIDE DEF a, b, c
  <2>3. Cardinality(a \cap b) = 0
    BY <2>2, FS_EmptySet
  <2>4. Cardinality(a \cup b) = Cardinality(a) + Cardinality(b) - Cardinality(a \cap b)
    BY <1>2, FS_Union
  <2>5. Cardinality(a) \in Nat /\ Cardinality(b) \in Nat
    BY <1>2
  <2>6. Cardinality(a \cup b) = Cardinality(a) + Cardinality(b)
    BY <2>3, <2>4, <2>5
  <2> QED BY <1>2, <1>3, <2>6
<1>6. ASSUME A \subseteq B PROVE Copies(A) <= Copies(B)
  <2>1. a \in SUBSET b
    BY <1>6 DEF AllCopies
  <2> HIDE DEF a, b
  <2> QED BY <1>2, <2>1, FS_Subset
<1>7. ASSUME A # {} PROVE Copies(A) > 0
  <2>1. PICK f \in A : TRUE
    BY <1>7
  <2>2. File[f].copies \in Nat \ {0}
    BY <1>1, ReportAssumption
  <2>3. 1 \in 1..File[f].copies
    BY <2>2
  <2>4. <<f, 1>> \in CopiesOf(f)
    BY <2>3 DEF CopiesOf
  <2>5. a # {}
    BY <2>4 DEF AllCopies
  <2> HIDE DEF a
  <2>6. Cardinality(a) # 0
    BY <1>2, <2>5, FS_EmptySet
  <2> QED BY <1>2, <2>6
<1> QED BY <1>2, <1>4, <1>5, <1>6, <1>7

-----------------------------------------------------------------------------
(* The phases that write sections, and the lines of a report.              *)
Aliases == {"DUPLICATED", "PERMISSION", "SUFFIX", "CONTENT"}
NameTokens == UNION {Range(File[f].name) : f \in Files}
FilterTokens == UNION {Range(t) : t \in Range(filters)}
Sums == {File[f].md5 : f \in Files}
Tags == {"777=true", "777=false", "suid=true", "suid=false", "sgid=true", "sgid=false",
         "true", "false", "matched-suffix-", "unmatched-suffix", "unmatched-suffix-"}
Kinds == {"docx", "xlsx", "pptx", "pdf", "zip", "gzip", "xml"}
Token == NameTokens \cup FilterTokens \cup Sums \cup Tags \cup Kinds
LineType == [alias : Aliases \cup {"", "FileCount"}, text : Seq(Token), files : SUBSET Files, count : Int,
             splits : BOOLEAN, long : BOOLEAN]

(* Two lines of one section have no file in common.                        *)
Apart == {p \in LineType \X LineType :
             p[1].alias = p[2].alias /\ p[1].alias \in Aliases => p[1].files \cap p[2].files = {}}

(* The tokens of lines.                                                    *)
LEMMA SomeTokens ==
  /\ NameTokens \subseteq Token /\ FilterTokens \subseteq Token /\ Sums \subseteq Token
  /\ Tags \subseteq Token /\ Kinds \subseteq Token
  /\ {"777=true", "777=false", "suid=true", "suid=false", "sgid=true", "sgid=false"} \subseteq Token
  /\ {"true", "false", "matched-suffix-", "unmatched-suffix", "unmatched-suffix-"} \subseteq Token
<1>1. /\ NameTokens \subseteq Token /\ FilterTokens \subseteq Token /\ Sums \subseteq Token
      /\ Tags \subseteq Token /\ Kinds \subseteq Token
  BY DEF Token
<1>2. {"777=true", "777=false", "suid=true", "suid=false", "sgid=true", "sgid=false"} \subseteq Tags
  BY DEF Tags
<1>3. {"true", "false", "matched-suffix-", "unmatched-suffix", "unmatched-suffix-"} \subseteq Tags
  BY DEF Tags
<1> QED BY <1>1, <1>2, <1>3

(* A part of a sequence.                                                   *)
LEMMA PartOfSeq ==
  ASSUME NEW U, NEW s \in Seq(U), NEW a \in Nat \ {0}, NEW b \in Nat, b <= Len(s)
  PROVE  SubSeq(s, a, b) \in Seq(U)
<1>1. \A i \in a..b : s[i] \in U
  <2> SUFFICES ASSUME NEW i \in a..b PROVE s[i] \in U
    OBVIOUS
  <2>1. i \in 1..Len(s)
    BY LenProperties
  <2> QED BY <2>1, ElementOfSeq
<1> QED BY <1>1, SubSeqProperties

(* Names are printed as text, whole if there is no ":" in them.            *)
LEMMA ValueType ==
  ASSUME NEW name \in Seq(Token)
  PROVE  /\ Value(name) \in Seq(Token)
         /\ (\A i \in DOMAIN name : name[i] # ":") => Value(name) = name
<1> DEFINE C == {i \in DOMAIN name : name[i] = ":"}
<1>1. Len(name) \in Nat /\ DOMAIN name = 1..Len(name)
  BY LenProperties
<1>2. CASE C = {}
  <2>1. Value(name) = name
    BY <1>2 DEF Value
  <2> QED BY <2>1
<1>3. CASE C # {}
  <2>1. C \subseteq 0..Len(name)
    BY <1>1
  <2>2. Min(C) \in C
    <3> HIDE DEF C
    <3> QED BY <1>1, <1>3, <2>1, MinMaxFacts
  <2>3. Min(C) - 1 \in Nat /\ Min(C) - 1 <= Len(name)
    BY <1>1, <2>2
  <2>4. Value(name) = SubSeq(name, 1, Min(C) - 1)
    BY <1>3 DEF Value
  <2> DEFINE b == Min(C) - 1
  <2>5. b \in Nat /\ b <= Len(name)
    BY <2>3
  <2> HIDE DEF b
  <2>6. SubSeq(name, 1, b) \in Seq(Token)
    BY <2>5, PartOfSeq
  <2>7. Value(name) \in Seq(Token)
    BY <2>4, <2>6 DEF b
  <2> QED BY <1>3, <2>7
<1> QED BY <1>2, <1>3

(* The filter that matches first.                                          *)
LEMMA FirstFilter ==
  ASSUME NEW H, H \subseteq DOMAIN filters, H # {}
  PROVE  Min(H) \in H /\ filters[Min(H)] \in Seq(Token)
<1>1. filters \in Seq(Range(filters)) /\ \A t \in Range(filters) : t \in Seq(Range(t))
  BY ReportAssumption
<1>2. Len(filters) \in Nat /\ DOMAIN filters = 1..Len(filters)
  BY <1>1, LenProperties
<1>3. H \subseteq 0..Len(filters)
  BY <1>2
<1>4. Min(H) \in H
  BY <1>2, <1>3, MinMaxFacts
<1>5. filters[Min(H)] \in Range(filters)
  BY <1>4 DEF Range
<1> DEFINE t == filters[Min(H)]
<1>6. Range(t) \subseteq Token
  <2>1. t \in Range(filters)
    BY <1>5
  <2> HIDE DEF t
  <2>2. \A x \in Range(t) : x \in FilterTokens
    BY <2>1 DEF FilterTokens
  <2> QED BY <2>2, SomeTokens
<1> HIDE DEF t
<1>7. t \in Seq(Range(t))
  BY <1>1, <1>5 DEF t
<1>8. t \in Seq(Token)
  BY <1>6, <1>7
<1> QED BY <1>4, <1>8 DEF t

(* A name is text.                                                         *)
LEMMA NameType == ASSUME NEW f \in Files PROVE File[f].name \in Seq(Token)
<1>1. File[f].name \in Seq(Range(File[f].name))
  BY ReportAssumption
<1>2. Range(File[f].name) \subseteq Token
  BY SomeTokens DEF NameTokens
<1> QED BY <1>1, <1>2

(* The kind of a file, if it has one, is one of the seven.                 *)
LEMMA KindFacts ==
  ASSUME NEW f, check(f).kind # {}
  PROVE  Min(check(f).kind) \in 1..7 /\ Formats[Min(check(f).kind)] \in Kinds
<1> DEFINE K == check(f).kind
           name == File[f].name
           A == {i \in DOMAIN Extensions : name # <<>> /\ Last(name) = Extensions[i]}
           F == {i \in DOMAIN Formats : Detect(File[f].format, i).is}
<1>1. K = IF F # {} THEN {Min(F)} ELSE A
  BY DEF check
<1>2. DOMAIN Formats = 1..7 /\ DOMAIN Extensions = 1..7 /\ \A i \in 1..7 : Formats[i] \in Kinds
  BY DEF Formats, Extensions, Kinds
<1>3. F \subseteq 0..7 /\ F \subseteq 1..7 /\ A \subseteq 1..7
  BY <1>2
<1> HIDE DEF F, A
<1>4. F # {} => Min(F) \in F
  BY <1>3, MinMaxFacts
<1>5. K \subseteq 1..7 /\ K \subseteq 0..7
  <2>1. CASE F # {}
    <3>1. K = {Min(F)} /\ Min(F) \in 1..7 /\ Min(F) \in 0..7
      BY <1>1, <1>3, <1>4, <2>1
    <3> HIDE DEF K
    <3> QED BY <3>1
  <2>2. CASE F = {}
    <3>1. K = A
      BY <1>1, <2>2
    <3>2. A \subseteq 0..7
      BY <1>3
    <3> HIDE DEF K
    <3> QED BY <1>3, <3>1, <3>2
  <2> QED BY <2>1, <2>2
<1>6. Min(K) \in K
  <2>1. K # {}
    OBVIOUS
  <2> HIDE DEF K
  <2> QED BY <1>5, <2>1, MinMaxFacts
<1> HIDE DEF K
<1>7. Min(K) \in 1..7
  BY <1>5, <1>6
<1> QED BY <1>2, <1>7 DEF K

(* Tags are text.                                                          *)
LEMMA TagType ==
  ASSUME NEW alias \in Aliases, NEW f \in Files
  PROVE  Verdict(alias, f).tag \in Seq(Token)
<1>1. CASE alias = "DUPLICATED"
  <2>1. Verdict(alias, f) = [hit |-> ~File[f].big, tag |-> <<File[f].md5>>]
    BY <1>1 DEF Verdict, Duplicated
  <2>2. File[f].md5 \in Token
    BY SomeTokens DEF Sums
  <2> QED BY <2>1, <2>2
<1>2. CASE alias = "PERMISSION"
  <2>1. Verdict(alias, f) = Permissions(f)
    BY <1>2 DEF Verdict
  <2> DEFINE a == IF File[f].all777 THEN "777=true" ELSE "777=false"
             b == IF File[f].suid THEN "suid=true" ELSE "suid=false"
             c == IF File[f].sgid THEN "sgid=true" ELSE "sgid=false"
  <2>2. a \in Token /\ b \in Token /\ c \in Token
    BY SomeTokens
  <2>3. Verdict(alias, f).tag = <<a, b, c>>
    BY <2>1 DEF Permissions
  <2> HIDE DEF a, b, c
  <2> QED BY <2>2, <2>3
<1>3. CASE alias = "SUFFIX"
  <2> DEFINE H == {i \in DOMAIN filters : matchSuffix(File[f].name, filters[i])}
  <2>1. Verdict(alias, f) = IF H = {} THEN [hit |-> FALSE, tag |-> <<>>]
                                      ELSE [hit |-> TRUE, tag |-> filters[Min(H)]]
    BY <1>3 DEF Verdict, Suffix
  <2>2. H \subseteq DOMAIN filters
    OBVIOUS
  <2> HIDE DEF H
  <2>3. H # {} => filters[Min(H)] \in Seq(Token)
    BY <2>2, FirstFilter
  <2>4. CASE H = {}
    <3>1. Verdict(alias, f).tag = <<>>
      BY <2>1, <2>4
    <3> QED BY <3>1
  <2>5. CASE H # {}
    <3>1. Verdict(alias, f).tag = filters[Min(H)]
      BY <2>1, <2>5
    <3> QED BY <2>3, <2>5, <3>1
  <2> QED BY <2>4, <2>5
<1>4. CASE alias = "CONTENT"
  <2> DEFINE c == check(f)
  <2>1. Verdict(alias, f) = [hit |-> c.encrypted \/ ~c.matched,
             tag |-> <<IF c.encrypted THEN "true" ELSE "false",
                       IF c.matched THEN "matched-suffix-"
                       ELSE IF c.kind = {} THEN "unmatched-suffix" ELSE "unmatched-suffix-">>
                     \o IF c.kind = {} THEN <<>> ELSE <<Formats[Min(c.kind)]>>]
    BY <1>4 DEF Verdict, Content
  <2> DEFINE a == IF c.encrypted THEN "true" ELSE "false"
             b == IF c.matched THEN "matched-suffix-"
                  ELSE IF c.kind = {} THEN "unmatched-suffix" ELSE "unmatched-suffix-"
             k == IF c.kind = {} THEN <<>> ELSE <<Formats[Min(c.kind)]>>
  <2>2. a \in Token /\ b \in Token
    BY SomeTokens
  <2>3. Verdict(alias, f).tag = <<a, b>> \o k
    BY <2>1
  <2>4. k \in Seq(Token)
    <3>1. CASE c.kind = {}
      BY <3>1
    <3>2. CASE c.kind # {}
      <4>1. Formats[Min(c.kind)] \in Kinds
        BY <3>2, KindFacts
      <4>2. Formats[Min(c.kind)] \in Token
        BY <4>1, SomeTokens
      <4> DEFINE x == Formats[Min(c.kind)]
      <4> HIDE DEF x
      <4>3. <<x>> \in Seq(Token)
        BY <4>2 DEF x
      <4> QED BY <3>2, <4>3 DEF x
    <3> QED BY <3>1, <3>2
  <2> HIDE DEF a, b, k
  <2>5. <<a, b>> \in Seq(Token)
    BY <2>2
  <2> QED BY <2>3, <2>4, <2>5, ConcatProperties
<1> QED BY <1>1, <1>2, <1>3, <1>4 DEF Aliases

(* A line that does not split.                                             *)
LEMMA UnsplitFacts ==
  ASSUME NEW x \in LineType, NEW b \in BOOLEAN
  PROVE  LET y == [x EXCEPT !.splits = b]
         IN  /\ y \in LineType
             /\ y.alias = x.alias /\ y.text = x.text /\ y.files = x.files /\ y.count = x.count
  BY DEF LineType

(* No file has no copy.                                                    *)
LEMMA NoCopies == Copies({}) = 0
  BY CopiesFacts, FS_EmptySet

(* A line without files is apart from every line.                          *)
LEMMA EmptyApart ==
  ASSUME NEW x \in LineType, NEW y \in LineType, x.files = {} \/ y.files = {}
  PROVE  <<x, y>> \in Apart
  BY DEF Apart

(* A sequence of one line.                                                 *)
LEMMA OneLine ==
  ASSUME NEW T, NEW x \in T, NEW R
  PROVE  <<x>> \in Seq(T) /\ Range(<<x>>) = {x} /\ Pairwise(<<x>>, R)
<1> DEFINE s == <<x>>
<1>1. s \in Seq(T) /\ DOMAIN s = {1} /\ s[1] = x
  OBVIOUS
<1> HIDE DEF s
<1>2. Range(s) = {x} /\ Pairwise(s, R)
  BY <1>1 DEF Range, Pairwise
<1> QED BY <1>1, <1>2 DEF s

(* No name of the files begins with a line that is a number.               *)
NumberFree(S) ==
    \A f \in S : LET text == Value(File[f].name)
                 IN  Breaks(text) = {} \/ Number(FirstLine(text)) = 0

(* What is read as a number is one.                                        *)
LEMMA NumberType == \A text : Number(text) \in Int
<1> SUFFICES ASSUME NEW text PROVE Number(text) \in Int
  OBVIOUS
<1> DEFINE open == {i \in DOMAIN text : text[i] = "("}
           digits == IF open = {} THEN text ELSE SubSeq(text, 1, Min(open) - 1)
           d == Last(digits)
<1>1. \/ Number(text) = 0
      \/ d \in DOMAIN Numeral /\ Number(text) = Numeral[d]
  BY DEF Number
<1>2. Range(Numeral) \subseteq Int
  BY ReportAssumption
<1> HIDE DEF d
<1>3. d \in DOMAIN Numeral => Numeral[d] \in Int
  BY <1>2 DEF Range
<1> QED BY <1>1, <1>3

(* The pieces of a text with line breaks.                                  *)
LEMMA BreakFacts ==
  ASSUME NEW text \in Seq(Token)
  PROVE  LET N == Breaks(text)
             rest == SubSeq(text, Max({0} \cup N) + 1, Len(text))
         IN  /\ Cardinality(N) \in Nat /\ (Cardinality(N) = 0 <=> N = {})
             /\ N # {} => FirstLine(text) \in Seq(Token)
             /\ rest \in Seq(Token) /\ (N = {} => rest = text)
<1> DEFINE N == Breaks(text)
           m == Len(text)
           lastBreak == Max({0} \cup N)
           rest == SubSeq(text, lastBreak + 1, Len(text))
<1>1. m \in Nat /\ N \subseteq 1..m
  <2>1. Len(text) \in Nat /\ DOMAIN text = 1..Len(text)
    BY LenProperties
  <2> QED BY <2>1 DEF Breaks
<1> HIDE DEF N
<1>2. Cardinality(N) \in Nat /\ (Cardinality(N) = 0 <=> N = {})
  <2>1. m \in Nat /\ N \in SUBSET (1..m)
    BY <1>1
  <2> HIDE DEF m
  <2>2. IsFiniteSet(1..m)
    BY <2>1, FS_Interval
  <2>3. IsFiniteSet(N)
    BY <2>1, <2>2, FS_Subset
  <2> QED BY <2>3, FS_CardinalityType, FS_EmptySet
<1>3. ASSUME N # {} PROVE FirstLine(text) \in Seq(Token)
  <2>1. N \subseteq 0..m
    BY <1>1
  <2>2. Min(N) \in N
    <3> HIDE DEF m
    <3> QED BY <1>1, <1>3, <2>1, MinMaxFacts
  <2> DEFINE b == Min(N) - 1
  <2>3. b \in Nat /\ b <= Len(text)
    <3> DEFINE k == Min(N)
    <3>1. k \in 1..m
      BY <1>1, <2>2
    <3> HIDE DEF k, m
    <3>2. k - 1 \in Nat /\ k - 1 <= m
      BY <1>1, <3>1
    <3> QED BY <3>2 DEF k, m
  <2>4. FirstLine(text) = SubSeq(text, 1, b)
    BY DEF FirstLine, N
  <2> HIDE DEF b
  <2>5. SubSeq(text, 1, b) \in Seq(Token)
    BY <2>3, PartOfSeq
  <2> QED BY <2>4, <2>5
<1>4. lastBreak \in 0..m /\ (N = {} => lastBreak = 0)
  <2> DEFINE B == {0} \cup N
  <2>1. m \in Nat /\ B \subseteq 0..m /\ B # {}
    BY <1>1
  <2>2. N = {} => B = {0}
    OBVIOUS
  <2> HIDE DEF B, m
  <2>3. Max(B) \in B
    BY <2>1, MinMaxFacts
  <2> QED BY <2>1, <2>2, <2>3 DEF B
<1> HIDE DEF lastBreak
<1>5. rest \in Seq(Token) /\ (N = {} => rest = text)
  <2>1. CASE lastBreak + 1 \in Nat \ {0} /\ Len(text) \in Nat /\ Len(text) <= Len(text)
    <3>1. rest \in Seq(Token)
      BY <2>1, PartOfSeq
    <3>2. N = {} => rest = SubSeq(text, 1, Len(text))
      BY <1>4
    <3>3. SubSeq(text, 1, Len(text)) = text
      BY SubSeqFull
    <3> QED BY <3>1, <3>2, <3>3
  <2> QED BY <1>1, <1>4, <2>1
<1> HIDE DEF rest
<1> QED BY <1>2, <1>3, <1>5 DEF N, rest, lastBreak

(* What a line is made of.                                                 *)
IsLine(x, a, text, files, n) ==
    x \in LineType /\ x.alias = a /\ x.text = text /\ x.files = files /\ x.count = n

(* Line makes it.                                                          *)
LEMMA LineFacts ==
  ASSUME NEW a \in Aliases \cup {"", "FileCount"}, NEW text \in Seq(Token),
         NEW files \in SUBSET Files, NEW n \in Int
  PROVE  IsLine(Line(a, text, files, n), a, text, files, n)
  BY DEF Line, LineType, IsLine

(* The lines of a group: only the last has its files, with their copies.   *)
LEMMA GroupFacts ==
  ASSUME NEW alias \in Aliases, NEW g, g \subseteq Files, g # {}, IsFiniteSet(g)
  PROVE  LET s == GroupLines(alias, g)
             f == CHOOSE x \in g : TRUE
             text == Value(File[f].name)
         IN  /\ s \in Seq(LineType) /\ Pairwise(s, Apart)
             /\ \A x \in Range(s) : /\ x.alias \in {alias, ""}
                                    /\ NumberFree(g) => x.count = Copies(x.files)
                                    /\ x.files = {} \/ x.files = g
             /\ Breaks(text) = {} => s = <<Line(alias, text \o Verdict(alias, f).tag, g, Copies(g))>>
<1> DEFINE s == GroupLines(alias, g)
           f == CHOOSE x \in g : TRUE
           text == Value(File[f].name)
           tag == Verdict(alias, f).tag
           N == Breaks(text)
           breaks == Cardinality(N)
           number == Number(FirstLine(text))
           rest == SubSeq(text, Max({0} \cup N) + 1, Len(text))
           l == rest \o tag
           one == Line(alias, l, g, Copies(g))
           end == Line("", l, g, Copies(g))
           first == Line(alias, FirstLine(text), {}, number)
           blank == [Line("", <<>>, {}, 0) EXCEPT !.splits = FALSE]
           mid == [i \in 1..breaks - 1 |-> blank]
<1>1. f \in g /\ f \in Files
  OBVIOUS
<1>2. s = IF N = {} THEN <<one>> ELSE (<<first>> \o mid) \o <<end>>
  BY DEF GroupLines
<1>3. text \in Seq(Token) /\ tag \in Seq(Token)
  BY <1>1, NameType, ValueType, TagType
<1>4. NumberFree(g) => N = {} \/ number = 0
  BY <1>1 DEF NumberFree
<1> HIDE DEF s, f, text, tag
<1>5. /\ breaks \in Nat /\ (breaks = 0 <=> N = {})
      /\ N # {} => FirstLine(text) \in Seq(Token)
      /\ rest \in Seq(Token) /\ (N = {} => rest = text)
  BY <1>3, BreakFacts
<1>6. number \in Int /\ Copies(g) \in Int /\ Copies(g) \in Nat
  <2>1. Copies(g) \in Nat
    BY CopiesFinite
  <2> QED BY <2>1, NumberType
<1> HIDE DEF N, rest, number
<1>7. l \in Seq(Token) /\ (N = {} => l = text \o tag)
  BY <1>3, <1>5, ConcatProperties
<1> HIDE DEF l
<1>8. /\ one \in LineType /\ one.alias = alias /\ one.files = g /\ one.count = Copies(g)
      /\ end \in LineType /\ end.alias = "" /\ end.files = g /\ end.count = Copies(g)
  <2> DEFINE n == Copies(g)
             a == ""
  <2>1. g \in SUBSET Files /\ n \in Int
    BY <1>6
  <2>2. alias \in Aliases \cup {"", "FileCount"} /\ a \in Aliases \cup {"", "FileCount"}
    OBVIOUS
  <2> HIDE DEF n, a
  <2>3. \A b \in Aliases \cup {"", "FileCount"} :
           IsLine(Line(b, l, g, n), b, l, g, n)
    BY <1>7, <2>1, LineFacts
  <2> QED BY <2>2, <2>3 DEF n, a, IsLine
<1>9. N # {} => first \in LineType /\ first.alias = alias /\ first.files = {} /\ first.count = number
  <2> DEFINE F == {}
             t == FirstLine(text)
  <2>1. F \in SUBSET Files /\ alias \in Aliases \cup {"", "FileCount"}
    OBVIOUS
  <2> HIDE DEF F, t
  <2>2. ASSUME t \in Seq(Token)
        PROVE  IsLine(Line(alias, t, F, number), alias, t, F, number)
    BY <1>6, <2>1, <2>2, LineFacts
  <2> QED BY <1>5, <2>2 DEF F, t, IsLine
<1>10. /\ blank \in LineType /\ blank.alias = "" /\ blank.files = {} /\ blank.count = 0
  <2> DEFINE t == <<>>
             F == {}
             n == 0
             a == ""
             x == Line(a, t, F, n)
  <2>1. /\ F \in SUBSET Files /\ t \in Seq(Token) /\ n \in Int
        /\ a \in Aliases \cup {"", "FileCount"}
    BY EmptySeq
  <2> HIDE DEF F, t, n, a
  <2>2. x \in LineType /\ x.alias = a /\ x.files = F /\ x.count = n
    <3>1. IsLine(x, a, t, F, n)
      BY <2>1, LineFacts
    <3> HIDE DEF x
    <3> QED BY <3>1 DEF IsLine
  <2>3. blank = [x EXCEPT !.splits = FALSE]
    BY DEF t, F, n, a
  <2> HIDE DEF x, blank
  <2>4. blank \in LineType /\ blank.alias = "" /\ blank.files = F /\ blank.count = 0
    <3> USE DEF a, n
    <3> QED BY <2>2, <2>3, UnsplitFacts
  <2> QED BY <2>4 DEF F
<1> DEFINE none == {}
<1>11. Copies(none) = 0 /\ none = {}
  BY NoCopies
<1> HIDE DEF none
<1>12. CASE N = {}
  <2>1. s = <<one>> /\ one = Line(alias, text \o tag, g, Copies(g))
    BY <1>2, <1>7, <1>12
  <2> HIDE DEF one
  <2>2. s \in Seq(LineType) /\ Range(s) = {one} /\ Pairwise(s, Apart)
    BY <1>8, <2>1, OneLine
  <2>3. \A x \in Range(s) : x.alias \in {alias, ""} /\ x.count = Copies(x.files) /\ x.files = g
    BY <1>8, <2>2
  <2> QED BY <2>1, <2>2, <2>3 DEF s, f, text, tag
<1>13. CASE N # {}
  <2> HIDE DEF end, first, blank, breaks
  <2>1. s = (<<first>> \o mid) \o <<end>>
    BY <1>2, <1>13
  <2>2. /\ <<end>> \in Seq(LineType) /\ Range(<<end>>) = {end} /\ Pairwise(<<end>>, Apart)
        /\ <<first>> \in Seq(LineType) /\ Range(<<first>>) = {first} /\ Pairwise(<<first>>, Apart)
    BY <1>8, <1>9, <1>13, OneLine
  <2>3. /\ mid \in Seq(LineType) /\ Range(mid) \subseteq {blank} /\ Pairwise(mid, Apart)
    <3>1. mid \in Seq(LineType) /\ DOMAIN mid = 1..breaks - 1 /\ \A i \in DOMAIN mid : mid[i] = blank
      <4>1. breaks - 1 \in Nat
        BY <1>5, <1>13
      <4> DEFINE n == breaks - 1
      <4> HIDE DEF n
      <4>2. [i \in 1..n |-> blank] \in Seq(LineType)
        <5>1. n \in Nat /\ \A i \in 1..n : blank \in LineType
          BY <1>10, <4>1 DEF n
        <5> QED BY <5>1, IsASeq
      <4>3. mid = [i \in 1..n |-> blank]
        BY DEF n
      <4> QED BY <4>2, <4>3 DEF n
    <3> HIDE DEF mid
    <3>2. Range(mid) \subseteq {blank}
      BY <3>1 DEF Range
    <3>3. <<blank, blank>> \in Apart
      BY <1>10, EmptyApart
    <3> QED BY <3>1, <3>2, <3>3 DEF Pairwise
  <2> HIDE DEF mid
  <2> DEFINE s1 == <<first>>
             s3 == <<end>>
             s2 == s1 \o mid
  <2>4. s1 \in Seq(LineType) /\ s3 \in Seq(LineType)
    BY <2>2
  <2>5. \A x \in {first, blank}, y \in {first, blank, end} : <<x, y>> \in Apart /\ <<y, x>> \in Apart
    BY <1>8, <1>9, <1>10, <1>13, EmptyApart
  <2>6. Range(s1) = {first} /\ Pairwise(s1, Apart) /\ Range(s3) = {end} /\ Pairwise(s3, Apart)
    BY <2>2
  <2> HIDE DEF s1, s3
  <2>7. s2 \in Seq(LineType) /\ Range(s2) = Range(s1) \cup Range(mid)
    BY <2>3, <2>4, ConcatFacts
  <2>8. Pairwise(s2, Apart)
    <3>1. \A x \in Range(s1), y \in Range(mid) : <<x, y>> \in Apart /\ <<y, x>> \in Apart
      BY <2>3, <2>5, <2>6
    <3> QED BY <2>3, <2>4, <2>6, <3>1, ConcatFacts
  <2> HIDE DEF s2
  <2>9. s2 \o s3 \in Seq(LineType) /\ Range(s2 \o s3) = Range(s2) \cup Range(s3)
    BY <2>4, <2>7, ConcatFacts
  <2>10. Pairwise(s2 \o s3, Apart)
    <3>1. \A x \in Range(s2), y \in Range(s3) : <<x, y>> \in Apart /\ <<y, x>> \in Apart
      BY <2>3, <2>5, <2>6, <2>7
    <3> QED BY <2>4, <2>6, <2>7, <2>8, <3>1, ConcatFacts
  <2>11. s = s2 \o s3
    BY <2>1 DEF s1, s2, s3
  <2>12. \A x \in Range(s) : x \in {first, blank, end}
    BY <2>3, <2>6, <2>7, <2>9, <2>11
  <2>13. /\ end.count = Copies(end.files) /\ blank.count = Copies(blank.files)
         /\ NumberFree(g) => first.count = Copies(first.files)
    <3>1. blank.files = none /\ first.files = none /\ (NumberFree(g) => first.count = 0)
      BY <1>4, <1>9, <1>10, <1>11, <1>13
    <3> QED BY <1>8, <1>10, <1>11, <3>1
  <2>14. \A x \in Range(s) : /\ x.alias \in {alias, ""}
                             /\ NumberFree(g) => x.count = Copies(x.files)
                             /\ x.files = {} \/ x.files = g
    BY <1>8, <1>9, <1>10, <1>13, <2>12, <2>13
  <2> QED BY <1>13, <2>9, <2>10, <2>11, <2>14 DEF s, f, text, N
<1> QED BY <1>12, <1>13
(* The groups of a section have no file in common.                         *)
LEMMA GroupsApart ==
  ASSUME NEW alias \in Aliases, NEW S, S \subseteq Files, IsFiniteSet(S)
  PROVE  /\ \A g \in Groups(alias, S) : g \subseteq S /\ g # {} /\ IsFiniteSet(g)
         /\ \A g, h \in Groups(alias, S) : g # h => g \cap h = {}
         /\ IsFiniteSet(Groups(alias, S))
<1> DEFINE hits == {f \in S : Verdict(alias, f).hit}
           Same(f, g) == /\ Verdict(alias, g).tag = Verdict(alias, f).tag
                         /\ File[g].name = File[f].name
           Of(f) == {g \in hits : Same(f, g)}
<1>1. Groups(alias, S) = {Of(f) : f \in hits}
  BY DEF Groups
<1>2. hits \subseteq S
  OBVIOUS
<1> HIDE DEF hits
<1>3. ASSUME NEW g \in Groups(alias, S) PROVE g \subseteq S /\ g # {} /\ IsFiniteSet(g)
  <2>1. PICK f \in hits : g = Of(f)
    BY <1>1
  <2>2. f \in g /\ g \in SUBSET S
    BY <1>2, <2>1
  <2> QED BY <2>2, FS_Subset
<1>4. ASSUME NEW g \in Groups(alias, S), NEW h \in Groups(alias, S), NEW x \in g, x \in h
      PROVE  g = h
  <2>1. PICK f1 \in hits : g = Of(f1)
    BY <1>1
  <2>2. PICK f2 \in hits : h = Of(f2)
    BY <1>1
  <2>3. Same(f1, x) /\ Same(f2, x)
    BY <1>4, <2>1, <2>2
  <2>4. \A y : Same(f1, y) <=> Same(f2, y)
    BY <2>3
  <2> HIDE DEF Same
  <2> QED BY <2>1, <2>2, <2>4
<1>5. \A g, h \in Groups(alias, S) : g # h => g \cap h = {}
  BY <1>4
<1>6. IsFiniteSet(Groups(alias, S))
  <2>1. Groups(alias, S) \in SUBSET (SUBSET S)
    BY <1>3
  <2> QED BY <2>1, FS_SUBSET, FS_Subset
<1> QED BY <1>3, <1>5, <1>6

(* The groups that are reported.                                           *)
Reported(alias, S) == {h \in Groups(alias, S) : Copies(h) > Threshold(alias)}

(* One section of the report.                                              *)
LEMMA SectionFacts ==
  ASSUME NEW alias \in Aliases, NEW S, S \subseteq Files, IsFiniteSet(S)
  PROVE  LET s == generateReportContent(alias, S)
         IN  /\ s \in Seq(LineType) /\ Pairwise(s, Apart)
             /\ \A x \in Range(s) : /\ x.alias \in {alias, ""} /\ x.files \subseteq S
                                    /\ NumberFree(S) => x.count = Copies(x.files)
             /\ Range(s) = UNION {Range(GroupLines(alias, g)) : g \in Reported(alias, S)}
<1> DEFINE G == Reported(alias, S)
           h == [g \in G |-> GroupLines(alias, g)]
           X == {GroupLines(alias, g) : g \in G}
           e == SetToSeq(X)
           s == generateReportContent(alias, S)
<1>1. s = FlattenSeq(e)
  BY DEF generateReportContent, Reported
<1> HIDE DEF s
<1>2. /\ \A g \in G : g \subseteq S /\ g \subseteq Files /\ g # {} /\ IsFiniteSet(g)
      /\ \A a, b \in G : a # b => a \cap b = {}
      /\ IsFiniteSet(G)
  <2>1. G \in SUBSET Groups(alias, S)
    BY DEF Reported
  <2> HIDE DEF G
  <2> QED BY <2>1, GroupsApart, FS_Subset
<1> HIDE DEF G
<1>3. IsFiniteSet(X)
  <2>1. h \in Surjection(G, X)
    BY DEF Surjection
  <2> HIDE DEF h, X
  <2> QED BY <1>2, <2>1, FS_Surjection
<1>4. /\ e \in Seq(X) /\ Range(e) = X /\ IsInjective(e)
  <2> HIDE DEF X
  <2> QED BY <1>3, EnumFacts
<1>5. \A g \in G : /\ GroupLines(alias, g) \in Seq(LineType) /\ Pairwise(GroupLines(alias, g), Apart)
                   /\ \A x \in Range(GroupLines(alias, g)) :
                         /\ x.alias \in {alias, ""} /\ (NumberFree(g) => x.count = Copies(x.files))
                         /\ x.files = {} \/ x.files = g
  <2> SUFFICES ASSUME NEW g \in G
               PROVE  /\ GroupLines(alias, g) \in Seq(LineType) /\ Pairwise(GroupLines(alias, g), Apart)
                      /\ \A x \in Range(GroupLines(alias, g)) :
                            /\ x.alias \in {alias, ""} /\ (NumberFree(g) => x.count = Copies(x.files))
                            /\ x.files = {} \/ x.files = g
    OBVIOUS
  <2>1. g \subseteq Files /\ g # {} /\ IsFiniteSet(g)
    BY <1>2
  <2> QED BY <2>1, GroupFacts
<1>6. X \subseteq Seq(LineType)
  BY <1>5
<1> HIDE DEF e
<1>7. e \in Seq(Seq(LineType)) /\ \A k \in DOMAIN e : \E g \in G : e[k] = GroupLines(alias, g)
  <2>1. e \in Seq(Seq(LineType))
    <3> HIDE DEF X
    <3> QED BY <1>4, <1>6
  <2>2. \A k \in DOMAIN e : e[k] \in Range(e)
    BY DEF Range
  <2> QED BY <1>4, <2>1, <2>2
<1>8. \A k \in DOMAIN e : Pairwise(e[k], Apart)
  BY <1>5, <1>7
<1>9. ASSUME NEW k \in DOMAIN e, NEW l \in DOMAIN e, k # l, NEW x \in Range(e[k]), NEW y \in Range(e[l])
      PROVE  <<x, y>> \in Apart
  <2>1. PICK a \in G : e[k] = GroupLines(alias, a)
    BY <1>7
  <2>2. PICK b \in G : e[l] = GroupLines(alias, b)
    BY <1>7
  <2>3. a # b
    <3>1. e[k] # e[l]
      BY <1>4, <1>9 DEF IsInjective
    <3> QED BY <2>1, <2>2, <3>1
  <2>4. a \cap b = {}
    BY <1>2, <2>3
  <2>5. x \in LineType /\ y \in LineType
    <3>1. \A q \in Seq(LineType) : \A z \in Range(q) : z \in LineType
      BY ElementOfSeq, LenProperties DEF Range
    <3> QED BY <1>5, <1>9, <2>1, <2>2, <3>1
  <2>6. x.files \cap y.files = {}
    <3>1. x.files = {} \/ x.files = a
      BY <1>5, <1>9, <2>1
    <3>2. y.files = {} \/ y.files = b
      BY <1>5, <1>9, <2>2
    <3> QED BY <2>4, <3>1, <3>2
  <2> QED BY <2>5, <2>6 DEF Apart
<1>10. /\ s \in Seq(LineType) /\ Pairwise(s, Apart)
       /\ Range(s) = UNION {Range(e[k]) : k \in DOMAIN e}
  <2> HIDE DEF X
  <2> QED BY <1>1, <1>7, <1>8, <1>9, FlattenFacts
<1>11. Range(s) = UNION {Range(GroupLines(alias, g)) : g \in G}
  <2>1. ASSUME NEW x \in Range(s) PROVE \E g \in G : x \in Range(GroupLines(alias, g))
    BY <1>7, <1>10, <2>1
  <2>2. ASSUME NEW g \in G, NEW x \in Range(GroupLines(alias, g)) PROVE x \in Range(s)
    <3>1. GroupLines(alias, g) \in Range(e)
      BY <1>4
    <3>2. PICK k \in DOMAIN e : e[k] = GroupLines(alias, g)
      BY <3>1 DEF Range
    <3> QED BY <1>10, <2>2, <3>2
  <2> QED BY <2>1, <2>2
<1>12. ASSUME NEW x \in Range(s)
       PROVE  /\ x.alias \in {alias, ""} /\ x.files \subseteq S
              /\ NumberFree(S) => x.count = Copies(x.files)
  <2>1. PICK g \in G : x \in Range(GroupLines(alias, g))
    BY <1>11
  <2>2. \A y \in Range(GroupLines(alias, g)) :
           y.alias \in {alias, ""} /\ (NumberFree(g) => y.count = Copies(y.files)) /\ (y.files = {} \/ y.files = g)
    BY <1>5
  <2>3. NumberFree(S) => NumberFree(g)
    BY <1>2 DEF NumberFree
  <2> QED BY <1>2, <2>1, <2>2, <2>3
<1> QED BY <1>10, <1>11, <1>12 DEF s, G

(* The whole report.                                                       *)
LEMMA ReportFacts ==
  ASSUME NEW t \in Trees
  PROVE  LET L == ReportLines(t.root, t.files)
         IN  /\ L \in Seq(LineType) /\ Pairwise(L, Apart)
             /\ Len(L) > 0 /\ L[1] = FileCountLine(t.root, t.files) /\ L[1].alias = "FileCount"
             /\ \A i \in DOMAIN L : i > 1 => L[i].alias # "FileCount"
             /\ \A x \in Range(L) : x.alias \in Aliases =>
                   x.files \subseteq t.files /\ (NumberFree(t.files) => x.count = Copies(x.files))
             /\ L[1].count \in Nat
             /\ Range(L) = {FileCountLine(t.root, t.files)}
                           \cup UNION {Range(GroupLines(p[1], p[2])) :
                                          p \in {q \in Aliases \X SUBSET t.files :
                                                    q[2] \in Reported(q[1], t.files)}}
<1> DEFINE S == t.files
           L == ReportLines(t.root, S)
           head == FileCountLine(t.root, S)
           secs == [i \in DOMAIN ScanAliases |-> generateReportContent(ScanAliases[i], S)]
<1>1. S \subseteq Files /\ IsFiniteSet(S)
  BY ReportAssumption
<1>2. L = <<head>> \o FlattenSeq(secs)
  BY DEF ReportLines
<1> HIDE DEF L, S
<1>3. /\ head \in LineType /\ head.alias = "FileCount" /\ head.files = {} /\ head.count \in Nat
  <2>1. Copies(S) \in Nat /\ <<>> \in Seq(Token)
    BY <1>1, CopiesFinite, EmptySeq
  <2> DEFINE n == IF t.root = "with :" THEN 0 ELSE Copies(S)
             b == t.root # "none"
             e == <<>>
  <2>2. n \in Nat /\ b \in BOOLEAN /\ e \in Seq(Token)
    BY <2>1
  <2>3. head = [Line("FileCount", e, {}, n) EXCEPT !.splits = b]
    BY DEF FileCountLine
  <2> DEFINE a == "FileCount"
             F == {}
             x == Line(a, e, F, n)
  <2>4. a \in Aliases \cup {"", "FileCount"} /\ F \in SUBSET Files /\ n \in Int
    <3> HIDE DEF n
    <3> QED BY <2>2
  <2>5. head = [x EXCEPT !.splits = b]
    BY <2>3
  <2> HIDE DEF n, b, head, e, a, F, x
  <2>6. IsLine(x, a, e, F, n)
    BY <2>2, <2>4, LineFacts DEF x
  <2>7. head \in LineType /\ head.alias = a /\ head.files = F /\ head.count = n
    BY <2>2, <2>5, <2>6, UnsplitFacts DEF IsLine
  <2> QED BY <2>2, <2>7 DEF a, F
<1> HIDE DEF head
<1>4. /\ DOMAIN ScanAliases = 1..4 /\ \A i \in 1..4 : ScanAliases[i] \in Aliases
      /\ \A i, j \in 1..4 : i # j => ScanAliases[i] # ScanAliases[j]
      /\ \A a \in Aliases : \E i \in 1..4 : a = ScanAliases[i]
  BY DEF ScanAliases, Aliases
<1>5. DOMAIN secs = 1..4 /\ \A i \in 1..4 : secs[i] = generateReportContent(ScanAliases[i], S)
  BY <1>4
<1>6. ASSUME NEW i \in 1..4
      PROVE  /\ secs[i] \in Seq(LineType) /\ Pairwise(secs[i], Apart)
             /\ \A x \in Range(secs[i]) : /\ x.alias \in {ScanAliases[i], ""} /\ x.files \subseteq S
                                          /\ NumberFree(S) => x.count = Copies(x.files)
             /\ \A x : x \in Range(secs[i]) <=>
                   \E g \in Reported(ScanAliases[i], S) : x \in Range(GroupLines(ScanAliases[i], g))
  <2> DEFINE a == ScanAliases[i]
             s == generateReportContent(a, S)
  <2>1. a \in Aliases /\ secs[i] = s
    BY <1>4, <1>5
  <2> HIDE DEF a, secs
  <2>2. /\ s \in Seq(LineType) /\ Pairwise(s, Apart)
        /\ \A x \in Range(s) : /\ x.alias \in {a, ""} /\ x.files \subseteq S
                               /\ NumberFree(S) => x.count = Copies(x.files)
        /\ Range(s) = UNION {Range(GroupLines(a, g)) : g \in Reported(a, S)}
    BY <1>1, <2>1, SectionFacts
  <2> HIDE DEF s
  <2>3. \A x : x \in Range(s) <=> \E g \in Reported(a, S) : x \in Range(GroupLines(a, g))
    BY <2>2
  <2> QED BY <2>1, <2>2, <2>3 DEF a
<1> HIDE DEF secs
<1>7. secs \in Seq(Seq(LineType))
  <2>1. secs = [i \in 1..4 |-> secs[i]]
    BY <1>5 DEF secs
  <2> DEFINE T == Seq(LineType)
  <2>2. \A i \in 1..4 : secs[i] \in T
    BY <1>6
  <2> HIDE DEF T
  <2>3. [i \in 1..4 |-> secs[i]] \in Seq(T)
    BY <2>2, IsASeq
  <2> QED BY <2>1, <2>3 DEF T
<1>8. ASSUME NEW k \in 1..4, NEW l \in 1..4, k # l, NEW x \in Range(secs[k]), NEW y \in Range(secs[l])
      PROVE  <<x, y>> \in Apart
  <2>1. x \in LineType /\ y \in LineType
    <3>1. \A q \in Seq(LineType) : \A z \in Range(q) : z \in LineType
      BY ElementOfSeq, LenProperties DEF Range
    <3> QED BY <1>6, <1>8, <3>1
  <2>2. "" \notin Aliases
    BY DEF Aliases
  <2>3. ScanAliases[k] # ScanAliases[l] /\ x.alias \in {ScanAliases[k], ""} /\ y.alias \in {ScanAliases[l], ""}
    BY <1>4, <1>6, <1>8
  <2> QED BY <2>1, <2>2, <2>3 DEF Apart
<1> DEFINE body == FlattenSeq(secs)
<1>9. /\ body \in Seq(LineType) /\ Pairwise(body, Apart)
      /\ Range(body) = UNION {Range(secs[k]) : k \in 1..4}
  BY <1>5, <1>6, <1>7, <1>8, FlattenFacts
<1> HIDE DEF body
<1>10. <<head>> \in Seq(LineType) /\ Range(<<head>>) = {head} /\ Pairwise(<<head>>, Apart)
  BY <1>3, OneLine
<1> DEFINE one == <<head>>
<1>11. one \in Seq(LineType) /\ Range(one) = {head} /\ Pairwise(one, Apart) /\ L = one \o body
  BY <1>2, <1>10 DEF body
<1> HIDE DEF one
<1>12. L \in Seq(LineType) /\ Range(L) = {head} \cup Range(body)
  BY <1>9, <1>11, ConcatFacts
<1>13. \A x \in Range(body) : <<head, x>> \in Apart /\ <<x, head>> \in Apart
  <2>1. \A q \in Seq(LineType) : \A z \in Range(q) : z \in LineType
    BY ElementOfSeq, LenProperties DEF Range
  <2>2. \A x \in Range(body) : x \in LineType
    BY <1>9, <2>1
  <2> QED BY <1>3, <2>2, EmptyApart
<1>14. Pairwise(L, Apart)
  BY <1>9, <1>11, <1>13, ConcatFacts
<1>15. \A x \in Range(L) : x.alias \in Aliases => x.files \subseteq S /\ (NumberFree(S) => x.count = Copies(x.files))
  <2>1. "FileCount" \notin Aliases
    BY DEF Aliases
  <2>2. \A x \in Range(body) : x.files \subseteq S /\ (NumberFree(S) => x.count = Copies(x.files))
    BY <1>6, <1>9
  <2> QED BY <1>3, <1>12, <2>1, <2>2
<1> DEFINE P == {q \in Aliases \X SUBSET S : q[2] \in Reported(q[1], S)}
<1>16. Range(body) = UNION {Range(GroupLines(p[1], p[2])) : p \in P}
  <2>1. ASSUME NEW x \in Range(body) PROVE \E p \in P : x \in Range(GroupLines(p[1], p[2]))
    <3>1. PICK k \in 1..4 : x \in Range(secs[k])
      BY <1>9
    <3>2. PICK g \in Reported(ScanAliases[k], S) : x \in Range(GroupLines(ScanAliases[k], g))
      BY <1>6, <3>1
    <3>3. ScanAliases[k] \in Aliases
      BY <1>4
    <3>4. g \in SUBSET S
      BY <1>1, <3>2, <3>3, GroupsApart DEF Reported
    <3>5. <<ScanAliases[k], g>> \in P
      BY <3>2, <3>3, <3>4
    <3> QED BY <3>2, <3>5
  <2>2. ASSUME NEW p \in P, NEW x \in Range(GroupLines(p[1], p[2])) PROVE x \in Range(body)
    <3>1. PICK k \in 1..4 : p[1] = ScanAliases[k]
      BY <1>4
    <3>2. x \in Range(secs[k])
      BY <1>6, <2>2, <3>1
    <3> QED BY <1>9, <3>2
  <2> HIDE DEF P
  <2> QED BY <2>1, <2>2
<1>17. Range(L) = {head} \cup UNION {Range(GroupLines(p[1], p[2])) : p \in P}
  BY <1>12, <1>16
<1>18. Len(L) > 0 /\ L[1] = head /\ (\A i \in DOMAIN L : i > 1 => L[i].alias # "FileCount")
  <2>1. /\ one \in Seq(LineType) /\ Len(one) = 1 /\ one[1] = head
    BY <1>11 DEF one
  <2>2. Len(body) \in Nat /\ DOMAIN body = 1..Len(body)
    BY <1>9, LenProperties
  <2>3. /\ Len(L) = 1 + Len(body) /\ DOMAIN L = 1..Len(L)
        /\ \A i \in 1..Len(L) : L[i] = IF i <= 1 THEN one[i] ELSE body[i - 1]
    <3>1. \A p, q \in Seq(LineType) :
             /\ Len(p \o q) = Len(p) + Len(q)
             /\ \A i \in 1..Len(p) + Len(q) : (p \o q)[i] = IF i <= Len(p) THEN p[i] ELSE q[i - Len(p)]
      BY ConcatProperties
    <3>2. /\ Len(one \o body) = Len(one) + Len(body)
          /\ \A i \in 1..Len(one) + Len(body) :
                (one \o body)[i] = IF i <= Len(one) THEN one[i] ELSE body[i - Len(one)]
      BY <1>9, <2>1, <3>1
    <3>3. DOMAIN L = 1..Len(L)
      BY <1>12, LenProperties
    <3> QED BY <1>11, <2>1, <3>2, <3>3
  <2>4. L[1] = head
    BY <2>1, <2>2, <2>3
  <2>5. ASSUME NEW i \in 1..Len(L), i > 1 PROVE L[i].alias # "FileCount"
    <3>1. i - 1 \in DOMAIN body /\ L[i] = body[i - 1]
      BY <2>2, <2>3, <2>5
    <3>2. L[i] \in Range(body)
      BY <3>1 DEF Range
    <3>3. PICK k \in 1..4 : L[i] \in Range(secs[k])
      BY <1>9, <3>2
    <3>4. L[i].alias \in {ScanAliases[k], ""} /\ ScanAliases[k] \in Aliases
      BY <1>4, <1>6, <3>3
    <3> QED BY <3>4 DEF Aliases
  <2> QED BY <2>2, <2>3, <2>4, <2>5
<1> QED BY <1>3, <1>12, <1>14, <1>15, <1>17, <1>18 DEF L, S, head

-----------------------------------------------------------------------------
(* The lines of the report, how many of them workers have taken, and the   *)
(* files of the first n that belong to a counter.                          *)
Lines == ReportLines(tree.root, tree.files)
Taken == Len(Lines) - Len(unread) - Len(lineChan)
Counted(L, s, n) == UNION {L[i].files : i \in {j \in 1..n : s \in SortsOf(L[j])}}
Holders(s) == {w \in Workers : s \in todo[w]}

(* TypeOK, and that lines are lines.                                       *)
TypeInv ==
    /\ TypeOK
    /\ line \in [Workers -> LineType]
    /\ unread \in Seq(LineType) /\ lineChan \in Seq(LineType)

(* What was taken, what is in the channel and what is unread make up the   *)
(* report.                                                                 *)
QueueInv ==
    /\ Taken \in Nat
    /\ \A i \in 1..Len(lineChan) : lineChan[i] = Lines[Taken + i]
    /\ \A i \in 1..Len(unread) : unread[i] = Lines[Taken + Len(lineChan) + i]

(* A worker has lists left while it appends, and only then.                *)
HandInv ==
    \A w \in Workers :
        /\ worker[w] \in {"append", "write"} <=> todo[w] # {}
        /\ todo[w] # {} => line[w].files \subseteq tree.files

(* What a worker has read of a list of files is one.                       *)
SnapInv ==
    /\ DOMAIN snapshot = Workers
    /\ \A w \in Workers : worker[w] = "write" /\ NextList(w) \in Sorts
                            => snapshot[w] \in Seq(Files \cup {Garbage})

(* A counter is right for the lines taken.                                 *)
CounterInv ==
    main # "panicked" /\ ~Numbered => \A s \in Sorts : total[s] = Copies(Counted(Lines, s, Taken))

(* A list holds the files of the lines taken, but for those in hand, and   *)
(* none of them twice.                                                     *)
ListInv ==
    main # "panicked" => \A s \in Sorts \ raced :
        /\ IsInjective(list[s])
        /\ Range(list[s]) \cup UNION {line[w].files : w \in Holders(s)} = Counted(Lines, s, Taken)
        /\ \A w \in Holders(s) : line[w].files \cap Range(list[s]) = {}
        /\ \A v, w \in Holders(s) : v # w => line[v].files \cap line[w].files = {}

(* A table holds the lines taken that are about its counter, but for those *)
(* in hand.                                                                *)
Rows(L, s, n) == {L[i] : i \in {j \in 1..n : s \in SortsOf(L[j])}}
TableInv ==
    main # "panicked" => \A s \in DOMAIN Table :
        Table[s] \notin raced =>
            /\ list[Table[s]] \in Seq(LineType)
            /\ Range(list[Table[s]]) \cup {line[w] : w \in Holders(Table[s])} = Rows(Lines, s, Taken)

(* The result comes when all is done; all is done when the scanner stopped *)
(* at the end, or at a line that is too long.                              *)
EndInv ==
    /\ scanner = "ended" => ~Readable
    /\ \A w \in Workers : worker[w] = "done" => scanner = "ended" /\ lineChan = <<>>
    /\ main \in {"printed", "crashed"} => \A w \in Workers : worker[w] = "done"
    /\ main = "crashed" => raced # {}

(* The number of files is that of the first line.                          *)
FilesInv ==
    main # "panicked" =>
        /\ FileCount = IF Taken = 0 THEN 0 ELSE Lines[1].count
        /\ Taken > 0 => Lines[1].splits

IInv ==
    /\ TypeInv /\ QueueInv /\ HandInv /\ SnapInv
    /\ CounterInv /\ ListInv /\ TableInv /\ EndInv /\ FilesInv
(* The lines of one counter are all of one heading.                        *)
LEMMA SortAlias ==
  ASSUME NEW l, NEW s \in SortsOf(l)
  PROVE  /\ s \in Sorts /\ l.alias \in Aliases
         /\ l.alias = CASE s = "file" -> "SUFFIX"
                        [] s = "ransom" -> "DUPLICATED"
                        [] s \in {"777", "suid", "sgid"} -> "PERMISSION"
                        [] OTHER -> "CONTENT"
<1>1. s \in Sorts
  BY DEF SortsOf
<1>2. CASE s = "file"
  BY <1>2 DEF SortsOf, Aliases
<1>3. CASE s = "ransom"
  BY <1>3 DEF SortsOf, Aliases
<1>4. CASE s \in {"777", "suid", "sgid"}
  BY <1>4 DEF SortsOf, Aliases
<1>5. CASE s \in {"oa", "pdf", "oaPwd", "pdfPwd", "zipPwd"}
  BY <1>5 DEF SortsOf, Aliases, Protected, Mismatched
<1> QED BY <1>1, <1>2, <1>3, <1>4, <1>5 DEF Sorts

(* The report as a sequence, and what is said of its elements.             *)
LEMMA LinesFacts ==
  ASSUME NEW t \in Trees
  PROVE  LET L == ReportLines(t.root, t.files)
         IN  /\ L \in Seq(LineType) /\ Len(L) \in Nat /\ DOMAIN L = 1..Len(L)
             /\ \A i \in 1..Len(L) : /\ L[i] \in LineType
                                     /\ SortsOf(L[i]) # {} =>
                                           /\ L[i].files \subseteq t.files
                                           /\ NumberFree(t.files) => L[i].count = Copies(L[i].files)
             /\ \A i, j \in 1..Len(L), s \in Sorts :
                   i # j /\ s \in SortsOf(L[i]) /\ s \in SortsOf(L[j]) => L[i].files \cap L[j].files = {}
<1> DEFINE L == ReportLines(t.root, t.files)
<1>1. /\ L \in Seq(LineType) /\ Pairwise(L, Apart)
      /\ \A x \in Range(L) : x.alias \in Aliases =>
            x.files \subseteq t.files /\ (NumberFree(t.files) => x.count = Copies(x.files))
  BY ReportFacts
<1> HIDE DEF L
<1>2. Len(L) \in Nat /\ DOMAIN L = 1..Len(L) /\ \A i \in 1..Len(L) : L[i] \in LineType
  BY <1>1, LenProperties, ElementOfSeq
<1>3. \A i \in 1..Len(L) : L[i] \in Range(L)
  BY <1>2 DEF Range
<1>4. ASSUME NEW i \in 1..Len(L), SortsOf(L[i]) # {}
      PROVE  L[i].files \subseteq t.files /\ (NumberFree(t.files) => L[i].count = Copies(L[i].files))
  <2>1. L[i].alias \in Aliases
    BY <1>4, SortAlias
  <2> QED BY <1>1, <1>3, <2>1
<1>5. ASSUME NEW i \in 1..Len(L), NEW j \in 1..Len(L), NEW s \in Sorts, i # j,
             s \in SortsOf(L[i]), s \in SortsOf(L[j])
      PROVE  L[i].files \cap L[j].files = {}
  <2>1. L[i].alias = L[j].alias /\ L[i].alias \in Aliases
    BY <1>5, SortAlias
  <2>2. <<L[i], L[j]>> \in Apart
    BY <1>1, <1>2, <1>5 DEF Pairwise
  <2> QED BY <2>1, <2>2 DEF Apart
<1> QED BY <1>1, <1>2, <1>4, <1>5 DEF L

(* What one more line adds to a counter.                                   *)
LEMMA CountedFacts ==
  ASSUME NEW t \in Trees, NEW s \in Sorts, NEW n \in Nat,
         n <= Len(ReportLines(t.root, t.files))
  PROVE  LET L == ReportLines(t.root, t.files)
             l == L[n + 1]
         IN  /\ Counted(L, s, n) \subseteq t.files
             /\ n < Len(L) =>
                  /\ s \notin SortsOf(l) => Counted(L, s, n + 1) = Counted(L, s, n)
                  /\ s \in SortsOf(l) =>
                       /\ l.files \subseteq t.files
                       /\ Counted(L, s, n + 1) = Counted(L, s, n) \cup l.files
                       /\ Counted(L, s, n) \cap l.files = {}
                       /\ NumberFree(t.files) =>
                            Copies(Counted(L, s, n + 1)) = Copies(Counted(L, s, n)) + l.count
<1> DEFINE L == ReportLines(t.root, t.files)
           l == L[n + 1]
<1>1. /\ L \in Seq(LineType) /\ Len(L) \in Nat /\ DOMAIN L = 1..Len(L)
      /\ \A i \in 1..Len(L) : /\ L[i] \in LineType
                              /\ SortsOf(L[i]) # {} =>
                                    /\ L[i].files \subseteq t.files
                                    /\ NumberFree(t.files) => L[i].count = Copies(L[i].files)
      /\ \A i, j \in 1..Len(L), r \in Sorts :
            i # j /\ r \in SortsOf(L[i]) /\ r \in SortsOf(L[j]) => L[i].files \cap L[j].files = {}
  BY LinesFacts
<1>2. n <= Len(L)
  OBVIOUS
<1> HIDE DEF L
<1>3. Counted(L, s, n) \subseteq t.files
  <2> SUFFICES ASSUME NEW i \in 1..n, s \in SortsOf(L[i]) PROVE L[i].files \subseteq t.files
    BY DEF Counted
  <2>1. i \in 1..Len(L)
    BY <1>1, <1>2
  <2> QED BY <1>1, <2>1
<1>4. ASSUME n < Len(L), s \notin SortsOf(l) PROVE Counted(L, s, n + 1) = Counted(L, s, n)
  <2>1. {j \in 1..n + 1 : s \in SortsOf(L[j])} = {j \in 1..n : s \in SortsOf(L[j])}
    <3>1. 1..n + 1 = (1..n) \cup {n + 1}
      OBVIOUS
    <3> QED BY <1>4, <3>1
  <2> QED BY <2>1 DEF Counted
<1>5. ASSUME n < Len(L), s \in SortsOf(l)
      PROVE  /\ l.files \subseteq t.files
             /\ Counted(L, s, n + 1) = Counted(L, s, n) \cup l.files
             /\ Counted(L, s, n) \cap l.files = {}
             /\ NumberFree(t.files) =>
                  Copies(Counted(L, s, n + 1)) = Copies(Counted(L, s, n)) + l.count
  <2>1. n + 1 \in 1..Len(L)
    BY <1>1, <1>5
  <2>2. l.files \subseteq t.files /\ (NumberFree(t.files) => l.count = Copies(l.files))
    BY <1>1, <1>5, <2>1
  <2>3. Counted(L, s, n + 1) = Counted(L, s, n) \cup l.files
    <3>1. {j \in 1..n + 1 : s \in SortsOf(L[j])} = {j \in 1..n : s \in SortsOf(L[j])} \cup {n + 1}
      <4>1. 1..n + 1 = (1..n) \cup {n + 1}
        OBVIOUS
      <4> QED BY <1>5, <4>1
    <3> QED BY <3>1 DEF Counted
  <2>4. Counted(L, s, n) \cap l.files = {}
    <3> SUFFICES ASSUME NEW i \in 1..n, s \in SortsOf(L[i]) PROVE L[i].files \cap l.files = {}
      BY DEF Counted
    <3>1. i \in 1..Len(L) /\ i # n + 1
      BY <1>1, <1>2
    <3> QED BY <1>1, <1>5, <2>1, <3>1
  <2>5. t.files \subseteq Files /\ IsFiniteSet(t.files)
    BY ReportAssumption
  <2> DEFINE A == Counted(L, s, n)
             B == l.files
  <2>6. A \subseteq t.files /\ B \subseteq t.files /\ A \cap B = {}
    BY <1>3, <2>2, <2>4
  <2> DEFINE S == t.files
  <2> HIDE DEF A, B, S
  <2>7. Copies(A \cup B) = Copies(A) + Copies(B)
    <3>1. S \subseteq Files /\ IsFiniteSet(S) /\ A \subseteq S /\ B \subseteq S /\ A \cap B = {}
      BY <2>5, <2>6 DEF S
    <3> QED BY <3>1, CopiesFacts
  <2> QED BY <2>2, <2>3, <2>4, <2>7 DEF A, B
<1> QED BY <1>3, <1>4, <1>5 DEF L


(* What one more line adds to the rows of a table.                         *)
LEMMA RowsFacts ==
  ASSUME NEW L, NEW s, NEW n \in Nat
  PROVE  /\ Rows(L, s, 0) = {}
         /\ s \in SortsOf(L[n + 1]) => Rows(L, s, n + 1) = Rows(L, s, n) \cup {L[n + 1]}
         /\ s \notin SortsOf(L[n + 1]) => Rows(L, s, n + 1) = Rows(L, s, n)
         /\ UNION {x.files : x \in Rows(L, s, n)} = Counted(L, s, n)
<1>1. 1..n + 1 = (1..n) \cup {n + 1}
  OBVIOUS
<1>2. Rows(L, s, 0) = {}
  BY DEF Rows
<1>3. ASSUME s \in SortsOf(L[n + 1]) PROVE Rows(L, s, n + 1) = Rows(L, s, n) \cup {L[n + 1]}
  <2>1. {j \in 1..n + 1 : s \in SortsOf(L[j])} = {j \in 1..n : s \in SortsOf(L[j])} \cup {n + 1}
    BY <1>1, <1>3
  <2>2. Rows(L, s, n + 1) = Rows(L, s, n) \cup {L[n + 1]}
    BY <2>1 DEF Rows
  <2> QED BY <2>2
<1>4. ASSUME s \notin SortsOf(L[n + 1]) PROVE Rows(L, s, n + 1) = Rows(L, s, n)
  <2>1. {j \in 1..n + 1 : s \in SortsOf(L[j])} = {j \in 1..n : s \in SortsOf(L[j])}
    BY <1>1, <1>4
  <2>2. Rows(L, s, n + 1) = Rows(L, s, n)
    BY <2>1 DEF Rows
  <2> QED BY <2>2
<1>5. UNION {x.files : x \in Rows(L, s, n)} = Counted(L, s, n)
  BY DEF Rows, Counted
<1> QED BY <1>2, <1>3, <1>4, <1>5

(* The two tables are no lists of files.                                   *)
LEMMA TableFacts ==
  /\ DOMAIN Table = {"file", "ransom"} /\ DOMAIN Table \subseteq Sorts
  /\ Table["file"] = "fileDetection" /\ Table["ransom"] = "ransomFileDetection"
  /\ Lists = Sorts \cup {"fileDetection", "ransomFileDetection"}
  /\ Range(Table) = {"fileDetection", "ransomFileDetection"}
  /\ {"fileDetection", "ransomFileDetection"} \cap Sorts = {}
<1>1. /\ DOMAIN Table = {"file", "ransom"}
      /\ Table["file"] = "fileDetection" /\ Table["ransom"] = "ransomFileDetection"
  BY DEF Table
<1>2. Range(Table) = {"fileDetection", "ransomFileDetection"}
  BY <1>1 DEF Range
<1>3. DOMAIN Table \subseteq Sorts /\ {"fileDetection", "ransomFileDetection"} \cap Sorts = {}
  BY <1>1 DEF Sorts
<1> QED BY <1>1, <1>2, <1>3 DEF Lists

(* The lists of a line: those of its counters, and their tables.           *)
LEMMA ListsOfFacts ==
  ASSUME NEW x
  PROVE  /\ SortsOf(x) \subseteq Sorts /\ ListsOf(x) \subseteq Lists
         /\ ListsOf(x) = {} <=> SortsOf(x) = {}
         /\ \A s \in Sorts : s \in ListsOf(x) <=> s \in SortsOf(x)
         /\ \A s \in DOMAIN Table : Table[s] \in ListsOf(x) <=> s \in SortsOf(x)
<1> DEFINE S == SortsOf(x)
<1>1. S \subseteq Sorts
  BY DEF SortsOf
<1>2. ListsOf(x) = S \cup {Table[s] : s \in S \cap DOMAIN Table}
  BY DEF ListsOf, WithTables
<1> HIDE DEF S
<1>3. ListsOf(x) \subseteq Lists /\ (ListsOf(x) = {} <=> S = {})
  BY <1>1, <1>2, TableFacts
<1>4. \A s \in Sorts : s \in ListsOf(x) <=> s \in S
  BY <1>1, <1>2, TableFacts
<1>5. \A s \in DOMAIN Table : Table[s] \in ListsOf(x) <=> s \in S
  BY <1>1, <1>2, TableFacts
<1> QED BY <1>1, <1>3, <1>4, <1>5 DEF S

(* A worker with lists left has a next one.                                *)
LEMMA NextListFacts ==
  ASSUME NEW w, todo[w] # {}
  PROVE  NextList(w) \in todo[w]
<1>1. \E s \in todo[w] : s \in Sorts => todo[w] \subseteq Sorts
  OBVIOUS
<1> QED BY <1>1 DEF NextList
-----------------------------------------------------------------------------
(* What is known of the report that is read.                               *)
LEMMA TreeFacts ==
  ASSUME tree \in Trees
  PROVE  /\ Lines \in Seq(LineType) /\ Len(Lines) \in Nat
         /\ \A i \in 1..Len(Lines) : Lines[i] \in LineType
         /\ Len(Lines) > 0 /\ Lines[1] = FileCountLine(tree.root, tree.files)
         /\ \A i \in 1..Len(Lines) : Lines[i].alias = "FileCount" <=> i = 1
         /\ Lines[1].count \in Nat /\ Garbage \notin Range(Lines)
         /\ tree.files \subseteq Files /\ IsFiniteSet(tree.files)
         /\ ~Numbered => NumberFree(tree.files)
         /\ \A s \in Sorts, n \in Nat : n <= Len(Lines) => Counted(Lines, s, n) \subseteq tree.files
<1>1. /\ Lines \in Seq(LineType) /\ Len(Lines) \in Nat /\ DOMAIN Lines = 1..Len(Lines)
      /\ \A i \in 1..Len(Lines) : Lines[i] \in LineType
      /\ \A s \in Sorts, n \in Nat : n <= Len(Lines) => Counted(Lines, s, n) \subseteq tree.files
  BY LinesFacts, CountedFacts DEF Lines
<1>2. /\ Len(Lines) > 0 /\ Lines[1] = FileCountLine(tree.root, tree.files) /\ Lines[1].alias = "FileCount"
      /\ Lines[1].count \in Nat
      /\ \A i \in 1..Len(Lines) : i > 1 => Lines[i].alias # "FileCount"
  BY <1>1, ReportFacts DEF Lines
<1>3. \A i \in 1..Len(Lines) : Lines[i].alias = "FileCount" <=> i = 1
  BY <1>1, <1>2
<1>4. ~Numbered => NumberFree(tree.files)
  BY DEF Numbered, NumberFree
<1>5. tree.files \subseteq Files /\ IsFiniteSet(tree.files) /\ Garbage \notin Range(Lines)
  BY ReportAssumption DEF Lines
<1> QED BY <1>1, <1>2, <1>3, <1>4, <1>5

(* The channel has room for a line.                                        *)
LEMMA CapacityFacts == Capacity \in Nat /\ Capacity # 0
  BY ReportAssumption

(* No line is a line without a heading.                                    *)
LEMMA NoLineType == NoLine \in LineType
<1> DEFINE a == ""
           e == <<>>
           F == {}
           n == 0
<1>1. NoLine = Line(a, e, F, n) /\ a \in Aliases \cup {"", "FileCount"} /\ e \in Seq(Token)
      /\ F \in SUBSET Files /\ n \in Int
  BY EmptySeq DEF NoLine
<1> HIDE DEF a, e, F, n
<1> QED BY <1>1, LineFacts DEF IsLine

(* Initially nothing is taken, nothing is counted.                         *)
LEMMA InitFacts == Init => IInv
<1> SUFFICES ASSUME Init PROVE IInv
  OBVIOUS
<1> USE DEF Init
<1>1. /\ Lines \in Seq(LineType) /\ Len(Lines) \in Nat
      /\ \A i \in 1..Len(Lines) : Lines[i] \in LineType
  BY TreeFacts
<1>2. unread = Lines /\ lineChan = <<>> /\ Len(lineChan) = 0
  BY DEF Lines
<1>3. Taken = 0
  <2>1. Taken = Len(Lines) - Len(Lines) - 0
    BY <1>2 DEF Taken
  <2> QED BY <1>1, <2>1
<1>4. <<>> \in Seq(LineType) /\ <<>> \in Seq(Files \cup {Garbage})
  BY EmptySeq
<1>5. TypeInv
  <2>1. NoLine \in LineType
    BY NoLineType
  <2>2. TypeOK
    <3>1. Len(lineChan) <= Capacity /\ Capacity \in Nat
      <4>1. 0 <= Capacity
        BY CapacityFacts
      <4> QED BY <1>2, <4>1, CapacityFacts
    <3>2. DOMAIN list = Lists /\ \A s \in Sorts : list[s] \in Seq(Files \cup {Garbage})
      BY <1>4 DEF Lists
    <3>3. FileCount \in Nat /\ total \in [Sorts -> Int]
      OBVIOUS
    <3>4. worker \in [Workers -> {"idle", "append", "write", "done"}] /\ todo \in [Workers -> SUBSET Lists]
      OBVIOUS
    <3> QED BY <3>1, <3>2, <3>3, <3>4 DEF TypeOK
  <2> QED BY <1>1, <1>2, <1>4, <2>1, <2>2 DEF TypeInv
<1>6. QueueInv
  BY <1>1, <1>2, <1>3 DEF QueueInv
<1>7. HandInv
  BY DEF HandInv
<1>8. \A s \in Sorts : Counted(Lines, s, Taken) = {}
  BY <1>3 DEF Counted
<1>9. CounterInv
  BY <1>8, NoCopies DEF CounterInv
<1>10. ListInv
  <2> SUFFICES ASSUME NEW s \in Sorts
               PROVE  /\ IsInjective(list[s]) /\ Range(list[s]) = {} /\ Holders(s) = {}
    BY <1>8 DEF ListInv
  <2>1. list[s] = <<>> /\ DOMAIN <<>> = {}
    BY DEF Lists
  <2> QED BY <2>1 DEF IsInjective, Range, Holders
<1>13. TableInv
  <2> SUFFICES ASSUME NEW s \in DOMAIN Table
               PROVE  /\ list[Table[s]] \in Seq(LineType) /\ Range(list[Table[s]]) = {}
                      /\ Holders(Table[s]) = {} /\ Rows(Lines, s, Taken) = {}
    BY DEF TableInv
  <2>1. list[Table[s]] = <<>> /\ DOMAIN <<>> = {}
    BY TableFacts
  <2>2. Rows(Lines, s, Taken) = {}
    BY <1>3 DEF Rows
  <2> QED BY <1>4, <2>1, <2>2 DEF Range, Holders
<1>14. SnapInv
  BY DEF SnapInv
<1>11. EndInv
  BY DEF EndInv
<1>12. FilesInv
  BY <1>3 DEF FilesInv
<1> QED BY <1>5, <1>6, <1>7, <1>9, <1>10, <1>11, <1>12, <1>13, <1>14 DEF IInv

(* What a step leaves alone keeps the facts that are about it.             *)
LEMMA Frame ==
  ASSUME IInv, UNCHANGED tree
  PROVE  /\ Lines' = Lines
         /\ UNCHANGED <<unread, lineChan>> => QueueInv' /\ Taken' = Taken
         /\ UNCHANGED <<worker, todo, line>> => HandInv'
         /\ (Taken' = Taken /\ UNCHANGED total /\ (main' # "panicked" => main # "panicked")) => CounterInv'
         /\ (Taken' = Taken /\ UNCHANGED FileCount /\ (main' # "panicked" => main # "panicked")) => FilesInv'
         /\ (Taken' = Taken /\ UNCHANGED <<todo, line, list, raced>>
               /\ (main' # "panicked" => main # "panicked")) => ListInv' /\ TableInv'
         /\ UNCHANGED <<worker, todo, snapshot>> => SnapInv'
<1>1. Lines' = Lines
  BY DEF Lines
<1>2. UNCHANGED <<unread, lineChan>> => QueueInv' /\ Taken' = Taken
  BY <1>1 DEF IInv, QueueInv, Taken
<1>3. UNCHANGED <<worker, todo, line>> => HandInv'
  BY DEF IInv, HandInv
<1>4. (Taken' = Taken /\ UNCHANGED total /\ (main' # "panicked" => main # "panicked")) => CounterInv'
  BY <1>1 DEF IInv, CounterInv, Numbered
<1>5. (Taken' = Taken /\ UNCHANGED FileCount /\ (main' # "panicked" => main # "panicked")) => FilesInv'
  BY <1>1 DEF IInv, FilesInv
<1>6. (Taken' = Taken /\ UNCHANGED <<todo, line, list, raced>>
         /\ (main' # "panicked" => main # "panicked")) => ListInv' /\ TableInv'
  <2> SUFFICES ASSUME Taken' = Taken, UNCHANGED <<todo, line, list, raced>>,
                      main' # "panicked" => main # "panicked"
               PROVE  ListInv' /\ TableInv'
    OBVIOUS
  <2>1. ListInv'
    BY <1>1 DEF IInv, ListInv, Holders
  <2>2. TableInv'
    BY <1>1 DEF IInv, TableInv, Holders
  <2> QED BY <2>1, <2>2
<1>7. UNCHANGED <<worker, todo, snapshot>> => SnapInv'
  BY DEF IInv, SnapInv, NextList
<1> QED BY <1>1, <1>2, <1>3, <1>4, <1>5, <1>6, <1>7

(* Steps of main and of the scanner.                                       *)
LEMMA OpenStep == ASSUME IInv, Open PROVE IInv'
<1> USE DEF Open, chanVars, workerVars, resultVars
<1>1. TypeInv'
  BY DEF IInv, TypeInv, TypeOK
<1>2. QueueInv' /\ HandInv' /\ SnapInv' /\ CounterInv' /\ ListInv' /\ TableInv' /\ FilesInv'
  BY Frame
<1>3. EndInv'
  BY DEF IInv, EndInv, Readable
<1> QED BY <1>1, <1>2, <1>3 DEF IInv

(* The channel gets the next line.                                         *)
LEMMA ScanStep == ASSUME IInv, Scan PROVE IInv'
<1> USE DEF Scan, workerVars, resultVars
<1> DEFINE x == Head(unread)
<1>1. /\ unread \in Seq(LineType) /\ lineChan \in Seq(LineType) /\ unread # <<>> /\ x \in LineType
      /\ unread' = Tail(unread) /\ lineChan' = Append(lineChan, x) /\ x = unread[1]
  BY HeadTailProperties DEF IInv, TypeInv, Readable
<1>2. /\ unread' \in Seq(LineType) /\ Len(unread') = Len(unread) - 1 /\ Len(unread) \in Nat /\ Len(unread) # 0
      /\ \A i \in 1..Len(unread') : unread'[i] = unread[i + 1]
  BY <1>1, HeadTailProperties, LenProperties, EmptySeq
<1>3. /\ lineChan' \in Seq(LineType) /\ Len(lineChan') = Len(lineChan) + 1 /\ Len(lineChan) \in Nat
      /\ \A i \in 1..Len(lineChan) : lineChan'[i] = lineChan[i]
      /\ lineChan'[Len(lineChan) + 1] = x
  BY <1>1, AppendProperties, LenProperties
<1>4. Lines' = Lines /\ HandInv' /\ SnapInv' /\ Len(Lines) \in Nat
  BY Frame, TreeFacts DEF IInv, TypeInv, TypeOK
<1>5. Taken' = Taken /\ Taken \in Nat
  BY <1>2, <1>3, <1>4 DEF Taken, IInv, QueueInv
<1>6. CounterInv' /\ ListInv' /\ TableInv' /\ FilesInv'
  BY <1>5, Frame
<1>7. TypeInv'
  <2>1. Len(lineChan') <= Capacity
    <3> DEFINE n == Len(lineChan)
               m == Len(lineChan')
    <3>1. n \in Nat /\ m = n + 1 /\ n < Capacity /\ Capacity \in Nat
      BY <1>3, CapacityFacts
    <3> HIDE DEF n, m
    <3>2. m <= Capacity
      BY <3>1
    <3> QED BY <3>2 DEF m
  <2> QED BY <1>2, <1>3, <2>1 DEF IInv, TypeInv, TypeOK
<1>8. QueueInv'
  <2>1. \A i \in 1..Len(lineChan) : lineChan[i] = Lines[Taken + i]
    BY DEF IInv, QueueInv
  <2>2. \A i \in 1..Len(unread) : unread[i] = Lines[Taken + Len(lineChan) + i]
    BY DEF IInv, QueueInv
  <2>3. ASSUME NEW i \in 1..Len(lineChan') PROVE lineChan'[i] = Lines[Taken + i]
    <3>1. CASE i = Len(lineChan) + 1
      <4>1. 1 \in 1..Len(unread)
        BY <1>2
      <4>2. x = Lines[Taken + Len(lineChan) + 1]
        BY <1>1, <2>2, <4>1
      <4>3. Taken + Len(lineChan) + 1 = Taken + i
        BY <1>3, <1>5, <3>1
      <4> QED BY <1>3, <3>1, <4>2, <4>3
    <3>2. CASE i # Len(lineChan) + 1
      <4>1. i \in 1..Len(lineChan)
        BY <1>3, <3>2
      <4> QED BY <1>3, <2>1, <4>1
    <3> QED BY <3>1, <3>2
  <2>4. ASSUME NEW i \in 1..Len(unread') PROVE unread'[i] = Lines[Taken + Len(lineChan') + i]
    <3>1. i + 1 \in 1..Len(unread)
      BY <1>2
    <3>2. Taken + Len(lineChan) + (i + 1) = Taken + Len(lineChan') + i
      BY <1>3, <1>5
    <3>3. unread[i + 1] = Lines[Taken + Len(lineChan) + (i + 1)]
      BY <2>2, <3>1
    <3> QED BY <1>2, <3>2, <3>3
  <2> QED BY <1>4, <1>5, <2>3, <2>4 DEF QueueInv
<1>9. EndInv'
  BY DEF IInv, EndInv
<1> QED BY <1>4, <1>6, <1>7, <1>8, <1>9 DEF IInv

(* The channel is closed.                                                  *)
LEMMA ScanEndsStep == ASSUME IInv, ScanEnds PROVE IInv'
<1> USE DEF ScanEnds, workerVars, resultVars
<1>1. TypeInv'
  BY DEF IInv, TypeInv, TypeOK
<1>2. QueueInv' /\ HandInv' /\ SnapInv' /\ CounterInv' /\ ListInv' /\ TableInv' /\ FilesInv'
  BY Frame
<1>3. EndInv'
  BY DEF IInv, EndInv, Readable
<1> QED BY <1>1, <1>2, <1>3 DEF IInv

(* A worker takes a line: it is counted, and its files are in hand.        *)
LEMMA TakeLineStep == ASSUME IInv, NEW w \in Workers, TakeLine(w) PROVE IInv'
<1> DEFINE x == Head(lineChan)
           S == SortsOf(x)
           T == ListsOf(x)
           n == Taken
<1>1. /\ main = "waiting" /\ worker[w] = "idle" /\ lineChan # <<>>
      /\ lineChan' = Tail(lineChan)
      /\ UNCHANGED <<tree, unread, scanner, list, raced, output>>
      /\ \/ ~x.splits /\ main' = "panicked" /\ UNCHANGED <<workerVars, FileCount, total>>
         \/ /\ x.splits
            /\ FileCount' = IF x.alias = "FileCount" THEN x.count ELSE FileCount
            /\ total' = [s \in Sorts |-> IF s \in S THEN total[s] + x.count ELSE total[s]]
            /\ todo' = [todo EXCEPT ![w] = T]
            /\ line' = [line EXCEPT ![w] = IF T = {} THEN NoLine ELSE x]
            /\ worker' = [worker EXCEPT ![w] = IF T = {} THEN "idle" ELSE "append"]
            /\ UNCHANGED <<snapshot, main>>
  BY DEF TakeLine
<1>2. /\ lineChan \in Seq(LineType) /\ Len(lineChan) \in Nat /\ Len(lineChan) # 0
      /\ lineChan' \in Seq(LineType) /\ Len(lineChan') = Len(lineChan) - 1
      /\ \A i \in 1..Len(lineChan') : lineChan'[i] = lineChan[i + 1]
      /\ x = lineChan[1] /\ x \in LineType
  BY <1>1, HeadTailProperties, LenProperties, EmptySeq DEF IInv, TypeInv
<1>3. /\ unread \in Seq(LineType) /\ Len(unread) \in Nat /\ tree \in Trees
      /\ Len(Lines) \in Nat /\ Lines' = Lines
      /\ \A i \in 1..Len(Lines) : Lines[i].alias = "FileCount" <=> i = 1
      /\ Lines[1].count \in Nat /\ (~Numbered => NumberFree(tree.files))
  BY <1>1, TreeFacts, LenProperties, Frame DEF IInv, TypeInv, TypeOK
<1>4. n \in Nat /\ Taken' = n + 1 /\ n + 1 <= Len(Lines)
  BY <1>1, <1>2, <1>3 DEF Taken, IInv, QueueInv
<1>5. x = Lines[n + 1]
  BY <1>2 DEF IInv, QueueInv
<1>6. QueueInv'
  <2>1. ASSUME NEW i \in 1..Len(lineChan') PROVE lineChan'[i] = Lines[Taken' + i]
    <3>1. i + 1 \in 1..Len(lineChan) /\ n + (i + 1) = Taken' + i
      BY <1>2, <1>4
    <3>2. lineChan[i + 1] = Lines[n + (i + 1)]
      BY <3>1 DEF IInv, QueueInv
    <3> QED BY <1>2, <3>1, <3>2
  <2>2. ASSUME NEW i \in 1..Len(unread) PROVE unread[i] = Lines[Taken' + Len(lineChan') + i]
    <3>1. n + Len(lineChan) + i = Taken' + Len(lineChan') + i
      BY <1>2, <1>4
    <3>2. unread[i] = Lines[n + Len(lineChan) + i]
      BY DEF IInv, QueueInv
    <3> QED BY <3>1, <3>2
  <2>3. Taken' \in Nat
    BY <1>4
  <2> QED BY <1>1, <1>3, <2>1, <2>2, <2>3 DEF QueueInv
<1>7. /\ Len(lineChan') <= Capacity
  <2> DEFINE k == Len(lineChan)
  <2>1. k \in Nat /\ Len(lineChan') = k - 1 /\ k <= Capacity
    BY <1>2 DEF IInv, TypeInv, TypeOK
  <2> HIDE DEF k
  <2> QED BY <2>1, CapacityFacts
<1>8. EndInv'
  <2>1. \A v \in Workers : worker'[v] # "done"
    <3>1. \A v \in Workers : worker[v] # "done"
      BY <1>1 DEF IInv, EndInv
    <3>2. worker' = worker \/ \E y \in {"idle", "append"} : worker' = [worker EXCEPT ![w] = y]
      BY <1>1 DEF workerVars
    <3>3. worker \in [Workers -> {"idle", "append", "write", "done"}]
      BY DEF IInv, TypeInv, TypeOK
    <3> QED BY <3>1, <3>2, <3>3
  <2>2. main' \in {"waiting", "panicked"}
    BY <1>1
  <2>3. scanner' = scanner /\ Readable' = Readable
    BY <1>1 DEF Readable
  <2> QED BY <2>1, <2>2, <2>3 DEF IInv, EndInv
<1>9. CASE ~x.splits /\ main' = "panicked" /\ UNCHANGED <<workerVars, FileCount, total>>
  <2>1. HandInv' /\ SnapInv'
    BY <1>1, <1>9, Frame DEF workerVars
  <2>2. CounterInv' /\ ListInv' /\ TableInv' /\ FilesInv'
    BY <1>9 DEF CounterInv, ListInv, TableInv, FilesInv
  <2>3. TypeInv'
    BY <1>1, <1>2, <1>7, <1>9 DEF IInv, TypeInv, TypeOK, workerVars
  <2> QED BY <1>6, <1>8, <2>1, <2>2, <2>3 DEF IInv
<1>10. CASE /\ x.splits
            /\ FileCount' = IF x.alias = "FileCount" THEN x.count ELSE FileCount
            /\ total' = [s \in Sorts |-> IF s \in S THEN total[s] + x.count ELSE total[s]]
            /\ todo' = [todo EXCEPT ![w] = T]
            /\ line' = [line EXCEPT ![w] = IF T = {} THEN NoLine ELSE x]
            /\ worker' = [worker EXCEPT ![w] = IF T = {} THEN "idle" ELSE "append"]
            /\ UNCHANGED <<snapshot, main>>
  <2>1. /\ S \subseteq Sorts /\ T \subseteq Lists /\ (T = {} <=> S = {})
        /\ \A s \in Sorts : s \in T <=> s \in S
        /\ \A s \in DOMAIN Table : Table[s] \in T <=> s \in S
        /\ todo[w] = {} /\ x.count \in Int /\ x.files \in SUBSET Files
    <3>1. x.count \in Int /\ x.files \in SUBSET Files
      BY <1>2 DEF LineType
    <3>2. /\ S \subseteq Sorts /\ T \subseteq Lists /\ (T = {} <=> S = {})
          /\ \A s \in Sorts : s \in T <=> s \in S
          /\ \A s \in DOMAIN Table : Table[s] \in T <=> s \in S
      BY ListsOfFacts
    <3> QED BY <1>1, <3>1, <3>2 DEF IInv, HandInv
  <2>2. /\ worker \in [Workers -> {"idle", "append", "write", "done"}]
        /\ todo \in [Workers -> SUBSET Lists] /\ line \in [Workers -> LineType]
        /\ total \in [Sorts -> Int] /\ FileCount \in Nat
    BY DEF IInv, TypeInv, TypeOK
  <2>3. S # {} => x.files \subseteq tree.files
    <3>1. n + 1 \in 1..Len(Lines)
      BY <1>3, <1>4
    <3> QED BY <1>3, <1>5, <3>1, LinesFacts DEF Lines
  <2>4. \A s \in Sorts :
           /\ s \notin S => Counted(Lines, s, n + 1) = Counted(Lines, s, n)
           /\ s \in S => /\ Counted(Lines, s, n + 1) = Counted(Lines, s, n) \cup x.files
                         /\ Counted(Lines, s, n) \cap x.files = {}
                         /\ ~Numbered => Copies(Counted(Lines, s, n + 1)) =
                                            Copies(Counted(Lines, s, n)) + x.count
    <3>1. n < Len(Lines) /\ n <= Len(Lines)
      BY <1>3, <1>4
    <3> HIDE DEF x, S, T, n
    <3> SUFFICES ASSUME NEW s \in Sorts
                 PROVE  /\ s \notin S => Counted(Lines, s, n + 1) = Counted(Lines, s, n)
                        /\ s \in S =>
                             /\ Counted(Lines, s, n + 1) = Counted(Lines, s, n) \cup x.files
                             /\ Counted(Lines, s, n) \cap x.files = {}
                             /\ ~Numbered => Copies(Counted(Lines, s, n + 1)) =
                                                Copies(Counted(Lines, s, n)) + x.count
      OBVIOUS
    <3>2. S = SortsOf(Lines[n + 1])
      BY <1>5 DEF S
    <3>3. /\ s \notin SortsOf(Lines[n + 1]) => Counted(Lines, s, n + 1) = Counted(Lines, s, n)
          /\ s \in SortsOf(Lines[n + 1]) =>
               /\ Counted(Lines, s, n + 1) = Counted(Lines, s, n) \cup Lines[n + 1].files
               /\ Counted(Lines, s, n) \cap Lines[n + 1].files = {}
               /\ NumberFree(tree.files) =>
                    Copies(Counted(Lines, s, n + 1)) = Copies(Counted(Lines, s, n)) + Lines[n + 1].count
      BY <1>3, <1>4, <3>1, CountedFacts DEF Lines
    <3> QED BY <1>3, <1>5, <3>2, <3>3
  <2> HIDE DEF S, T, n, x
  <2>5. NoLine \in LineType
    BY NoLineType
  <2>6. TypeInv'
    <3>1. /\ worker' \in [Workers -> {"idle", "append", "write", "done"}]
          /\ todo' \in [Workers -> SUBSET Lists]
      BY <1>10, <2>1, <2>2
    <3>2. line' \in [Workers -> LineType]
      BY <1>2, <1>10, <2>2, <2>5
    <3>3. total' \in [Sorts -> Int] /\ FileCount' \in Nat
      <4>1. x.alias = "FileCount" => x.count \in Nat
        <5>1. n + 1 \in 1..Len(Lines)
          BY <1>3, <1>4
        <5>2. x.alias = "FileCount" => n + 1 = 1
          BY <1>3, <1>5, <5>1
        <5> QED BY <1>3, <1>5, <5>2
      <4>2. FileCount' \in Nat
        BY <1>10, <2>2, <4>1
      <4>3. total' \in [Sorts -> Int]
        BY <1>10, <2>1, <2>2
      <4> QED BY <4>2, <4>3
    <3> QED BY <1>1, <1>2, <1>7, <1>10, <3>1, <3>2, <3>3 DEF IInv, TypeInv, TypeOK
  <2>7. HandInv'
    <3> SUFFICES ASSUME NEW v \in Workers
                 PROVE  /\ worker'[v] \in {"append", "write"} <=> todo'[v] # {}
                        /\ todo'[v] # {} => line'[v].files \subseteq tree.files
      BY <1>1 DEF HandInv
    <3>1. CASE v = w
      BY <1>10, <2>1, <2>2, <2>3, <3>1
    <3>2. CASE v # w
      BY <1>10, <2>2, <3>2 DEF IInv, HandInv
    <3> QED BY <3>1, <3>2
  <2>8. CounterInv'
    <3> SUFFICES ASSUME ~Numbered, NEW s \in Sorts PROVE total'[s] = Copies(Counted(Lines, s, n + 1))
      BY <1>1, <1>3, <1>4 DEF CounterInv, Numbered
    <3>1. total[s] = Copies(Counted(Lines, s, n))
      BY <1>1 DEF IInv, CounterInv, n
    <3> QED BY <1>10, <2>4, <3>1
  <2>9. FilesInv'
    <3>1. FileCount = (IF n = 0 THEN 0 ELSE Lines[1].count) /\ (n > 0 => Lines[1].splits)
      BY <1>1 DEF IInv, FilesInv, n
    <3>2. n + 1 \in 1..Len(Lines)
      BY <1>3, <1>4
    <3>3. x.alias = "FileCount" <=> n = 0
      BY <1>3, <1>4, <1>5, <3>2
    <3>4. n = 0 => x = Lines[1]
      BY <1>5
    <3>5. FileCount' = Lines[1].count /\ Lines[1].splits
      BY <1>4, <1>10, <3>1, <3>3, <3>4
    <3> QED BY <1>3, <1>4, <3>5 DEF FilesInv
  <2>10. ListInv'
    <3> SUFFICES ASSUME NEW s \in Sorts \ raced
                 PROVE  /\ IsInjective(list[s])
                        /\ Range(list[s]) \cup UNION {line'[v].files : v \in Holders(s)'}
                             = Counted(Lines, s, n + 1)
                        /\ \A v \in Holders(s)' : line'[v].files \cap Range(list[s]) = {}
                        /\ \A u, v \in Holders(s)' : u # v => line'[u].files \cap line'[v].files = {}
      BY <1>1, <1>3, <1>4 DEF ListInv
    <3> DEFINE H == Holders(s)
               R == Range(list[s])
               C == Counted(Lines, s, n)
    <3>1. /\ IsInjective(list[s])
          /\ R \cup UNION {line[v].files : v \in H} = C
          /\ \A v \in H : line[v].files \cap R = {}
          /\ \A u, v \in H : u # v => line[u].files \cap line[v].files = {}
      BY <1>1 DEF IInv, ListInv, n
    <3>2. w \notin H /\ H \subseteq Workers /\ \A v \in H : line'[v] = line[v]
      BY <1>10, <2>1, <2>2 DEF Holders
    <3>3. CASE s \notin S
      <4>1. Holders(s)' = H
        BY <1>10, <2>1, <2>2, <3>3 DEF Holders
      <4> HIDE DEF H, R, C
      <4>2. {line'[v].files : v \in H} = {line[v].files : v \in H}
        BY <3>2
      <4> QED BY <2>4, <3>1, <3>2, <3>3, <4>1, <4>2 DEF R, C
    <3>4. CASE s \in S
      <4>1. Holders(s)' = H \cup {w} /\ line'[w] = x
        BY <1>10, <2>1, <2>2, <3>4 DEF Holders
      <4>2. C \cap x.files = {} /\ Counted(Lines, s, n + 1) = C \cup x.files
        BY <2>4, <3>4
      <4> HIDE DEF H, R, C
      <4>3. {line'[v].files : v \in H \cup {w}} = {line[v].files : v \in H} \cup {x.files}
        BY <3>2, <4>1
      <4>4. R \cup UNION {line'[v].files : v \in H \cup {w}} = C \cup x.files
        BY <3>1, <4>3
      <4>5. \A v \in H : line[v].files \subseteq C
        BY <3>1
      <4>6. R \subseteq C
        BY <3>1
      <4>7. \A v \in H \cup {w} : line'[v].files \cap R = {}
        BY <3>1, <3>2, <4>1, <4>2, <4>6
      <4>8. \A u, v \in H \cup {w} : u # v => line'[u].files \cap line'[v].files = {}
        BY <3>1, <3>2, <4>1, <4>2, <4>5
      <4> QED BY <3>1, <4>1, <4>2, <4>4, <4>7, <4>8 DEF R
    <3> QED BY <3>3, <3>4
  <2>11. TableInv'
    <3> SUFFICES ASSUME NEW s \in DOMAIN Table, Table[s] \notin raced
                 PROVE  /\ list[Table[s]] \in Seq(LineType)
                        /\ Range(list[Table[s]]) \cup {line'[v] : v \in Holders(Table[s])'}
                             = Rows(Lines, s, n + 1)
      BY <1>1, <1>3, <1>4 DEF TableInv
    <3> DEFINE H == Holders(Table[s])
               R == Range(list[Table[s]])
               C == Rows(Lines, s, n)
    <3>1. /\ list[Table[s]] \in Seq(LineType)
          /\ R \cup {line[v] : v \in H} = C
      BY <1>1 DEF IInv, TableInv, n
    <3>2. w \notin H /\ H \subseteq Workers /\ \A v \in H : line'[v] = line[v]
      BY <1>10, <2>1, <2>2 DEF Holders
    <3>3. /\ s \in S => Rows(Lines, s, n + 1) = C \cup {x}
          /\ s \notin S => Rows(Lines, s, n + 1) = C
      BY <1>4, <1>5, RowsFacts DEF S
    <3>4. CASE s \notin S
      <4>1. Holders(Table[s])' = H
        BY <1>10, <2>1, <2>2, <3>4 DEF Holders
      <4> HIDE DEF H, R, C
      <4>2. {line'[v] : v \in H} = {line[v] : v \in H}
        BY <3>2
      <4> QED BY <3>1, <3>3, <3>4, <4>1, <4>2 DEF R
    <3>5. CASE s \in S
      <4>1. Holders(Table[s])' = H \cup {w} /\ line'[w] = x
        BY <1>10, <2>1, <2>2, <3>5 DEF Holders
      <4> HIDE DEF H, R, C
      <4>2. {line'[v] : v \in H \cup {w}} = {line[v] : v \in H} \cup {x}
        BY <3>2, <4>1
      <4> QED BY <3>1, <3>3, <3>5, <4>1, <4>2 DEF R
    <3> QED BY <3>4, <3>5
  <2>12. SnapInv'
    <3>1. worker'[w] # "write" /\ \A v \in Workers : v # w =>
             worker'[v] = worker[v] /\ todo'[v] = todo[v]
      BY <1>10, <2>2
    <3>2. snapshot' = snapshot
      BY <1>10
    <3> QED BY <3>1, <3>2 DEF IInv, SnapInv, NextList
  <2> QED BY <1>6, <1>8, <2>6, <2>7, <2>8, <2>9, <2>10, <2>11, <2>12 DEF IInv
<1> QED BY <1>1, <1>9, <1>10

(* Sequences without repetitions that have nothing in common.              *)
LEMMA InjectiveConcat ==
  ASSUME NEW T, NEW a \in Seq(T), NEW b \in Seq(T), IsInjective(a), IsInjective(b),
         Range(a) \cap Range(b) = {}
  PROVE  IsInjective(a \o b)
<1> DEFINE R == {p \in T \X T : p[1] # p[2]}
<1>1. \A s \in Seq(T) : DOMAIN s = 1..Len(s) /\ \A i \in 1..Len(s) : s[i] \in T
  BY LenProperties, ElementOfSeq
<1>2. \A s \in Seq(T) : Range(s) \subseteq T
  BY <1>1 DEF Range
<1>3. \A s \in Seq(T) : IsInjective(s) <=> Pairwise(s, R)
  BY <1>1 DEF IsInjective, Pairwise
<1>4. \A x \in Range(a), y \in Range(b) : <<x, y>> \in R /\ <<y, x>> \in R
  BY <1>2
<1> HIDE DEF R
<1>5. a \o b \in Seq(T) /\ Pairwise(a \o b, R)
  BY <1>3, <1>4, ConcatFacts
<1> QED BY <1>3, <1>5

(* A sequence without repetitions is as long as what it holds.             *)
LEMMA InjectiveLength ==
  ASSUME NEW T, NEW s \in Seq(T), IsInjective(s)
  PROVE  IsFiniteSet(Range(s)) /\ Cardinality(Range(s)) = Len(s)
<1>1. Len(s) \in Nat /\ DOMAIN s = 1..Len(s)
  BY LenProperties
<1>2. IsFiniteSet(1..Len(s)) /\ Cardinality(1..Len(s)) = Len(s)
  BY <1>1, FS_Interval
<1>3. s \in Bijection(1..Len(s), Range(s))
  <2>1. s = [i \in 1..Len(s) |-> s[i]]
    BY <1>1
  <2>2. \A i, j \in 1..Len(s) : s[i] = s[j] => i = j
    BY <1>1 DEF IsInjective
  <2>3. \A i \in 1..Len(s) : s[i] \in Range(s)
    BY <1>1 DEF Range
  <2>4. \A x \in Range(s) : \E i \in 1..Len(s) : s[i] = x
    BY <1>1 DEF Range
  <2> QED BY <2>1, <2>2, <2>3, <2>4 DEF Bijection, Injection, Surjection, IsInjective
<1>4. ExistsBijection(1..Len(s), Range(s))
  BY <1>3 DEF ExistsBijection
<1> QED BY <1>2, <1>4, FS_Bijection

(* A worker reads the list it will append to.                              *)
LEMMA ReadListStep == ASSUME IInv, NEW w \in Workers, ReadList(w) PROVE IInv'
<1> USE DEF ReadList, chanVars, resultVars
<1>1. todo[w] # {}
  BY DEF IInv, HandInv
<1>2. TypeInv'
  BY <1>1 DEF IInv, TypeInv, TypeOK
<1>3. QueueInv' /\ CounterInv' /\ ListInv' /\ TableInv' /\ FilesInv'
  BY Frame
<1>4. worker \in [Workers -> {"idle", "append", "write", "done"}]
  BY DEF IInv, TypeInv, TypeOK
<1>5. HandInv'
  BY <1>1, <1>4 DEF IInv, HandInv
<1>6. EndInv'
  <2>1. \A v \in Workers : worker'[v] = "done" => worker[v] = "done"
    BY <1>4
  <2> QED BY <2>1 DEF IInv, EndInv, Readable
<1>7. SnapInv'
  <2>1. \A v \in Workers : NextList(v)' = NextList(v)
    BY DEF NextList
  <2>2. \A s \in Sorts : list[s] \in Seq(Files \cup {Garbage})
    BY DEF IInv, TypeInv, TypeOK
  <2>3. DOMAIN snapshot = Workers
    BY DEF IInv, SnapInv
  <2>4. /\ DOMAIN snapshot' = Workers /\ snapshot'[w] = list[NextList(w)]
        /\ \A v \in Workers : v # w => snapshot'[v] = snapshot[v] /\ worker'[v] = worker[v]
    BY <1>4, <2>3
  <2> SUFFICES ASSUME NEW v \in Workers, worker'[v] = "write", NextList(v) \in Sorts
               PROVE  snapshot'[v] \in Seq(Files \cup {Garbage})
    BY <2>1, <2>4 DEF SnapInv
  <2>5. CASE v = w
    BY <2>2, <2>4, <2>5
  <2>6. CASE v # w
    BY <2>4, <2>6 DEF IInv, SnapInv
  <2> QED BY <2>5, <2>6
<1> QED BY <1>2, <1>3, <1>5, <1>6, <1>7 DEF IInv

(* A worker writes the list with what its line adds to it.                 *)
LEMMA WriteListStep == ASSUME IInv, NEW w \in Workers, WriteList(w) PROVE IInv'
<1> DEFINE s == NextList(w)
           race == Appending(s) # {w} \/ list[s] # snapshot[w]
           rest == todo[w] \ {s}
           F == line[w].files
           e == ItemsFor(s, line[w])
           T == Files \cup {Garbage}
<1>1. /\ main = "waiting" /\ worker[w] = "write"
      /\ UNCHANGED <<tree, chanVars, FileCount, total, main, output>>
  BY DEF WriteList
<1>2. PICK new \in {snapshot[w] \o e} \cup IF race THEN {Append(list[s], Garbage)} ELSE {} :
         /\ list' = [list EXCEPT ![s] = new]
         /\ raced' = IF race THEN raced \cup {s} ELSE raced
         /\ todo' = [todo EXCEPT ![w] = rest]
         /\ worker' = [worker EXCEPT ![w] = IF rest = {} THEN "idle" ELSE "append"]
         /\ line' = [line EXCEPT ![w] = IF rest = {} THEN NoLine ELSE @]
         /\ snapshot' = [snapshot EXCEPT ![w] = <<>>]
  BY DEF WriteList
<1>3. /\ worker \in [Workers -> {"idle", "append", "write", "done"}]
      /\ todo \in [Workers -> SUBSET Lists] /\ line \in [Workers -> LineType]
      /\ DOMAIN list = Lists /\ (\A r \in Sorts : list[r] \in Seq(T))
      /\ DOMAIN snapshot = Workers /\ raced \subseteq Lists
      /\ tree \in Trees
  BY DEF IInv, TypeInv, TypeOK, SnapInv
<1>4. s \in todo[w] /\ s \in Lists /\ F \subseteq tree.files
  <2>1. todo[w] # {} /\ todo[w] \subseteq Lists /\ F \subseteq tree.files
    BY <1>1, <1>3 DEF IInv, HandInv
  <2> QED BY <2>1, NextListFacts
<1>5. tree.files \subseteq Files /\ IsFiniteSet(tree.files)
  BY <1>3, TreeFacts
<1>6. s \in Sorts => e \in Seq(F) /\ Range(e) = F /\ IsInjective(e)
  <2>1. IsFiniteSet(F)
    BY <1>4, <1>5, FS_Subset
  <2>2. s \in Sorts => e = SetToSeq(F)
    BY DEF ItemsFor
  <2> HIDE DEF F, e
  <2> QED BY <2>1, <2>2, EnumFacts
<1>7. s \in Sorts => e \in Seq(T) /\ new \in Seq(T)
  <2>1. F \subseteq T /\ Garbage \in T
    BY <1>4, <1>5
  <2> SUFFICES ASSUME s \in Sorts PROVE e \in Seq(T) /\ new \in Seq(T)
    OBVIOUS
  <2>5. snapshot[w] \in Seq(T)
    BY <1>1 DEF IInv, SnapInv
  <2> HIDE DEF F, T, e
  <2>2. e \in Seq(T)
    BY <1>6, <2>1
  <2>3. snapshot[w] \o e \in Seq(T)
    BY <2>2, <2>5, ConcatProperties
  <2>4. Append(list[s], Garbage) \in Seq(T)
    BY <1>3, <1>4, <2>1, AppendProperties
  <2> QED BY <1>2, <2>2, <2>3, <2>4
<1>8. Lines' = Lines /\ QueueInv' /\ Taken' = Taken /\ CounterInv' /\ FilesInv'
  BY <1>1, Frame DEF chanVars
<1>14. s \notin Sorts => e = <<line[w]>>
  BY DEF ItemsFor
<1>15. SnapInv'
  <2>1. \A v \in Workers : v # w =>
           worker'[v] = worker[v] /\ todo'[v] = todo[v] /\ snapshot'[v] = snapshot[v]
    BY <1>2, <1>3
  <2>2. worker'[w] # "write" /\ DOMAIN snapshot' = Workers
    BY <1>2, <1>3
  <2> QED BY <2>1, <2>2 DEF IInv, SnapInv, NextList
<1> HIDE DEF s, race, F, e
<1>9. TypeInv'
  <2>2. DOMAIN list' = Lists /\ (\A r \in Sorts : list'[r] \in Seq(T)) /\ raced' \subseteq Lists
    BY <1>2, <1>3, <1>4, <1>7
  <2>3. todo' \in [Workers -> SUBSET Lists] /\ line' \in [Workers -> LineType]
    BY <1>2, <1>3, NoLineType
  <2>4. worker' \in [Workers -> {"idle", "append", "write", "done"}]
    BY <1>2, <1>3
  <2> QED BY <1>1, <2>2, <2>3, <2>4 DEF IInv, TypeInv, TypeOK, chanVars
<1>10. HandInv'
  <2> SUFFICES ASSUME NEW v \in Workers
               PROVE  /\ worker'[v] \in {"append", "write"} <=> todo'[v] # {}
                      /\ todo'[v] # {} => line'[v].files \subseteq tree.files
    BY <1>1 DEF HandInv
  <2>1. CASE v = w
    <3>1. todo'[w] = rest /\ worker'[w] = (IF rest = {} THEN "idle" ELSE "append")
          /\ (rest # {} => line'[w] = line[w])
      BY <1>2, <1>3
    <3> QED BY <1>4, <2>1, <3>1 DEF F
  <2>2. CASE v # w
    <3>1. todo'[v] = todo[v] /\ worker'[v] = worker[v] /\ line'[v] = line[v]
      BY <1>2, <1>3, <2>2
    <3> QED BY <3>1 DEF IInv, HandInv
  <2> QED BY <2>1, <2>2
<1>11. EndInv'
  <2>1. \A v \in Workers : worker'[v] = "done" => worker[v] = "done"
    BY <1>2, <1>3
  <2> QED BY <1>1, <2>1 DEF IInv, EndInv, Readable, chanVars
<1>12. ListInv'
  <2> SUFFICES ASSUME NEW r \in Sorts \ raced'
               PROVE  /\ IsInjective(list'[r])
                      /\ Range(list'[r]) \cup UNION {line'[v].files : v \in Holders(r)'}
                           = Counted(Lines, r, Taken)
                      /\ \A v \in Holders(r)' : line'[v].files \cap Range(list'[r]) = {}
                      /\ \A u, v \in Holders(r)' : u # v => line'[u].files \cap line'[v].files = {}
    BY <1>8 DEF ListInv
  <2> DEFINE H == Holders(r)
  <2>1. /\ r \in Sorts \ raced
        /\ IsInjective(list[r])
        /\ Range(list[r]) \cup UNION {line[v].files : v \in H} = Counted(Lines, r, Taken)
        /\ \A v \in H : line[v].files \cap Range(list[r]) = {}
        /\ \A u, v \in H : u # v => line[u].files \cap line[v].files = {}
    BY <1>1, <1>2 DEF IInv, ListInv
  <2>2. CASE r # s
    <3>1. Holders(r)' = H
      BY <1>2, <1>3, <2>2 DEF Holders
    <3>2. \A v \in H : line'[v] = line[v]
      BY <1>2, <1>3, <2>2 DEF Holders
    <3>3. list'[r] = list[r]
      BY <1>2, <1>3, <2>1, <2>2
    <3> HIDE DEF H
    <3>4. {line'[v].files : v \in H} = {line[v].files : v \in H}
      BY <3>2
    <3> QED BY <2>1, <3>1, <3>2, <3>3, <3>4
  <2>3. CASE r = s
    <3>1. ~race /\ list'[r] = list[r] \o e
      <4>1. ~race
        BY <1>2, <2>3
      <4>2. list[s] = snapshot[w] /\ new = snapshot[w] \o e
        BY <1>2, <4>1 DEF race
      <4> QED BY <1>2, <1>3, <1>4, <2>3, <4>1, <4>2
    <3>2. w \in H /\ Holders(r)' = H \ {w}
      BY <1>2, <1>3, <1>4, <2>3 DEF Holders
    <3>3. \A v \in H \ {w} : line'[v] = line[v]
      BY <1>2, <1>3 DEF Holders
    <3> DEFINE l == list[r]
               m == list'[r]
    <3>10. e \in Seq(T) /\ Range(e) = F /\ IsInjective(e)
      BY <1>6, <1>7, <2>1, <2>3
    <3>4. l \in Seq(T) /\ m = l \o e /\ IsInjective(l) /\ Range(l) \cap F = {}
      BY <1>3, <2>1, <3>1, <3>2 DEF F
    <3> HIDE DEF H, l, m, T
    <3>5. IsInjective(m) /\ Range(m) = Range(l) \cup F
      <4>1. Range(e) = F /\ IsInjective(e) /\ e \in Seq(T)
        BY <3>10
      <4>2. IsInjective(l \o e)
        BY <3>4, <4>1, InjectiveConcat
      <4>3. Range(l \o e) = Range(l) \cup Range(e)
        BY <3>4, <4>1, ConcatFacts
      <4> QED BY <3>4, <4>1, <4>2, <4>3
    <3>6. {line[v].files : v \in H} = {line'[v].files : v \in H \ {w}} \cup {F}
      BY <3>2, <3>3 DEF F
    <3>7. \A v \in H \ {w} : line'[v].files \cap F = {}
      BY <2>1, <3>2, <3>3 DEF F
    <3>8. \A v \in H \ {w} : line'[v].files \cap Range(l) = {}
      BY <2>1, <3>3 DEF l
    <3>9. Range(m) \cup UNION {line'[v].files : v \in H \ {w}} = Counted(Lines, r, Taken)
      BY <2>1, <3>5, <3>6 DEF l
    <3> QED BY <2>1, <3>2, <3>3, <3>5, <3>7, <3>8, <3>9 DEF m
  <2> QED BY <2>2, <2>3
<1>13. TableInv'
  <2> SUFFICES ASSUME NEW d \in DOMAIN Table, Table[d] \notin raced'
               PROVE  /\ list'[Table[d]] \in Seq(LineType)
                      /\ Range(list'[Table[d]]) \cup {line'[v] : v \in Holders(Table[d])'}
                           = Rows(Lines, d, Taken)
    BY <1>1, <1>8 DEF TableInv
  <2> DEFINE r == Table[d]
             H == Holders(r)
  <2>1. /\ r \notin raced
        /\ list[r] \in Seq(LineType)
        /\ Range(list[r]) \cup {line[v] : v \in H} = Rows(Lines, d, Taken)
    BY <1>1, <1>2 DEF IInv, TableInv
  <2>2. r \in Lists /\ r \notin Sorts
    BY TableFacts
  <2>3. \A v \in H : v \in Workers /\ (v # w => line'[v] = line[v])
    BY <1>2, <1>3 DEF Holders
  <2>4. CASE r # s
    <3>1. Holders(r)' = H
      BY <1>2, <1>3, <2>4 DEF Holders
    <3>2. \A v \in H : line'[v] = line[v]
      BY <1>2, <1>3, <2>4 DEF Holders
    <3>3. list'[r] = list[r]
      BY <1>2, <1>3, <2>2, <2>4
    <3> HIDE DEF H
    <3>4. {line'[v] : v \in H} = {line[v] : v \in H}
      BY <3>2
    <3> QED BY <2>1, <3>1, <3>3, <3>4
  <2>5. CASE r = s
    <3>1. list'[r] = list[r] \o <<line[w]>>
      <4>1. ~race
        BY <1>2, <2>5
      <4>2. list[s] = snapshot[w] /\ new = snapshot[w] \o e
        BY <1>2, <4>1 DEF race
      <4>3. e = <<line[w]>>
        BY <1>14, <2>2, <2>5
      <4> QED BY <1>2, <1>3, <2>2, <2>5, <4>2, <4>3
    <3>2. w \in H /\ Holders(r)' = H \ {w}
      BY <1>2, <1>3, <1>4, <2>5 DEF Holders
    <3> DEFINE l == list[r]
               m == list'[r]
               x == line[w]
               o == <<x>>
    <3>3. l \in Seq(LineType) /\ m = l \o o /\ x \in LineType
      BY <1>3, <2>1, <3>1
    <3>4. o \in Seq(LineType) /\ Range(o) = {x}
      BY <3>3, OneLine
    <3> HIDE DEF H, l, m, x, o
    <3>5. m \in Seq(LineType) /\ Range(m) = Range(l) \cup {x}
      <4>1. l \o o \in Seq(LineType)
        BY <3>3, <3>4, ConcatProperties
      <4>2. Range(l \o o) = Range(l) \cup Range(o)
        <5>1. \A p, q \in Seq(LineType) : Range(p \o q) = Range(p) \cup Range(q)
          BY ConcatFacts
        <5> QED BY <3>3, <3>4, <5>1
      <4> QED BY <3>3, <3>4, <4>1, <4>2
    <3>6. {line[v] : v \in H} = {line'[v] : v \in H \ {w}} \cup {x}
      BY <2>3, <3>2 DEF x
    <3> QED BY <2>1, <3>2, <3>5, <3>6 DEF l, m
  <2> QED BY <2>4, <2>5
<1> QED BY <1>8, <1>9, <1>10, <1>11, <1>12, <1>13, <1>15 DEF IInv

(* A worker ends when the channel is closed and empty.                     *)
LEMMA WorkerDoneStep == ASSUME IInv, NEW w \in Workers, WorkerDone(w) PROVE IInv'
<1> USE DEF WorkerDone, chanVars, resultVars
<1>1. worker \in [Workers -> {"idle", "append", "write", "done"}]
  BY DEF IInv, TypeInv, TypeOK
<1>2. TypeInv'
  BY <1>1 DEF IInv, TypeInv, TypeOK
<1>3. QueueInv' /\ CounterInv' /\ ListInv' /\ TableInv' /\ FilesInv'
  BY Frame
<1>4. HandInv' /\ SnapInv'
  <2>1. HandInv'
    BY <1>1 DEF IInv, HandInv
  <2>2. SnapInv'
    BY <1>1 DEF IInv, SnapInv, NextList
  <2> QED BY <2>1, <2>2
<1>5. EndInv'
  BY <1>1 DEF IInv, EndInv, Readable
<1> QED BY <1>2, <1>3, <1>4, <1>5 DEF IInv

(* What was taken is of the tree.                                          *)
LEMMA CountedFiles ==
  ASSUME IInv, NEW s \in Sorts
  PROVE  /\ Taken \in Nat /\ Taken <= Len(Lines)
         /\ Counted(Lines, s, Taken) \subseteq tree.files /\ Counted(Lines, s, Taken) \subseteq Files
<1>1. tree \in Trees /\ unread \in Seq(LineType) /\ lineChan \in Seq(LineType)
  BY DEF IInv, TypeInv, TypeOK
<1>2. /\ Len(Lines) \in Nat /\ tree.files \subseteq Files
      /\ \A r \in Sorts, n \in Nat : n <= Len(Lines) => Counted(Lines, r, n) \subseteq tree.files
  BY <1>1, TreeFacts
<1>3. Taken \in Nat
  BY DEF IInv, QueueInv
<1>4. Len(unread) \in Nat /\ Len(lineChan) \in Nat
  BY <1>1, LenProperties
<1>5. Taken <= Len(Lines)
  BY <1>2, <1>4 DEF Taken
<1> QED BY <1>2, <1>3, <1>5

(* The result; only a torn list ends the process instead.                  *)
LEMMA PrintReportStep == ASSUME IInv, PrintReport PROVE IInv'
<1> USE DEF PrintReport, chanVars, workerVars, resultVars
<1>1. main = "waiting" /\ main' \in {"printed", "crashed"} /\ UNCHANGED <<tree, chanVars, workerVars, resultVars>>
  OBVIOUS
<1>2. TypeInv'
  BY <1>1 DEF IInv, TypeInv, TypeOK
<1>3. QueueInv' /\ HandInv' /\ SnapInv' /\ CounterInv' /\ ListInv' /\ TableInv' /\ FilesInv'
  BY <1>1, Frame
<1>4. main' = "crashed" => raced # {}
  <2> SUFFICES ASSUME main' = "crashed" PROVE raced # {}
    OBVIOUS
  <2>1. PICK s \in Lists : Garbage \in Range(list[s])
    BY <1>1
  <2>2. CASE s \in Sorts
    <3>1. Counted(Lines, s, Taken) \subseteq Files
      BY <2>2, CountedFiles
    <3>2. Garbage \notin Files
      BY ReportAssumption
    <3> QED BY <1>1, <2>1, <2>2, <3>1, <3>2 DEF IInv, ListInv
  <2>3. CASE s \notin Sorts
    <3>1. PICK d \in DOMAIN Table : s = Table[d]
      BY <2>3, TableFacts
    <3>2. d \in Sorts /\ tree \in Trees
      BY TableFacts DEF IInv, TypeInv, TypeOK
    <3>3. Taken \in Nat /\ Taken <= Len(Lines)
      BY <3>2, CountedFiles
    <3>4. /\ Garbage \notin Range(Lines) /\ Len(Lines) \in Nat /\ DOMAIN Lines = 1..Len(Lines)
      BY <3>2, TreeFacts, LenProperties
    <3>5. Rows(Lines, d, Taken) \subseteq Range(Lines)
      BY <3>3, <3>4 DEF Rows, Range
    <3> QED BY <1>1, <2>1, <3>1, <3>4, <3>5 DEF IInv, TableInv
  <2> QED BY <2>2, <2>3
<1>5. EndInv'
  BY <1>1, <1>4 DEF IInv, EndInv, Readable
<1> QED BY <1>2, <1>3, <1>5 DEF IInv

(* IInv holds in every state of a run of frs -report.                      *)
THEOREM Invariance == Spec => []IInv
<1>1. Init => IInv
  BY InitFacts
<1>2. IInv /\ [Next]_vars => IInv'
  <2> SUFFICES ASSUME IInv, [Next]_vars PROVE IInv'
    OBVIOUS
  <2>1. CASE Open
    BY <2>1, OpenStep
  <2>2. CASE Scan
    BY <2>2, ScanStep
  <2>3. CASE ScanEnds
    BY <2>3, ScanEndsStep
  <2>4. CASE PrintReport
    BY <2>4, PrintReportStep
  <2>5. ASSUME NEW w \in Workers, Worker(w) PROVE IInv'
    BY <2>5, TakeLineStep, ReadListStep, WriteListStep, WorkerDoneStep DEF Worker
  <2>6. CASE UNCHANGED vars
    <3> USE <2>6 DEF vars, chanVars, workerVars, resultVars
    <3>1. TypeInv'
      BY DEF IInv, TypeInv, TypeOK
    <3>2. QueueInv' /\ HandInv' /\ SnapInv' /\ CounterInv' /\ ListInv' /\ TableInv' /\ FilesInv'
      BY Frame
    <3>3. EndInv'
      BY DEF IInv, EndInv, Readable
    <3> QED BY <3>1, <3>2, <3>3 DEF IInv
  <2> QED BY <2>1, <2>2, <2>3, <2>4, <2>5, <2>6 DEF Next, Terminated
<1> QED BY <1>1, <1>2, PTL DEF Spec

(* The variables of frs -report keep their types: the channel never holds  *)
(* more than it has room for, and a list of files is one.                  *)
THEOREM TypeCorrect == Spec => []TypeOK
<1>1. IInv => TypeOK
  BY DEF IInv, TypeInv
<1> QED BY <1>1, Invariance, PTL

(* When the workers are done, a list that was not raced holds the files    *)
(* counted, each once.                                                     *)
LEMMA DoneLists ==
  ASSUME IInv, main \in {"printed", "crashed"}, NEW s \in Sorts
  PROVE  /\ ~Numbered => total[s] = Copies(Counted(Lines, s, Taken))
         /\ s \notin raced => /\ IsInjective(list[s])
                              /\ Range(list[s]) = Counted(Lines, s, Taken)
         /\ s \in DOMAIN Table /\ Table[s] \notin raced =>
               UNION {x.files : x \in Range(list[Table[s]])} = Counted(Lines, s, Taken)
<1>1. main # "panicked" /\ \A w \in Workers : worker[w] = "done"
  BY DEF IInv, EndInv
<1>2. \A w \in Workers : todo[w] = {}
  BY <1>1 DEF IInv, HandInv
<1>3. Holders(s) = {}
  BY <1>2 DEF Holders
<1>4. UNION {line[w].files : w \in Holders(s)} = {}
  BY <1>3
<1>5. ~Numbered => total[s] = Copies(Counted(Lines, s, Taken))
  BY <1>1 DEF IInv, CounterInv
<1>6. ASSUME s \notin raced
      PROVE  IsInjective(list[s]) /\ Range(list[s]) = Counted(Lines, s, Taken)
  BY <1>1, <1>4, <1>6 DEF IInv, ListInv
<1>7. ASSUME s \in DOMAIN Table, Table[s] \notin raced
      PROVE  UNION {x.files : x \in Range(list[Table[s]])} = Counted(Lines, s, Taken)
  <2>1. Holders(Table[s]) = {}
    BY <1>2 DEF Holders
  <2>2. {line[w] : w \in Holders(Table[s])} = {}
    BY <2>1
  <2>3. Range(list[Table[s]]) = Rows(Lines, s, Taken)
    BY <1>1, <1>7, <2>2 DEF IInv, TableInv
  <2>4. Taken \in Nat
    BY CountedFiles
  <2> QED BY <2>3, <2>4, RowsFacts
<1> QED BY <1>5, <1>6, <1>7

(* frs -report: a list that no two goroutines appended to at once holds    *)
(* each file of its counter once, a table the lines that are about its     *)
(* counter, and only a race ends the process.                              *)
THEOREM ListsAreRight == Spec => []ListsAgree
<1>1. IInv => ListsAgree
  <2> SUFFICES ASSUME IInv PROVE ListsAgree
    OBVIOUS
  <2>1. ASSUME main \in {"printed", "crashed"}, NEW s \in Sorts \ raced
        PROVE  /\ Numbered \/ Copies(Range(list[s])) = total[s]
               /\ Cardinality(Range(list[s])) = Len(list[s])
    <3>1. s \in Sorts
      OBVIOUS
    <3>2. Range(list[s]) = Counted(Lines, s, Taken)
          /\ (~Numbered => total[s] = Copies(Counted(Lines, s, Taken)))
          /\ IsInjective(list[s])
      BY <2>1, <3>1, DoneLists
    <3>3. list[s] \in Seq(Files \cup {Garbage})
      BY <3>1 DEF IInv, TypeInv, TypeOK
    <3>4. Cardinality(Range(list[s])) = Len(list[s])
      BY <3>2, <3>3, InjectiveLength
    <3> QED BY <3>2, <3>4
  <2>2. main = "crashed" => raced # {}
    BY DEF IInv, EndInv
  <2>3. ASSUME main \in {"printed", "crashed"}, NEW s \in DOMAIN Table
        PROVE  Table[s] \in raced \/ Numbered
               \/ Copies(UNION {l.files : l \in Range(list[Table[s]])}) = total[s]
    <3>1. s \in Sorts
      BY TableFacts
    <3> QED BY <2>3, <3>1, DoneLists
  <2> QED BY <2>1, <2>2, <2>3 DEF ListsAgree
<1> QED BY <1>1, Invariance, PTL

-----------------------------------------------------------------------------
(* What the first tokens of a filter stand for, one more token at a time.  *)
Stretch(name, target, j, R) ==
    IF target[j] = "*" THEN {k \in 0..Len(name) : \E i \in R : i <= k}
    ELSE {k \in 1..Len(name) : name[k] = target[j] /\ k - 1 \in R}

Reaches(f, name, target) ==
    /\ f[0] = {0}
    /\ \A j \in 1..Len(target) : f[j] = Stretch(name, target, j, f[j - 1])

LEMMA GlobSteps ==
  ASSUME NEW name \in Seq(Token), NEW target \in Seq(Token)
  PROVE  \E f : Reaches(f, name, target) /\ (Glob(name, target) <=> Len(name) \in f[Len(target)])
<1> DEFINE n == Len(name)
           t == Len(target)
           T == SUBSET (0..n)
           a == {0}
           h == [p \in (1..t) \X T |-> Stretch(name, target, p[1], p[2])]
           Is(f) == f = [j \in 0..t |->
                           IF j = 0 THEN {0}
                           ELSE IF target[j] = "*" THEN {k \in 0..n : \E i \in f[j - 1] : i <= k}
                           ELSE {k \in 1..n : name[k] = target[j] /\ k - 1 \in f[j - 1]}]
<1>1. n \in Nat /\ t \in Nat
  BY LenProperties
<1>2. Glob(name, target) <=> n \in (CHOOSE f : Is(f))[t]
  BY DEF Glob
<1>3. \A j \in 1..t, R \in T : Stretch(name, target, j, R) \in T
  BY DEF Stretch
<1>4. h \in [(1..t) \X T -> T] /\ a \in T
  BY <1>1, <1>3
<1>5. \A j \in 1..t, R \in T : h[<<j, R>>] = Stretch(name, target, j, R)
  OBVIOUS
<1> HIDE DEF h, T, a
<1>6. PICK g : Runs(g, t, T, a, h)
  BY <1>1, <1>4, Recursion
<1>7. /\ g \in [0..t -> T] /\ g[0] = {0}
      /\ \A j \in 1..t : g[j] = Stretch(name, target, j, g[j - 1])
  <2>1. g \in [0..t -> T] /\ g[0] = {0} /\ \A j \in 1..t : g[j] = h[<<j, g[j - 1]>>]
    BY <1>6 DEF Runs, a
  <2>2. \A j \in 1..t : g[j - 1] \in T
    BY <1>1, <2>1
  <2> QED BY <1>5, <2>1, <2>2
<1>8. Is(g)
  <2>1. ASSUME NEW j \in 0..t
        PROVE  g[j] = IF j = 0 THEN {0}
                      ELSE IF target[j] = "*" THEN {k \in 0..n : \E i \in g[j - 1] : i <= k}
                      ELSE {k \in 1..n : name[k] = target[j] /\ k - 1 \in g[j - 1]}
    <3>1. CASE j = 0
      BY <1>7, <3>1
    <3>2. CASE j # 0
      <4>1. j \in 1..t
        BY <1>1, <3>2
      <4>2. g[j] = Stretch(name, target, j, g[j - 1])
        BY <1>7, <4>1
      <4> QED BY <3>2, <4>2 DEF Stretch
    <3> QED BY <3>1, <3>2
  <2>2. g = [j \in 0..t |-> g[j]]
    BY <1>7
  <2> QED BY <2>1, <2>2
<1> DEFINE c == CHOOSE f : Is(f)
<1>9. Is(c)
  BY <1>8
<1> HIDE DEF c
<1>10. c[0] = {0}
  <2>1. 0 \in 0..t
    BY <1>1
  <2> QED BY <1>9, <2>1
<1>11. ASSUME NEW j \in 1..t PROVE c[j] = Stretch(name, target, j, c[j - 1])
  <2>1. j \in 0..t /\ j # 0
    BY <1>1
  <2>2. c[j] = IF target[j] = "*" THEN {k \in 0..n : \E i \in c[j - 1] : i <= k}
               ELSE {k \in 1..n : name[k] = target[j] /\ k - 1 \in c[j - 1]}
    BY <1>9, <2>1
  <2> QED BY <2>2 DEF Stretch
<1>12. Reaches(c, name, target)
  BY <1>10, <1>11 DEF Reaches
<1> QED BY <1>2, <1>12 DEF c

(* What the tokens a + 1 to p of a filter reach from the places R, if none  *)
(* of them is a wildcard.                                                  *)
Plain(name, target, R, a, p) ==
    {k \in 0..Len(name) : /\ k - (p - a) \in R
                          /\ \A i \in 1..p - a : name[k - (p - a) + i] = target[a + i]}

(* The part of a filter between two wildcards stands for itself.           *)
LEMMA PlainStretch ==
  ASSUME NEW name \in Seq(Token), NEW target \in Seq(Token), NEW f, Reaches(f, name, target),
         NEW a \in Nat, NEW p \in Nat, a <= p, p <= Len(target), f[a] \subseteq 0..Len(name),
         \A j \in a + 1..p : target[j] # "*"
  PROVE  f[p] = Plain(name, target, f[a], a, p)
<1> DEFINE n == Len(name)
           Means(j) == {k \in 0..n : /\ k - j \in f[a]
                                     /\ \A i \in 1..j : name[k - j + i] = target[a + i]}
           m == p - a
           G == {j \in 0..m : f[a + j] = Means(j)}
<1>1. n \in Nat /\ m \in Nat /\ a + m = p /\ Len(target) \in Nat /\ p <= Len(target)
  BY LenProperties
<1>2. 0 \in G
  <2>1. Means(0) = f[a]
    OBVIOUS
  <2> QED BY <1>1, <2>1
<1>3. ASSUME NEW j \in 1..m, j - 1 \in G PROVE j \in G
  <2>1. /\ a + j \in 1..Len(target) /\ a + j \in a + 1..p /\ (a + j) - 1 = a + (j - 1)
        /\ j - 1 \in Nat
    BY <1>1
  <2>2. f[a + (j - 1)] = Means(j - 1)
    BY <1>3
  <2>3. f[a + j] = Stretch(name, target, a + j, Means(j - 1))
    BY <2>1, <2>2 DEF Reaches
  <2>4. target[a + j] # "*"
    BY <2>1
  <2>5. f[a + j] = {k \in 1..n : name[k] = target[a + j] /\ k - 1 \in Means(j - 1)}
    BY <2>3, <2>4 DEF Stretch
  <2>6. ASSUME NEW k \in 1..n
        PROVE  name[k] = target[a + j] /\ k - 1 \in Means(j - 1) <=> k \in Means(j)
    <3>0. j \in Nat /\ k \in Nat /\ n \in Nat
      BY <1>1
    <3>1. k - 1 \in 0..n /\ (k - 1) - (j - 1) = k - j /\ k \in 0..n
      <4> HIDE DEF n
      <4> QED BY <3>0
    <3>2. (\A i \in 1..j : name[k - j + i] = target[a + i])
            <=> name[k] = target[a + j] /\ \A i \in 1..j - 1 : name[k - j + i] = target[a + i]
      <4>1. j \in Nat /\ j >= 1 /\ k \in Nat
        BY <1>1
      <4>2. 1..j = (1..j - 1) \cup {j}
        BY <4>1
      <4>3. k - j + j = k
        BY <4>1
      <4> QED BY <4>2, <4>3
    <3> QED BY <3>1, <3>2
  <2>7. 0 \notin Means(j)
    BY <1>1, <2>1
  <2>8. f[a + j] = Means(j)
    <3>1. Means(j) \subseteq 0..n
      OBVIOUS
    <3> HIDE DEF Means
    <3> QED BY <1>1, <2>5, <2>6, <2>7, <3>1
  <2> HIDE DEF Means
  <2> QED BY <1>1, <2>8
<1>4. m \in G
  <2>1. \A j \in 0..m : j \in G
    <3> HIDE DEF G, m
    <3> QED BY <1>1, <1>2, <1>3, Induction
  <2> HIDE DEF G
  <2> QED BY <1>1, <2>1
<1> QED BY <1>1, <1>4 DEF Plain

(* The places of a part in a name.                                         *)
Places(s, part) ==
    {i \in 1..Len(s) - Len(part) + 1 : \A k \in 1..Len(part) : s[i + k - 1] = part[k]}

(* They are what Positions says, token by token.                           *)
LEMMA PositionsMeans ==
  ASSUME NEW U, NEW s \in Seq(U), NEW part \in Seq(U)
  PROVE  Positions(s, part) = Places(s, part)
<1> DEFINE n == Len(s)
           m == Len(part)
<1>1. n \in Nat /\ m \in Nat /\ DOMAIN s = 1..n /\ DOMAIN part = 1..m
  BY LenProperties
<1> SUFFICES ASSUME NEW i \in 1..n - m + 1
             PROVE  SubSeq(s, i, i + m - 1) = part <=> \A k \in 1..m : s[i + k - 1] = part[k]
  BY DEF Positions, Places
<1> DEFINE u == SubSeq(s, i, i + m - 1)
<1>2. /\ u \in Seq(U) /\ Len(u) = m /\ \A k \in 1..m : u[k] = s[i + k - 1]
  <2> DEFINE a == i
             b == i + m - 1
  <2>1. a \in Nat \ {0} /\ b \in Nat /\ b <= n /\ a <= b + 1
    BY <1>1
  <2>2. \A j \in a..b : s[j] \in U
    <3>1. \A j \in a..b : j \in 1..n
      BY <1>1, <2>1
    <3> QED BY <3>1, ElementOfSeq
  <2> HIDE DEF a, b
  <2>3. /\ SubSeq(s, a, b) \in Seq(U)
        /\ Len(SubSeq(s, a, b)) = IF a <= b THEN b - a + 1 ELSE 0
        /\ \A j \in 1..b - a + 1 : SubSeq(s, a, b)[j] = s[a + j - 1]
    BY <2>1, <2>2, SubSeqProperties
  <2>4. b - a + 1 = m
    BY <1>1 DEF a, b
  <2>5. Len(SubSeq(s, a, b)) = m
    BY <1>1, <2>1, <2>3, <2>4
  <2> QED BY <2>3, <2>4, <2>5 DEF a, b
<1> HIDE DEF u
<1>3. u = part <=> \A k \in 1..m : u[k] = part[k]
  <2>1. ASSUME \A k \in 1..m : u[k] = part[k] PROVE u = part
    BY <1>1, <1>2, <2>1, SeqEqual
  <2> QED BY <2>1
<1> QED BY <1>2, <1>3 DEF u

(* What it is to end like a sequence.                                      *)
LEMMA SuffixMeans ==
  ASSUME NEW s \in Seq(Token), NEW u \in Seq(Token)
  PROVE  IsSuffix(u, s) <=> /\ Len(u) <= Len(s)
                            /\ \A i \in 1..Len(u) : s[Len(s) - Len(u) + i] = u[i]
<1> DEFINE n == Len(s)
           m == Len(u)
           rs == Reverse(s)
           ru == Reverse(u)
<1>1. n \in Nat /\ m \in Nat
  BY LenProperties
<1>2. /\ rs \in Seq(Token) /\ Len(rs) = n /\ \A i \in 1..n : rs[i] = s[n - i + 1]
      /\ ru \in Seq(Token) /\ Len(ru) = m /\ \A i \in 1..m : ru[i] = u[m - i + 1]
  <2>1. \A i \in 1..n : n - i + 1 \in 1..n
    BY <1>1
  <2>2. \A i \in 1..m : m - i + 1 \in 1..m
    BY <1>1
  <2>3. rs = [i \in 1..n |-> s[n - i + 1]] /\ \A i \in 1..n : s[n - i + 1] \in Token
    BY <2>1, ElementOfSeq DEF Reverse
  <2>4. ru = [i \in 1..m |-> u[m - i + 1]] /\ \A i \in 1..m : u[m - i + 1] \in Token
    BY <2>2, ElementOfSeq DEF Reverse
  <2> HIDE DEF n, m, rs, ru
  <2>5. rs \in Seq(Token) /\ Len(rs) = n
    BY <1>1, <2>3, IsASeq
  <2>6. ru \in Seq(Token) /\ Len(ru) = m
    BY <1>1, <2>4, IsASeq
  <2> QED BY <2>3, <2>4, <2>5, <2>6
<1>3. IsSuffix(u, s) <=> m <= n /\ SubSeq(ru, 1, m) = SubSeq(rs, 1, m)
  BY <1>2 DEF IsSuffix, IsPrefix
<1> HIDE DEF rs, ru
<1>4. SubSeq(ru, 1, m) = ru
  BY <1>2, SubSeqFull
<1>5. ASSUME m <= n
      PROVE  SubSeq(rs, 1, m) = ru <=> \A i \in 1..m : s[n - m + i] = u[i]
  <2> DEFINE p == SubSeq(rs, 1, m)
  <2>1. p \in Seq(Token) /\ Len(p) = m /\ \A i \in 1..m : p[i] = rs[i]
    <3>1. \A i \in 1..m : rs[i] \in Token
      <4>1. \A i \in 1..m : i \in 1..Len(rs)
        BY <1>1, <1>2, <1>5
      <4> QED BY <1>2, <4>1, ElementOfSeq
    <3> DEFINE b == m
               o == 1
    <3>2. b \in Nat /\ o \in Nat /\ \A i \in o..b : rs[i] \in Token
      BY <1>1, <3>1
    <3> HIDE DEF b, o
    <3>3. /\ SubSeq(rs, o, b) \in Seq(Token)
          /\ Len(SubSeq(rs, o, b)) = IF o <= b THEN b - o + 1 ELSE 0
          /\ \A j \in 1..b - o + 1 : SubSeq(rs, o, b)[j] = rs[o + j - 1]
      BY <3>2, SubSeqProperties
    <3>4. b - o + 1 = m /\ (IF o <= b THEN b - o + 1 ELSE 0) = m
      BY <1>1 DEF o, b
    <3>5. \A j \in 1..m : o + j - 1 = j
      BY <1>1 DEF o
    <3> QED BY <3>3, <3>4, <3>5 DEF o, b
  <2> HIDE DEF p
  <2>2. p = ru <=> \A i \in 1..m : p[i] = ru[i]
    <3>1. ASSUME \A i \in 1..m : p[i] = ru[i] PROVE p = ru
      BY <1>2, <2>1, <3>1, SeqEqual
    <3> QED BY <3>1
  <2>3. \A i \in 1..m : p[i] = s[n - i + 1] /\ ru[i] = u[m - i + 1]
    BY <1>1, <1>2, <1>5, <2>1
  <2>4. ASSUME \A i \in 1..m : p[i] = ru[i], NEW i \in 1..m PROVE s[n - m + i] = u[i]
    <3>1. m - i + 1 \in 1..m /\ n - (m - i + 1) + 1 = n - m + i /\ m - (m - i + 1) + 1 = i
      BY <1>1
    <3>2. p[m - i + 1] = s[n - (m - i + 1) + 1] /\ ru[m - i + 1] = u[m - (m - i + 1) + 1]
      BY <2>3, <3>1
    <3> QED BY <2>4, <3>1, <3>2
  <2>5. ASSUME \A i \in 1..m : s[n - m + i] = u[i], NEW i \in 1..m PROVE p[i] = ru[i]
    <3>1. m - i + 1 \in 1..m /\ n - m + (m - i + 1) = n - i + 1
      BY <1>1
    <3>2. s[n - m + (m - i + 1)] = u[m - i + 1]
      BY <2>5, <3>1
    <3> QED BY <2>3, <3>1, <3>2
  <2> QED BY <2>2, <2>4, <2>5 DEF p
<1> QED BY <1>3, <1>4, <1>5


(* What it is to begin like a sequence.                                    *)
LEMMA PrefixMeans ==
  ASSUME NEW s \in Seq(Token), NEW u \in Seq(Token)
  PROVE  IsPrefix(u, s) <=> /\ Len(u) <= Len(s)
                            /\ \A i \in 1..Len(u) : s[i] = u[i]
<1> DEFINE n == Len(s)
           m == Len(u)
<1>1. n \in Nat /\ m \in Nat
  BY LenProperties
<1>2. IsPrefix(u, s) <=> m <= n /\ SubSeq(u, 1, m) = SubSeq(s, 1, m)
  BY DEF IsPrefix
<1>3. SubSeq(u, 1, m) = u
  BY SubSeqFull
<1>4. ASSUME m <= n PROVE SubSeq(s, 1, m) = u <=> \A i \in 1..m : s[i] = u[i]
  <2> DEFINE p == SubSeq(s, 1, m)
             o == 1
             b == m
  <2>1. o \in Nat /\ b \in Nat /\ \A i \in o..b : s[i] \in Token
    <3>1. \A i \in 1..m : i \in 1..Len(s)
      BY <1>1, <1>4
    <3> QED BY <1>1, <3>1, ElementOfSeq
  <2>2. b - o + 1 = m /\ (IF o <= b THEN b - o + 1 ELSE 0) = m /\ \A j \in 1..m : o + j - 1 = j
    BY <1>1
  <2>3. p = SubSeq(s, o, b)
    OBVIOUS
  <2> HIDE DEF p, o, b
  <2>4. /\ SubSeq(s, o, b) \in Seq(Token)
        /\ Len(SubSeq(s, o, b)) = IF o <= b THEN b - o + 1 ELSE 0
        /\ \A j \in 1..b - o + 1 : SubSeq(s, o, b)[j] = s[o + j - 1]
    BY <2>1, SubSeqProperties
  <2>5. p \in Seq(Token) /\ Len(p) = m /\ \A i \in 1..m : p[i] = s[i]
    BY <2>2, <2>3, <2>4
  <2>6. ASSUME \A i \in 1..m : p[i] = u[i] PROVE p = u
    BY <2>5, <2>6, SeqEqual
  <2> QED BY <2>5, <2>6 DEF p
<1> QED BY <1>2, <1>3, <1>4
(* The k-th of some numbers, from below.                                   *)
Nth(C, k) == CHOOSE c \in C : Cardinality({d \in C : d <= c}) = k

(* Among some numbers with 0 and m as the least and the last, each has its *)
(* place, and each place its number.                                       *)
Rank(C, c) == Cardinality({d \in C : d <= c})

LEMMA NthFacts ==
  ASSUME NEW m \in Nat \ {0}, NEW C, C \subseteq 0..m, 0 \in C, m \in C
  PROVE  /\ Cardinality(C) \in Nat /\ Cardinality(C) > 1
         /\ \A c \in C : Rank(C, c) \in Nat
         /\ \A c, d \in C : c < d => Rank(C, c) < Rank(C, d)
         /\ Rank(C, 0) = 1 /\ Rank(C, m) = Cardinality(C)
         /\ \A k \in 1..Cardinality(C) : Nth(C, k) \in C /\ Rank(C, Nth(C, k)) = k
<1> DEFINE B(c) == {d \in C : d <= c}
           size == Cardinality(C)
<1>0. m \in Nat /\ 0 < m /\ \A x \in C : x \in Int /\ 0 <= x /\ x <= m
  <2>1. \A x \in C : x \in 0..m
    OBVIOUS
  <2> QED BY <2>1
<1>1. IsFiniteSet(C) /\ \A c \in C : IsFiniteSet(B(c)) /\ B(c) \subseteq C
  <2>1. IsFiniteSet(0..m)
    BY FS_Interval
  <2>2. C \in SUBSET (0..m) /\ \A c \in C : B(c) \in SUBSET C
    OBVIOUS
  <2> HIDE DEF B
  <2> QED BY <2>1, <2>2, FS_Subset
<1>2. size \in Nat /\ \A c \in C : Rank(C, c) \in Nat
  BY <1>1, FS_CardinalityType DEF Rank
<1>3. ASSUME NEW c \in C, NEW d \in C, c < d PROVE Rank(C, c) < Rank(C, d)
  <2>1. B(c) \cup {d} \in SUBSET B(d) /\ d \notin B(c)
    <3>1. \A x \in B(c) \cup {d} : x \in C /\ x <= d
      BY <1>0, <1>3
    <3>2. ~(d <= c)
      BY <1>0, <1>3
    <3> QED BY <3>1, <3>2
  <2>2. IsFiniteSet(B(c)) /\ IsFiniteSet(B(d))
    BY <1>1
  <2> HIDE DEF B
  <2>3. Cardinality(B(c) \cup {d}) = Cardinality(B(c)) + 1
    BY <2>1, <2>2, FS_AddElement
  <2>4. Cardinality(B(c) \cup {d}) <= Cardinality(B(d))
    BY <2>1, <2>2, FS_Subset
  <2>5. Rank(C, c) = Cardinality(B(c)) /\ Rank(C, d) = Cardinality(B(d))
    BY DEF Rank, B
  <2> QED BY <1>2, <2>3, <2>4, <2>5
<1>4. Rank(C, 0) = 1 /\ Rank(C, m) = size
  <2>1. (\A x \in C : x <= 0 <=> x = 0) /\ \A x \in C : x <= m
    BY <1>0
  <2>3. B(0) = {0} /\ B(m) = C
    BY <2>1
  <2>2. Cardinality({0}) = 1
    BY FS_Singleton
  <2> QED BY <2>2, <2>3 DEF Rank
<1>5. size > 1
  <2>2. Rank(C, 0) < Rank(C, m)
    BY <1>0, <1>3
  <2> QED BY <1>2, <1>4, <2>2
<1>6. ASSUME NEW k \in 1..size PROVE \E c \in C : Rank(C, c) = k
  <2> DEFINE D == {c \in C : Rank(C, c) >= k}
  <2>a. Rank(C, m) >= k
    BY <1>2, <1>4
  <2>1. m \in D /\ D \subseteq 0..m /\ D \subseteq C
    BY <2>a
  <2> HIDE DEF D
  <2> DEFINE c == Min(D)
  <2>2. c \in D /\ \A x \in D : c <= x
    BY <2>1, MinMaxFacts
  <2> HIDE DEF c
  <2>3. c \in C /\ c \in 0..m /\ Rank(C, c) \in Nat /\ Rank(C, c) >= k /\ k \in Nat /\ k >= 1
    BY <1>2, <2>1, <2>2 DEF D
  <2>4. SUFFICES ASSUME Rank(C, c) > k PROVE FALSE
    BY <2>3
  <2>5. c # 0
    BY <1>4, <2>3, <2>4
  <2> DEFINE E == {d \in C : d < c}
  <2>6. E \subseteq 0..m /\ E \subseteq C /\ 0 \in E
    <3>1. 0 < c
      BY <1>0, <2>3, <2>5
    <3> QED BY <3>1
  <2> DEFINE p == Max(E)
  <2>7. p \in E /\ \A x \in E : x <= p
    <3> HIDE DEF E
    <3> QED BY <2>6, MinMaxFacts
  <2> HIDE DEF p
  <2>8. p \in C /\ p < c /\ p \in 0..m
    BY <2>7
  <2>9. B(c) = B(p) \cup {c} /\ c \notin B(p)
    <3>2. \A x \in C : x < c => x <= p
      BY <2>7
    <3>3. \A x \in C : x <= c <=> x <= p \/ x = c
      BY <1>0, <2>3, <2>8, <3>2
    <3>4. ~(c <= p)
      BY <1>0, <2>3, <2>8
    <3> QED BY <2>3, <3>3, <3>4
  <2>10. Rank(C, c) = Rank(C, p) + 1
    <3>1. IsFiniteSet(B(p))
      BY <1>1, <2>8
    <3>2. Rank(C, c) = Cardinality(B(c)) /\ Rank(C, p) = Cardinality(B(p))
      BY DEF Rank, B
    <3> HIDE DEF B
    <3>3. Cardinality(B(p) \cup {c}) = Cardinality(B(p)) + 1
      BY <2>9, <3>1, FS_AddElement
    <3> QED BY <2>9, <3>2, <3>3
  <2>11. Rank(C, p) \in Nat
    BY <1>2, <2>8
  <2>12. p \in D
    <3>1. Rank(C, p) >= k
      BY <2>3, <2>4, <2>10, <2>11
    <3> QED BY <2>8, <3>1 DEF D
  <2>13. c <= p
    BY <2>2, <2>12
  <2> QED BY <2>3, <2>8, <2>13
<1>7. ASSUME NEW k \in 1..size PROVE Nth(C, k) \in C /\ Rank(C, Nth(C, k)) = k
  BY <1>6 DEF Nth, Rank
<1> QED BY <1>2, <1>3, <1>4, <1>5, <1>7

(* Four numbers, counted from below.                                       *)
LEMMA CutsOfThree ==
  ASSUME NEW t \in Nat, t > 1, NEW C, C = {0, 1, t, t + 1}
  PROVE  Cardinality(C) = 4 /\ Nth(C, 1) = 0 /\ Nth(C, 2) = 1 /\ Nth(C, 3) = t /\ Nth(C, 4) = t + 1
<1> DEFINE B(c) == {d \in C : d <= c}
<1>1. B(0) = {0} /\ B(1) = {0, 1} /\ B(t) = {0, 1, t} /\ B(t + 1) = C
  OBVIOUS
<1>2. Cardinality({0}) = 1 /\ IsFiniteSet({0})
  BY FS_Singleton
<1>3. /\ {0, 1} = {0} \cup {1} /\ 1 \notin {0}
      /\ {0, 1, t} = {0, 1} \cup {t} /\ t \notin {0, 1}
      /\ C = {0, 1, t} \cup {t + 1} /\ t + 1 \notin {0, 1, t}
  OBVIOUS
<1>4. Cardinality({0, 1}) = 2 /\ IsFiniteSet({0, 1})
  BY <1>2, <1>3, FS_AddElement
<1>5. Cardinality({0, 1, t}) = 3 /\ IsFiniteSet({0, 1, t})
  BY <1>3, <1>4, FS_AddElement
<1>6. Cardinality(C) = 4
  BY <1>3, <1>5, FS_AddElement
<1> DEFINE N(c) == Cardinality(B(c))
<1>7. N(0) = 1 /\ N(1) = 2 /\ N(t) = 3 /\ N(t + 1) = 4
  BY <1>1, <1>2, <1>4, <1>5, <1>6
<1>8. /\ 0 \in C /\ 1 \in C /\ t \in C /\ t + 1 \in C
      /\ \A c \in C : c = 0 \/ c = 1 \/ c = t \/ c = t + 1
  OBVIOUS
<1> HIDE DEF N, B, Nth
<1>9. /\ (CHOOSE c \in C : N(c) = 1) = 0 /\ (CHOOSE c \in C : N(c) = 2) = 1
      /\ (CHOOSE c \in C : N(c) = 3) = t /\ (CHOOSE c \in C : N(c) = 4) = t + 1
  BY <1>7, <1>8
<1> QED BY <1>6, <1>9 DEF N, B, Nth

(* The parts of a filter: what stands between two wildcards, or before the *)
(* first or behind the last.                                               *)
IsPart(target, a, b) ==
    /\ a \in Nat /\ b \in Nat /\ a < b /\ b <= Len(target) + 1
    /\ \A j \in a + 1..b - 1 : target[j] # "*"

LEMMA SplitFacts ==
  ASSUME NEW target \in Seq(Token)
  PROVE  LET parts == Split(target)
         IN  /\ Len(parts) \in Nat \ {0} /\ DOMAIN parts = 1..Len(parts)
             /\ \A i \in 1..Len(parts) : \E a, b :
                   /\ IsPart(target, a, b) /\ parts[i] = SubSeq(target, a + 1, b - 1)
                   /\ i = 1 => a = 0
                   /\ i = Len(parts) => b = Len(target) + 1
<1> DEFINE t == Len(target)
           m == t + 1
           C == {0, t + 1} \cup Stars(target)
           size == Cardinality(C)
           parts == Split(target)
           e(k) == SubSeq(target, Nth(C, k) + 1, Nth(C, k + 1) - 1)
<1>1. t \in Nat /\ DOMAIN target = 1..t
  BY LenProperties
<1>2. C \subseteq 0..m /\ 0 \in C /\ m \in C /\ m \in Nat \ {0}
      /\ \A j \in 1..t : target[j] = "*" => j \in C
  BY <1>1 DEF Stars
<1>3. parts = [k \in 1..size - 1 |-> e(k)]
  BY DEF Split, Nth
<1> HIDE DEF C, parts, m
<1>4. /\ size \in Nat /\ size > 1
      /\ \A c \in C : Rank(C, c) \in Nat
      /\ \A c, d \in C : c < d => Rank(C, c) < Rank(C, d)
      /\ Rank(C, 0) = 1 /\ Rank(C, m) = size
      /\ \A k \in 1..size : Nth(C, k) \in C /\ Rank(C, Nth(C, k)) = k
  BY <1>2, NthFacts
<1> HIDE DEF size
<1>5. \A c \in C : c \in Nat /\ c <= m
  BY <1>2
<1>6. size - 1 \in Nat \ {0} /\ DOMAIN parts = 1..size - 1 /\ Len(parts) = size - 1
  <2>1. size - 1 \in Nat \ {0}
    BY <1>4
  <2> DEFINE T == Range(parts)
             q == size - 1
  <2>2. parts = [k \in 1..q |-> e(k)]
    BY <1>3
  <2>3. \A k \in 1..q : e(k) \in T
    BY <2>2 DEF Range
  <2> HIDE DEF T, e, q
  <2>4. [k \in 1..q |-> e(k)] \in Seq(T) /\ Len([k \in 1..q |-> e(k)]) = q
    BY <2>1, <2>3, IsASeq DEF q
  <2> QED BY <2>1, <2>2, <2>4 DEF q
<1>7. ASSUME NEW i \in 1..Len(parts)
      PROVE  \E a, b : /\ IsPart(target, a, b) /\ parts[i] = SubSeq(target, a + 1, b - 1)
                       /\ i = 1 => a = 0
                       /\ i = Len(parts) => b = t + 1
  <2> DEFINE a == Nth(C, i)
             b == Nth(C, i + 1)
  <2>1. i \in 1..size /\ i + 1 \in 1..size /\ i \in 1..size - 1
    BY <1>4, <1>6
  <2>2. parts[i] = SubSeq(target, a + 1, b - 1)
    BY <1>3, <2>1
  <2>3. a \in C /\ b \in C /\ Rank(C, a) = i /\ Rank(C, b) = i + 1
    BY <1>4, <2>1
  <2> HIDE DEF a, b
  <2>4. a \in Nat /\ b \in Nat /\ b <= m /\ a <= m
    BY <1>5, <2>3
  <2>5. a < b
    <3>1. ~(b < a)
      <4> SUFFICES ASSUME b < a PROVE FALSE
        OBVIOUS
      <4>1. Rank(C, b) < Rank(C, a)
        BY <1>4, <2>3
      <4> QED BY <2>1, <2>3, <4>1
    <3>2. a # b
      BY <2>1, <2>3
    <3> QED BY <2>4, <3>1, <3>2
  <2>6. ASSUME NEW j \in a + 1..b - 1 PROVE target[j] # "*"
    <3> SUFFICES ASSUME target[j] = "*" PROVE FALSE
      OBVIOUS
    <3>1. j \in 1..t /\ a < j /\ j < b
      BY <1>1, <2>4 DEF m
    <3>2. j \in C
      BY <1>2, <3>1
    <3>3. Rank(C, a) < Rank(C, j) /\ Rank(C, j) < Rank(C, b) /\ Rank(C, j) \in Nat
      BY <1>4, <2>3, <3>1, <3>2
    <3> QED BY <2>1, <2>3, <3>3
  <2>7. i = 1 => a = 0
    <3> SUFFICES ASSUME i = 1, 0 < a PROVE FALSE
      BY <2>4
    <3>1. Rank(C, 0) < Rank(C, a)
      BY <1>2, <1>4, <2>3
    <3> QED BY <1>4, <2>3, <3>1
  <2>8. i = Len(parts) => b = m
    <3> SUFFICES ASSUME i = Len(parts), b < m PROVE FALSE
      BY <1>2, <2>4
    <3>1. Rank(C, b) < Rank(C, m)
      BY <1>2, <1>4, <2>3
    <3> QED BY <1>4, <1>6, <2>3, <3>1
  <2>9. IsPart(target, a, b)
    BY <2>4, <2>5, <2>6 DEF IsPart, m
  <2> QED BY <2>2, <2>7, <2>8, <2>9 DEF m
<1> QED BY <1>6, <1>7 DEF parts

(* One with wildcards at both ends, into what is between them.             *)
LEMMA SplitBoth ==
  ASSUME NEW target \in Seq(Token), NEW t, t = Len(target), t > 1, Stars(target) = {1, t}
  PROVE  /\ Len(Split(target)) = 3 /\ DOMAIN Split(target) = 1..3
         /\ Split(target)[1] = <<>> /\ Split(target)[3] = <<>>
         /\ Split(target)[2] = SubSeq(target, 2, t - 1)
<1> DEFINE C == {0, Len(target) + 1} \cup Stars(target)
<1>1. t \in Nat
  BY LenProperties
<1>2. Cardinality(C) = 4 /\ Nth(C, 1) = 0 /\ Nth(C, 2) = 1 /\ Nth(C, 3) = t /\ Nth(C, 4) = t + 1
  <2>1. C = {0, 1, t, t + 1}
    OBVIOUS
  <2> HIDE DEF C
  <2> QED BY <1>1, <2>1, CutsOfThree
<1>4. Split(target) = [k \in 1..Cardinality(C) - 1 |-> SubSeq(target, Nth(C, k) + 1, Nth(C, k + 1) - 1)]
  BY DEF Split, Nth
<1> HIDE DEF C
<1>5. Cardinality(C) - 1 = 3
  BY <1>2
<1>6. Split(target) = [k \in 1..3 |-> SubSeq(target, Nth(C, k) + 1, Nth(C, k + 1) - 1)]
  BY <1>4, <1>5
<1>7. /\ Split(target)[1] = SubSeq(target, Nth(C, 1) + 1, Nth(C, 2) - 1)
      /\ Split(target)[2] = SubSeq(target, Nth(C, 2) + 1, Nth(C, 3) - 1)
      /\ Split(target)[3] = SubSeq(target, Nth(C, 3) + 1, Nth(C, 4) - 1)
  <2> DEFINE e(k) == SubSeq(target, Nth(C, k) + 1, Nth(C, k + 1) - 1)
  <2>1. Split(target)[1] = e(1) /\ Split(target)[2] = e(2) /\ Split(target)[3] = e(3)
    <3>1. Split(target) = [k \in 1..3 |-> e(k)]
      BY <1>6
    <3> HIDE DEF e
    <3> QED BY <3>1
  <2>2. 1 + 1 = 2 /\ 2 + 1 = 3 /\ 3 + 1 = 4
    OBVIOUS
  <2>3. e(1) = SubSeq(target, Nth(C, 1) + 1, Nth(C, 2) - 1) /\ e(2) = SubSeq(target, Nth(C, 2) + 1, Nth(C, 3) - 1) /\ e(3) = SubSeq(target, Nth(C, 3) + 1, Nth(C, 4) - 1)
    BY <2>2
  <2> QED BY <2>1, <2>3
<1>8. /\ Split(target)[1] = SubSeq(target, 1, 0) /\ Split(target)[2] = SubSeq(target, 2, t - 1)
      /\ Split(target)[3] = SubSeq(target, t + 1, t)
  <2>1. /\ Nth(C, 1) + 1 = 1 /\ Nth(C, 2) - 1 = 0 /\ Nth(C, 2) + 1 = 2 /\ Nth(C, 3) - 1 = t - 1
        /\ Nth(C, 3) + 1 = t + 1 /\ Nth(C, 4) - 1 = t
    BY <1>1, <1>2
  <2> QED BY <1>7, <2>1
<1>9. SubSeq(target, t + 1, t) = <<>> /\ SubSeq(target, 1, 0) = <<>>
  BY <1>1, SubSeqEmpty
<1>10. Len(Split(target)) = 3
  <2> DEFINE T == Range(Split(target))
             e(k) == SubSeq(target, Nth(C, k) + 1, Nth(C, k + 1) - 1)
  <2>1. \A k \in 1..3 : e(k) \in T
    BY <1>6 DEF Range
  <2> HIDE DEF T, e
  <2>2. [k \in 1..3 |-> e(k)] \in Seq(T) /\ Len([k \in 1..3 |-> e(k)]) = 3
    BY <2>1, IsASeq
  <2> QED BY <1>6, <2>2 DEF e
<1> QED BY <1>6, <1>8, <1>9, <1>10

(* What is tested of the parts: each that is not empty occurs, and the     *)
(* last of them, if it is the first or the last part, at its place.        *)
LEMMA MatchOne ==
  ASSUME NEW name \in Seq(Token), NEW parts, NEW i, DOMAIN parts = 1..Len(parts), Len(parts) \in Nat,
         i \in DOMAIN parts, i # Len(parts), parts[i] \in Seq(Token),
         \A j \in DOMAIN parts : j # i => parts[j] = <<>>
  PROVE  MatchParts(name, parts) <=> \/ parts[i] = <<>>
                                     \/ /\ Positions(name, parts[i]) # {}
                                        /\ i = 1 => 1 \in Positions(name, parts[i])
<1> DEFINE tested == {j \in DOMAIN parts : parts[j] # <<>>}
           P == Positions(name, parts[i])
<1>1. /\ MatchParts(name, parts) <=>
           /\ \A j \in tested : Positions(name, parts[j]) # {}
           /\ tested # {} =>
                /\ Max(tested) = 1 => Min(Positions(name, parts[1])) = 1
                /\ Max(tested) = Len(parts) =>
                     OnlyRepeated(name, parts[Max(tested)], Min(Positions(name, parts[Max(tested)])))
  BY DEF MatchParts
<1>2. CASE parts[i] = <<>>
  <2>1. tested = {}
    BY <1>2
  <2> QED BY <1>1, <1>2, <2>1
<1>3. CASE parts[i] # <<>>
  <2>1. tested = {i} /\ i \in Nat
    BY <1>3
  <2>2. Max(tested) = i
    <3> DEFINE B == {i}
    <3>1. B \subseteq 0..i /\ B # {} /\ i \in Nat
      BY <2>1
    <3>2. B = {i}
      OBVIOUS
    <3> HIDE DEF B
    <3>3. Max(B) \in B
      BY <3>1, MinMaxFacts
    <3> QED BY <2>1, <3>2, <3>3
  <2>4. MatchParts(name, parts) <=> P # {} /\ (i = 1 => Min(P) = 1)
    <3> HIDE DEF tested
    <3> QED BY <1>1, <2>1, <2>2
  <2>5. P # {} => (Min(P) = 1 <=> 1 \in P)
    <3>1. Len(name) \in Nat /\ Len(parts[i]) \in Nat
      BY LenProperties
    <3>2. P \subseteq 0..Len(name) + 1 /\ \A j \in P : j >= 1 /\ j \in Int
      BY <3>1 DEF Positions
    <3> HIDE DEF P
    <3> SUFFICES ASSUME P # {} PROVE Min(P) = 1 <=> 1 \in P
      OBVIOUS
    <3>3. Min(P) \in P /\ \A x \in P : Min(P) <= x
      <4> DEFINE m == Len(name) + 1
      <4>1. m \in Nat /\ P \subseteq 0..m
        BY <3>1, <3>2
      <4> HIDE DEF m
      <4> QED BY <4>1, MinMaxFacts
    <3>4. Min(P) >= 1 /\ Min(P) \in Int
      BY <3>2, <3>3
    <3>5. ASSUME 1 \in P PROVE Min(P) = 1
      BY <3>3, <3>4, <3>5
    <3> QED BY <3>3, <3>5
  <2> QED BY <1>3, <2>4, <2>5
<1> QED BY <1>2, <1>3

(* A part of a filter.                                                     *)
LEMMA PartMeans ==
  ASSUME NEW target \in Seq(Token), NEW a \in Nat \ {0}, NEW b \in Nat, a <= b + 1, b <= Len(target)
  PROVE  LET u == SubSeq(target, a, b)
         IN  /\ u \in Seq(Token) /\ Len(u) = b - a + 1
             /\ \A i \in 1..Len(u) : u[i] = target[a + i - 1]
<1>1. \A i \in a..b : target[i] \in Token
  <2>1. \A i \in a..b : i \in 1..Len(target)
    BY LenProperties
  <2> QED BY <2>1, ElementOfSeq
<1>2. /\ SubSeq(target, a, b) \in Seq(Token)
      /\ Len(SubSeq(target, a, b)) = IF a <= b THEN b - a + 1 ELSE 0
      /\ \A j \in 1..b - a + 1 : SubSeq(target, a, b)[j] = target[a + j - 1]
  BY <1>1, SubSeqProperties
<1>3. Len(SubSeq(target, a, b)) = b - a + 1
  BY <1>2
<1> QED BY <1>2, <1>3

(* A part of a filter has a place in the name.                             *)
PartPlaced(name, target, a, b) ==
    \E i \in Positions(name, SubSeq(target, a + 1, b - 1)) :
        /\ a = 0 => i = 1
        /\ b = Len(target) + 1 => i = Len(name) - Len(SubSeq(target, a + 1, b - 1)) + 1

(* A name that a filter stands for has each of its parts somewhere, the    *)
(* first at its start and the last at its end.                             *)
LEMMA GlobParts ==
  ASSUME NEW name \in Seq(Token), NEW target \in Seq(Token), Glob(name, target),
         NEW a, NEW b, IsPart(target, a, b)
  PROVE  PartPlaced(name, target, a, b)
<1> DEFINE n == Len(name)
           t == Len(target)
           p == b - 1
           m == p - a
           u == SubSeq(target, a + 1, b - 1)
<1>1. n \in Nat /\ t \in Nat
  BY LenProperties
<1>2. /\ a \in Nat /\ p \in Nat /\ a <= p /\ p <= t /\ m \in Nat /\ b \in Nat
      /\ \A j \in a + 1..p : target[j] # "*"
  BY <1>1 DEF IsPart
<1>3. u \in Seq(Token) /\ Len(u) = m /\ \A i \in 1..m : u[i] = target[a + i]
  <2> DEFINE o == a + 1
  <2>1. /\ o \in Nat \ {0} /\ p \in Nat /\ o <= p + 1 /\ p <= t /\ p - o + 1 = m
        /\ \A i \in 1..m : o + i - 1 = a + i
    BY <1>2
  <2>2. u = SubSeq(target, o, p)
    OBVIOUS
  <2> HIDE DEF o, p, m, u
  <2>3. /\ SubSeq(target, o, p) \in Seq(Token) /\ Len(SubSeq(target, o, p)) = p - o + 1
        /\ \A i \in 1..Len(SubSeq(target, o, p)) : SubSeq(target, o, p)[i] = target[o + i - 1]
    BY <2>1, PartMeans
  <2> QED BY <2>1, <2>2, <2>3
<1>a. n = Len(name) /\ t = Len(target) /\ b = p + 1
  BY <1>2
<1> HIDE DEF n, t, u, m, p
<1>4. PICK f : Reaches(f, name, target) /\ n \in f[t]
  BY <1>a, GlobSteps
<1>5. f[0] = {0} /\ \A j \in 1..t : f[j] = Stretch(name, target, j, f[j - 1])
  BY <1>4, <1>a DEF Reaches
<1>6. \A j \in 0..t : f[j] \subseteq 0..n
  <2> DEFINE G == {j \in 0..t : f[j] \subseteq 0..n}
  <2>1. 0 \in G
    BY <1>1, <1>5
  <2>2. ASSUME NEW j \in 1..t, j - 1 \in G PROVE j \in G
    <3>2. f[j] = Stretch(name, target, j, f[j - 1])
      BY <1>5
    <3>3. Stretch(name, target, j, f[j - 1]) \subseteq 0..Len(name)
      BY <1>1, <1>a DEF Stretch
    <3>1. f[j] \subseteq 0..n
      BY <3>2, <3>3, <1>a
    <3> QED BY <1>1, <3>1
  <2> HIDE DEF G
  <2>3. \A j \in 0..t : j \in G
    BY <1>1, <2>1, <2>2, Induction
  <2> QED BY <2>3 DEF G
<1>7. f[p] # {}
  <2> SUFFICES ASSUME f[p] = {} PROVE FALSE
    OBVIOUS
  <2> DEFINE q == t - p
             G == {j \in 0..q : f[p + j] = {}}
  <2>1. q \in Nat /\ p + q = t
    BY <1>1, <1>2
  <2>2. 0 \in G
    BY <1>2, <2>1
  <2>3. ASSUME NEW j \in 1..q, j - 1 \in G PROVE j \in G
    <3>1. p + j \in 1..t /\ (p + j) - 1 = p + (j - 1)
      BY <1>1, <1>2
    <3>2. f[p + (j - 1)] = {}
      BY <2>3
    <3>3. f[p + j] = Stretch(name, target, p + j, {})
      BY <1>5, <3>1, <3>2
    <3>4. f[p + j] = {}
      BY <3>3 DEF Stretch
    <3> QED BY <3>4
  <2> HIDE DEF G, q
  <2>4. \A j \in 0..q : j \in G
    BY <2>1, <2>2, <2>3, Induction
  <2>5. q \in G
    BY <2>1, <2>4
  <2> QED BY <1>4, <2>1, <2>5 DEF G
<1>8. PICK k \in f[p] : p = t => k = n
  BY <1>4, <1>7
<1>9. f[p] = Plain(name, target, f[a], a, p)
  <2>1. f[a] \subseteq 0..n
    BY <1>1, <1>2, <1>6
  <2> QED BY <1>2, <1>4, <1>a, <2>1, PlainStretch
<1>10. /\ k \in 0..n /\ k - m \in f[a]
       /\ \A i \in 1..m : name[k - m + i] = target[a + i]
  BY <1>8, <1>9, <1>a DEF Plain, m
<1> DEFINE i == k - m + 1
<1>11. k - m \in 0..n /\ (a = 0 => k - m = 0)
  <2>1. f[a] \subseteq 0..n
    BY <1>1, <1>2, <1>6
  <2> QED BY <1>5, <1>10, <2>1
<1>12. i \in Places(name, u)
  <2>1. i \in 1..n - m + 1
    BY <1>1, <1>2, <1>10, <1>11
  <2>2. ASSUME NEW h \in 1..m PROVE name[i + h - 1] = u[h]
    <3>1. i + h - 1 = k - m + h
      BY <1>2, <1>10
    <3> HIDE DEF i
    <3> QED BY <1>3, <1>10, <3>1
  <2> HIDE DEF i
  <2> QED BY <1>3, <1>a, <2>1, <2>2 DEF Places
<1>13. Positions(name, u) = Places(name, u)
  BY <1>3, PositionsMeans
<1>14. a = 0 => i = 1
  BY <1>11
<1>15. b = t + 1 => i = n - Len(u) + 1
  BY <1>1, <1>2, <1>3, <1>8, <1>a
<1>16. \E h \in Positions(name, u) : (a = 0 => h = 1) /\ (b = t + 1 => h = n - Len(u) + 1)
  <2> HIDE DEF i
  <2> QED BY <1>12, <1>13, <1>14, <1>15
<1> QED BY <1>16 DEF n, t, u, PartPlaced

(* What is at the end of a name is repeated once.                          *)
LEMMA OnceAtEnd ==
  ASSUME NEW name \in Seq(Token), NEW u \in Seq(Token), u # <<>>,
         NEW i \in Positions(name, u), i = Len(name) - Len(u) + 1
  PROVE  OnlyRepeated(name, u, i)
<1> DEFINE n == Len(name)
           m == Len(u)
<1>1. n \in Nat /\ m \in Nat /\ m # 0
  BY LenProperties, EmptySeq
<1>2. i \in 1..n - m + 1 /\ SubSeq(name, i, i + m - 1) = u
  BY DEF Positions
<1>3. SubSeq(name, i, n) = u /\ 1 \in 1..n
  <2>1. i + m - 1 = n /\ n >= 1
    BY <1>1, <1>2
  <2> QED BY <1>1, <1>2, <2>1
<1> DEFINE q == 1
           ss == [k \in 1..q |-> u]
<1>4. q = 1 /\ q \in Nat
  OBVIOUS
<1> HIDE DEF q, n
<1>5. ss \in Seq(Seq(Token)) /\ Len(ss) = q /\ \A k \in 1..q : ss[k] = u
  <2> DEFINE T == Seq(Token)
  <2>1. u \in T
    OBVIOUS
  <2> HIDE DEF T
  <2>2. [k \in 1..q |-> u] \in Seq(T) /\ Len([k \in 1..q |-> u]) = q
    BY <1>4, <2>1, IsASeq
  <2> QED BY <2>2 DEF T
<1> HIDE DEF ss
<1>6. ss # <<>>
  <2>1. Len(ss) # 0
    BY <1>4, <1>5
  <2> QED BY <2>1
<1>7. PICK f : Flattens(f, Token, ss) /\ FlattenSeq(ss) = f[Len(ss)]
  BY <1>5, <1>6, FlattenSteps
<1>8. FlattenSeq(ss) = u
  <2> DEFINE l == Len(ss)
  <2>1. l = 1
    BY <1>4, <1>5
  <2>2. f[0] = <<>> /\ \A k \in 1..l : f[k] = f[k - 1] \o ss[k]
    BY <1>7 DEF Flattens
  <2>3. f[l] = f[0] \o ss[1] /\ ss[1] = u
    <3>1. 1 \in 1..l /\ 1 - 1 = 0 /\ 1 \in 1..q
      BY <2>1, <1>4
    <3> HIDE DEF l
    <3>2. f[1] = f[0] \o ss[1] /\ ss[1] = u
      BY <1>5, <2>2, <3>1
    <3> QED BY <2>1, <3>2
  <2>4. <<>> \o u = u
    OBVIOUS
  <2> QED BY <1>7, <2>2, <2>3, <2>4
<1>9. SubSeq(name, i, n) = FlattenSeq([k \in 1..q |-> u])
  BY <1>3, <1>8 DEF ss
<1>10. \E h \in 1..n : SubSeq(name, i, n) = FlattenSeq([k \in 1..h |-> u])
  BY <1>3, <1>4, <1>9
<1> QED BY <1>10 DEF OnlyRepeated, n

(* The cases of matchSuffix.                                               *)
Inside(target) == \E i \in Stars(target) : 1 < i /\ i < Len(target)
AtEnd(target) == Len(target) \in Stars(target) \ {1}

LEMMA MatchCases ==
  ASSUME NEW name, NEW target
  PROVE  LET first == 1 \in Stars(target)
         IN  /\ first /\ ~Inside(target) /\ ~AtEnd(target) =>
                  (matchSuffix(name, target) <=> IsSuffix(Tail(target), name))
             /\ ~first /\ ~Inside(target) /\ AtEnd(target) =>
                  (matchSuffix(name, target) <=> IsPrefix(Front(target), name))
             /\ ~first /\ ~Inside(target) /\ ~AtEnd(target) =>
                  (matchSuffix(name, target) <=> name = target)
             /\ Inside(target) \/ (first /\ AtEnd(target)) =>
                  (matchSuffix(name, target) <=> MatchParts(name, Split(target)))
<1> DEFINE first == 1 \in Stars(target)
           in == Inside(target)
           last == AtEnd(target)
           c == Cardinality(Stars(target))
           at == <<c, first, in, last>>
<1>1. countAndPositions(target) = at
  BY DEF countAndPositions, Inside, AtEnd
<1>2. at[2] = first /\ at[3] = in /\ at[4] = last
  OBVIOUS
<1> DEFINE p1 == IsSuffix(Tail(target), name)
           p2 == IsPrefix(Front(target), name)
           p4 == MatchParts(name, Split(target))
<1>3. matchSuffix(name, target) <=>
        CASE first /\ ~in /\ ~last  -> p1
          [] ~first /\ ~in /\ last  -> p2
          [] ~first /\ ~in /\ ~last -> name = target
          [] OTHER -> p4
  BY <1>1, <1>2, Zenon DEF matchSuffix
<1> HIDE DEF first, in, last, at, p1, p2, p4
<1>4. /\ first /\ ~in /\ ~last => (matchSuffix(name, target) <=> p1)
      /\ ~first /\ ~in /\ last => (matchSuffix(name, target) <=> p2)
      /\ ~first /\ ~in /\ ~last => (matchSuffix(name, target) <=> name = target)
      /\ in \/ (first /\ last) => (matchSuffix(name, target) <=> p4)
  BY <1>3
<1> QED BY <1>4 DEF first, in, last, p1, p2, p4

(* The places of a part are within the name.                               *)
LEMMA PositionsBound ==
  ASSUME NEW name \in Seq(Token), NEW u \in Seq(Token)
  PROVE  Positions(name, u) \subseteq 0..Len(name) + 1 /\ \A p \in Positions(name, u) : 1 <= p
<1>1. Len(name) \in Nat /\ Len(u) \in Nat
  BY LenProperties
<1>2. \A p \in Positions(name, u) : p \in 1..Len(name) - Len(u) + 1
  BY DEF Positions
<1> QED BY <1>1, <1>2

(* With a wildcard inside, the filter is compared by parts.                *)
LEMMA PartsMean ==
  ASSUME NEW name \in Seq(Token), NEW target \in Seq(Token), Inside(target), ~Misread(name, target)
  PROVE  MatchParts(name, Split(target)) <=> Glob(name, target)
<1> DEFINE parts == Split(target)
           l == Len(parts)
           tested == {i \in DOMAIN parts : parts[i] # <<>>}
           Found(i) == Positions(name, parts[i])
           n == Len(name)
<1>1. /\ l \in Nat \ {0} /\ DOMAIN parts = 1..l
      /\ \A i \in 1..l : \E a, b :
            /\ IsPart(target, a, b) /\ parts[i] = SubSeq(target, a + 1, b - 1)
            /\ i = 1 => a = 0
            /\ i = l => b = Len(target) + 1
  BY SplitFacts
<1>2. Last(parts) = parts[l]
  BY DEF Last
<1>3. \/ \E i \in 1..l : parts[i] # <<>> /\ Found(i) = {}
      \/ /\ Glob(name, target)
         /\ parts[l] = <<>> \/ \A i, j \in Found(l) : i = j
  BY <1>1, <1>2 DEF Misread, Inside
<1>4. MatchParts(name, parts) <=>
        /\ \A i \in tested : Found(i) # {}
        /\ tested # {} =>
              /\ Max(tested) = 1 => Min(Found(1)) = 1
              /\ Max(tested) = l => OnlyRepeated(name, parts[Max(tested)], Min(Found(Max(tested))))
  BY DEF MatchParts
<1>5. tested = {i \in 1..l : parts[i] # <<>>}
  BY <1>1
<1>a. parts = Split(target) /\ n = Len(name) /\ n \in Nat
  BY LenProperties
<1> HIDE DEF parts, l, tested, n
<1>6. ASSUME Glob(name, target), NEW i \in 1..l
      PROVE  /\ parts[i] \in Seq(Token)
             /\ \E p \in Found(i) : /\ i = 1 => p = 1
                                    /\ i = l => p = n - Len(parts[i]) + 1
  <2>1. PICK a, b : /\ IsPart(target, a, b) /\ parts[i] = SubSeq(target, a + 1, b - 1)
                    /\ i = 1 => a = 0
                    /\ i = l => b = Len(target) + 1
    BY <1>1
  <2>2. \E p \in Positions(name, SubSeq(target, a + 1, b - 1)) :
           /\ a = 0 => p = 1
           /\ b = Len(target) + 1 => p = Len(name) - Len(SubSeq(target, a + 1, b - 1)) + 1
    <3>1. IsPart(target, a, b) /\ Glob(name, target)
      BY <1>6, <2>1
    <3>2. PartPlaced(name, target, a, b)
      BY <3>1, GlobParts
    <3> QED BY <3>2 DEF PartPlaced
  <2>3. parts[i] \in Seq(Token)
    <3> DEFINE o == a + 1
               q == b - 1
    <3>1. o \in Nat \ {0} /\ q \in Nat /\ o <= q + 1 /\ q <= Len(target)
      BY <2>1, LenProperties DEF IsPart
    <3> HIDE DEF o, q
    <3>2. SubSeq(target, o, q) \in Seq(Token)
      BY <3>1, PartMeans
    <3> QED BY <2>1, <3>2 DEF o, q
  <2> QED BY <1>a, <2>1, <2>2, <2>3
<1>7. CASE \E i \in 1..l : parts[i] # <<>> /\ Found(i) = {}
  <2>1. PICK i \in 1..l : parts[i] # <<>> /\ Found(i) = {}
    BY <1>7
  <2>2. ~MatchParts(name, parts)
    <3>1. i \in tested
      BY <1>5, <2>1
    <3> HIDE DEF Found
    <3> QED BY <1>4, <2>1, <3>1
  <2>3. ~Glob(name, target)
    BY <1>6, <2>1
  <2> QED BY <1>a, <2>2, <2>3
<1>8. CASE Glob(name, target) /\ (parts[l] = <<>> \/ \A i, j \in Found(l) : i = j)
  <2>1. \A i \in tested : i \in 1..l /\ parts[i] # <<>>
    BY <1>5
  <2>2. \A i \in tested : Found(i) # {}
    BY <1>6, <1>8, <2>1
  <2>3. ASSUME tested # {} PROVE Max(tested) \in tested
    <3>1. l \in Nat /\ tested \subseteq 0..l
      BY <1>1, <2>1
    <3> QED BY <2>3, <3>1, MinMaxFacts
  <2>4. ASSUME tested # {}, Max(tested) = 1 PROVE Min(Found(1)) = 1
    <3>1. 1 \in 1..l /\ 1 \in Found(1) /\ parts[1] \in Seq(Token)
      BY <1>6, <1>8, <2>1, <2>3, <2>4
    <3> DEFINE P == Found(1)
               m == n + 1
    <3>2. P \subseteq 0..m /\ \A p \in P : 1 <= p
      BY <1>a, <3>1, PositionsBound
    <3>3. m \in Nat /\ 1 \in P /\ P # {}
      BY <1>a, <3>1
    <3> HIDE DEF P, m
    <3>4. Min(P) \in P /\ \A p \in P : Min(P) <= p
      BY <3>2, <3>3, MinMaxFacts
    <3>5. Min(P) \in 0..m /\ 1 <= Min(P) /\ Min(P) <= 1
      BY <3>2, <3>3, <3>4
    <3>6. Min(P) = 1
      BY <3>5
    <3> QED BY <3>6 DEF P
  <2>5. ASSUME tested # {}, Max(tested) = l PROVE OnlyRepeated(name, parts[l], Min(Found(l)))
    <3>1. l \in 1..l /\ parts[l] # <<>>
      BY <1>1, <2>1, <2>3, <2>5
    <3>2. PICK p \in Found(l) : p = n - Len(parts[l]) + 1
      BY <1>6, <1>8, <3>1
    <3>3. parts[l] \in Seq(Token)
      BY <1>6, <1>8, <3>1
    <3>4. \A i \in Found(l) : i = p
      BY <1>8, <3>1, <3>2
    <3> DEFINE P == Found(l)
               m == n + 1
    <3>5. P \subseteq 0..m /\ P # {} /\ m \in Nat
      <4>1. Found(l) # {}
        BY <3>2
      <4>2. Found(l) \subseteq 0..Len(name) + 1
        BY <3>3, PositionsBound
      <4> QED BY <1>a, <4>1, <4>2
    <3>6. OnlyRepeated(name, parts[l], p)
      BY <1>a, <3>1, <3>2, <3>3, OnceAtEnd
    <3> HIDE DEF P, m
    <3>7. Min(P) \in P
      BY <3>5, MinMaxFacts
    <3> QED BY <3>4, <3>6, <3>7 DEF P
  <2> HIDE DEF Found
  <2>6. MatchParts(name, parts)
    BY <1>4, <2>2, <2>4, <2>5
  <2> QED BY <1>8, <1>a, <2>6
<1> HIDE DEF Found
<1> QED BY <1>3, <1>7, <1>8

(* A filter matches the names its wildcards stand for, however many it has *)
(* and wherever they are, unless it misreads the name.                     *)
THEOREM FilterMeaning ==
  ASSUME NEW name \in Seq(Token), NEW target \in Seq(Token), ~Misread(name, target)
  PROVE  matchSuffix(name, target) <=> Glob(name, target)
<1>in. CASE Inside(target)
  BY <1>in, MatchCases, PartsMean
<1>out. CASE ~Inside(target)
  <2> DEFINE n == Len(name)
             t == Len(target)
             S == Stars(target)
             first == 1 \in S
             last == t \in S \ {1}
  <2>1. /\ n \in Nat /\ t \in Nat /\ DOMAIN target = 1..t /\ DOMAIN name = 1..n
        /\ S \subseteq 1..t /\ \A j \in 1..t : target[j] = "*" <=> j \in S
    BY LenProperties DEF Stars
  <2>2. \A j \in S : j = 1 \/ j = t
    BY <2>1, <1>out DEF Inside
  <2>3. /\ first /\ ~last => (matchSuffix(name, target) <=> IsSuffix(Tail(target), name))
        /\ ~first /\ ~last => (matchSuffix(name, target) <=> name = target)
        /\ ~first /\ last => (matchSuffix(name, target) <=> IsPrefix(Front(target), name))
        /\ first /\ last => (matchSuffix(name, target) <=> MatchParts(name, Split(target)))
    BY <1>out, MatchCases DEF AtEnd
  <2>a. t = Len(target) /\ n = Len(name) /\ S = Stars(target)
    OBVIOUS
  <2> HIDE DEF n, t, S
  <2>4. PICK f : Reaches(f, name, target) /\ (Glob(name, target) <=> n \in f[t])
    BY <2>a, GlobSteps
  <2>5. ASSUME NEW a \in Nat, NEW p \in Nat, a <= p, p <= t, f[a] \subseteq 0..n,
               \A j \in a + 1..p : j \notin S
        PROVE  f[p] = Plain(name, target, f[a], a, p)
    <3>1. \A j \in a + 1..p : target[j] # "*"
      BY <2>1, <2>5
    <3>2. f[a] \subseteq 0..Len(name) /\ p <= Len(target) /\ Reaches(f, name, target)
      BY <2>a, <2>4, <2>5
    <3> QED BY <2>5, <3>1, <3>2, PlainStretch
  <2>6. f[0] = {0} /\ \A j \in 1..t : f[j] = Stretch(name, target, j, f[j - 1])
    BY <2>a, <2>4 DEF Reaches
  <2>7. first => f[1] = 0..n /\ t >= 1
    <3> SUFFICES ASSUME first PROVE f[1] = 0..n /\ t >= 1
      OBVIOUS
    <3>1. 1 \in 1..t /\ 1 - 1 = 0 /\ target[1] = "*"
      BY <2>1
    <3>2. f[1] = Stretch(name, target, 1, {0})
      BY <2>6, <3>1
    <3> QED BY <2>1, <3>1, <3>2 DEF Stretch, n
  <2>8. last => /\ t > 1 /\ f[t] = {k \in 0..n : \E i \in f[t - 1] : i <= k}
    <3> SUFFICES ASSUME last PROVE t > 1 /\ f[t] = {k \in 0..n : \E i \in f[t - 1] : i <= k}
      OBVIOUS
    <3>1. t \in 1..t /\ target[t] = "*" /\ t > 1
      BY <2>1
    <3>2. f[t] = Stretch(name, target, t, f[t - 1])
      BY <2>6, <3>1
    <3> QED BY <3>1, <3>2 DEF Stretch, n
  <2>9. CASE ~first /\ ~last
    <3>1. S = {}
      BY <2>2, <2>9
    <3>2. f[t] = {k \in 0..n : k - (t - 0) \in {0} /\ \A i \in 1..t - 0 : name[k - (t - 0) + i] = target[0 + i]}
      <4>1. 0 \in Nat /\ 0 <= t /\ t <= t /\ f[0] \subseteq 0..n
        BY <2>1, <2>6
      <4>2. f[t] = Plain(name, target, f[0], 0, t)
        BY <2>1, <2>5, <3>1, <4>1
      <4> QED BY <2>a, <2>6, <4>2 DEF Plain
    <3>3. n \in f[t] <=> n = t /\ \A i \in 1..t : name[i] = target[i]
      BY <2>1, <3>2
    <3>4. n = t /\ (\A i \in 1..t : name[i] = target[i]) => name = target
      BY <2>a, SeqEqual
    <3>5. matchSuffix(name, target) <=> name = target
      BY <2>3, <2>9
    <3>6. name = target => n = t /\ \A i \in 1..t : name[i] = target[i]
      BY <2>a
    <3> QED BY <2>4, <3>3, <3>4, <3>5, <3>6
  <2>10. CASE first /\ ~last
    <3> DEFINE u == Tail(target)
    <3>1. t >= 1 /\ target # <<>>
      BY <2>a, <2>7, <2>10, EmptySeq
    <3>2. u \in Seq(Token) /\ Len(u) = t - 1 /\ \A i \in 1..t - 1 : u[i] = target[1 + i]
      <4>1. u \in Seq(Token) /\ Len(u) = t - 1 /\ \A i \in 1..Len(u) : u[i] = target[i + 1]
        BY <2>a, <3>1, HeadTailProperties
      <4> QED BY <2>1, <4>1
    <3>3. f[t] = {k \in 0..n : /\ k - (t - 1) \in 0..n
                               /\ \A i \in 1..t - 1 : name[k - (t - 1) + i] = target[1 + i]}
      <4>1. \A j \in 1 + 1..t : j \notin S
        BY <2>1, <2>2, <2>10
      <4>2. f[1] = 0..n
        BY <2>7, <2>10
      <4>3. f[t] = {k \in 0..n : /\ k - (t - 1) \in f[1]
                                 /\ \A i \in 1..t - 1 : name[k - (t - 1) + i] = target[1 + i]}
        <5>1. f[t] = Plain(name, target, f[1], 1, t)
          BY <2>1, <2>5, <3>1, <4>1, <4>2
        <5> QED BY <2>a, <5>1 DEF Plain
      <4> QED BY <4>2, <4>3
    <3>4. IsSuffix(u, name) <=> t - 1 <= n /\ \A i \in 1..t - 1 : name[n - (t - 1) + i] = u[i]
      <4> HIDE DEF u
      <4>1. IsSuffix(u, name) <=> Len(u) <= n /\ \A i \in 1..Len(u) : name[n - Len(u) + i] = u[i]
        BY <2>a, <3>2, SuffixMeans
      <4> QED BY <3>2, <4>1
    <3>5. n \in f[t] <=> t - 1 <= n /\ \A i \in 1..t - 1 : name[n - (t - 1) + i] = target[1 + i]
      BY <2>1, <3>1, <3>3
    <3> HIDE DEF u
    <3>6. IsSuffix(u, name) <=> n \in f[t]
      BY <3>2, <3>4, <3>5
    <3> QED BY <2>3, <2>4, <2>10, <3>6 DEF u
  <2>11. CASE ~first /\ last
    <3>1. t > 1 /\ S = {t}
      BY <2>2, <2>8, <2>11
    <3> DEFINE u == SubSeq(target, 1, t - 1)
    <3>3. u \in Seq(Token) /\ Len(u) = t - 1 /\ \A i \in 1..t - 1 : u[i] = target[i]
      <4> DEFINE b == t - 1
                 a == 1
      <4>1. a \in Nat \ {0} /\ b \in Nat /\ a <= b + 1 /\ b <= t /\ b - a + 1 = t - 1
            /\ \A i \in Nat : a + i - 1 = i
        BY <2>1, <3>1
      <4> HIDE DEF a, b
      <4>2. /\ SubSeq(target, a, b) \in Seq(Token) /\ Len(SubSeq(target, a, b)) = b - a + 1
            /\ \A i \in 1..Len(SubSeq(target, a, b)) : SubSeq(target, a, b)[i] = target[a + i - 1]
        BY <2>a, <4>1, PartMeans
      <4>3. \A i \in 1..t - 1 : i \in Nat
        OBVIOUS
      <4> QED BY <4>1, <4>2, <4>3 DEF a, b
    <3> HIDE DEF u
    <3>4. matchSuffix(name, target) <=> IsPrefix(u, name)
      BY <2>3, <2>11, <2>a DEF Front, u
    <3>5. IsPrefix(u, name) <=> Len(u) <= n /\ \A i \in 1..Len(u) : name[i] = u[i]
      BY <3>3, <2>a, PrefixMeans
    <3>6. IsPrefix(u, name) <=> t - 1 <= n /\ \A i \in 1..t - 1 : name[i] = target[i]
      BY <3>3, <3>5
    <3>7. f[t - 1] = {k \in 0..n : k = t - 1 /\ \A i \in 1..t - 1 : name[i] = target[i]}
      <4> DEFINE p == t - 1
      <4>1. 0 \in Nat /\ p \in Nat /\ 0 <= p /\ p <= t /\ f[0] \subseteq 0..n /\ \A j \in 0 + 1..p : j \notin S
        BY <2>1, <2>6, <3>1
      <4> HIDE DEF p
      <4>a. f[p] = Plain(name, target, f[0], 0, p)
        BY <2>5, <4>1
      <4>2. f[p] = {k \in 0..n : k - (p - 0) \in f[0] /\ \A i \in 1..p - 0 : name[k - (p - 0) + i] = target[0 + i]}
        BY <2>a, <4>a DEF Plain
      <4>3. ASSUME NEW k \in 0..n
            PROVE  k - (p - 0) \in f[0] /\ (\A i \in 1..p - 0 : name[k - (p - 0) + i] = target[0 + i])
                   <=> k = p /\ \A i \in 1..p : name[i] = target[i]
        <5>1. p - 0 = p /\ \A i \in 1..p : 0 + i = i
          BY <4>1
        <5>2. k - p \in f[0] <=> k = p
          BY <2>1, <2>6, <4>1
        <5>3. \A i \in 1..p : p - p + i = i
          BY <4>1
        <5> QED BY <5>1, <5>2, <5>3
      <4>4. f[p] = {k \in 0..n : k = p /\ \A i \in 1..p : name[i] = target[i]}
        BY <4>2, <4>3
      <4> QED BY <4>4 DEF p
    <3>8. n \in f[t] <=> t - 1 <= n /\ \A i \in 1..t - 1 : name[i] = target[i]
      <4>1. n \in f[t] <=> \E i \in f[t - 1] : i <= n
        BY <2>1, <2>8, <2>11
      <4> DEFINE Q == \A i \in 1..t - 1 : name[i] = target[i]
      <4>2. \A k : k \in f[t - 1] <=> k \in 0..n /\ k = t - 1 /\ Q
        BY <3>7
      <4> HIDE DEF Q
      <4>3. t - 1 <= n <=> t - 1 \in 0..n
        BY <2>1, <3>1
      <4> QED BY <4>1, <4>2, <4>3 DEF Q
    <3> QED BY <2>4, <3>4, <3>6, <3>8
  <2>12. CASE first /\ last
    <3>1. t > 1 /\ S = {1, t}
      BY <2>2, <2>8, <2>12
    <3> DEFINE parts == Split(target)
               u == SubSeq(target, 2, t - 1)
    <3>2. Len(parts) = 3 /\ DOMAIN parts = 1..3 /\ parts[1] = <<>> /\ parts[2] = u /\ parts[3] = <<>>
      BY <2>a, <3>1, SplitBoth
    <3>3. u \in Seq(Token) /\ Len(u) = t - 2 /\ \A i \in 1..t - 2 : u[i] = target[1 + i]
      <4> DEFINE b == t - 1
                 a == 2
      <4>1. a \in Nat \ {0} /\ b \in Nat /\ a <= b + 1 /\ b <= t /\ b - a + 1 = t - 2
            /\ \A i \in Nat : a + i - 1 = 1 + i
        BY <2>1, <3>1
      <4> HIDE DEF a, b
      <4>2. /\ SubSeq(target, a, b) \in Seq(Token) /\ Len(SubSeq(target, a, b)) = b - a + 1
            /\ \A i \in 1..Len(SubSeq(target, a, b)) : SubSeq(target, a, b)[i] = target[a + i - 1]
        BY <2>a, <4>1, PartMeans
      <4>3. \A i \in 1..t - 2 : i \in Nat
        OBVIOUS
      <4> QED BY <4>1, <4>2, <4>3 DEF a, b
    <3> HIDE DEF parts, u
    <3>4. MatchParts(name, parts) <=> (u = <<>> \/ Positions(name, u) # {})
      <4> DEFINE i == 2
      <4>1. /\ i \in DOMAIN parts /\ i # Len(parts) /\ parts[i] \in Seq(Token) /\ i # 1 /\ parts[i] = u
            /\ \A j \in DOMAIN parts : j # i => parts[j] = <<>>
            /\ DOMAIN parts = 1..Len(parts) /\ Len(parts) \in Nat
        BY <3>2, <3>3
      <4> HIDE DEF i
      <4>2. MatchParts(name, parts) <=> \/ parts[i] = <<>>
                                        \/ /\ Positions(name, parts[i]) # {}
                                           /\ i = 1 => 1 \in Positions(name, parts[i])
        BY <4>1, MatchOne
      <4> QED BY <4>1, <4>2
    <3>5. Positions(name, u) = {i \in 1..n - (t - 2) + 1 : \A k \in 1..t - 2 : name[i + k - 1] = target[1 + k]}
      <4>1. Positions(name, u) = {i \in 1..n - Len(u) + 1 : \A k \in 1..Len(u) : name[i + k - 1] = u[k]}
        <5>1. Positions(name, u) = Places(name, u)
          BY <3>3, PositionsMeans
        <5> QED BY <2>a, <5>1 DEF Places
      <4> QED BY <3>3, <4>1
    <3>6. f[t - 1] = {k \in 0..n : /\ k - (t - 2) \in 0..n
                                   /\ \A i \in 1..t - 2 : name[k - (t - 2) + i] = target[1 + i]}
      <4> DEFINE p == t - 1
                 a == 1
      <4>1. /\ a \in Nat /\ p \in Nat /\ a <= p /\ p <= t /\ f[a] = 0..n /\ p - a = t - 2
            /\ \A j \in a + 1..p : j \notin S
        BY <2>1, <2>7, <2>12, <3>1
      <4> HIDE DEF p, a
      <4>a. f[p] = Plain(name, target, f[a], a, p)
        BY <2>5, <4>1
      <4>2. f[p] = {k \in 0..n : k - (p - a) \in f[a] /\ \A i \in 1..p - a : name[k - (p - a) + i] = target[a + i]}
        BY <2>a, <4>a DEF Plain
      <4> QED BY <4>1, <4>2 DEF p, a
    <3>7. n \in f[t] <=> f[t - 1] # {}
      <4>1. n \in f[t] <=> \E i \in f[t - 1] : i <= n
        BY <2>1, <2>8, <2>12
      <4> QED BY <2>1, <3>6, <4>1
    <3>a. matchSuffix(name, target) <=> MatchParts(name, parts)
      BY <2>3, <2>12 DEF parts
    <3>8. CASE u = <<>>
      <4>1. t - 2 = 0
        BY <3>3, <3>8
      <4>2. 0 \in f[t - 1]
        BY <2>1, <3>6, <4>1
      <4> QED BY <2>4, <3>a, <3>4, <3>7, <3>8, <4>2
    <3>9. CASE u # <<>>
      <4>1. ASSUME NEW i \in Positions(name, u) PROVE f[t - 1] # {}
        <5> DEFINE k == i + (t - 2) - 1
        <5>1. i \in 1..n - (t - 2) + 1 /\ \A j \in 1..t - 2 : name[i + j - 1] = target[1 + j]
          BY <3>5
        <5>2. k \in 0..n /\ k - (t - 2) \in 0..n
          BY <2>1, <3>1, <5>1
        <5>3. \A j \in 1..t - 2 : k - (t - 2) + j = i + j - 1
          BY <2>1, <5>1
        <5> HIDE DEF k
        <5>4. \A j \in 1..t - 2 : name[k - (t - 2) + j] = target[1 + j]
          BY <5>1, <5>3
        <5>5. k \in f[t - 1]
          BY <3>6, <5>2, <5>4
        <5> QED BY <5>5
      <4>2. ASSUME NEW k \in f[t - 1] PROVE Positions(name, u) # {}
        <5> DEFINE i == k - (t - 2) + 1
        <5>1. k \in 0..n /\ k - (t - 2) \in 0..n /\ \A j \in 1..t - 2 : name[k - (t - 2) + j] = target[1 + j]
          BY <3>6
        <5>2. i \in 1..n - (t - 2) + 1
          BY <2>1, <3>1, <5>1
        <5>3. \A j \in 1..t - 2 : i + j - 1 = k - (t - 2) + j
          BY <2>1, <5>1
        <5> HIDE DEF i
        <5>4. \A j \in 1..t - 2 : name[i + j - 1] = target[1 + j]
          BY <5>1, <5>3
        <5>5. i \in Positions(name, u)
          BY <3>5, <5>2, <5>4
        <5> QED BY <5>5
      <4> QED BY <2>4, <3>a, <3>4, <3>7, <3>9, <4>1, <4>2
    <3> QED BY <3>8, <3>9
  <2> QED BY <2>9, <2>10, <2>11, <2>12
<1> QED BY <1>in, <1>out

-----------------------------------------------------------------------------
(* The heading of a counter's lines.                                       *)
Heading(s) ==
    CASE s = "file" -> "SUFFIX"
      [] s = "ransom" -> "DUPLICATED"
      [] s \in {"777", "suid", "sgid"} -> "PERMISSION"
      [] OTHER -> "CONTENT"

(* The files that are reported together with f.                            *)
GroupOf(alias, f, S) ==
    {g \in S : /\ Verdict(alias, g).hit
               /\ Verdict(alias, g).tag = Verdict(alias, f).tag
               /\ File[g].name = File[f].name}

(* The line they are reported on, if the name is one line.                 *)
LineOf(alias, f, S) ==
    LET g == GroupOf(alias, f, S) IN
    Line(alias, File[f].name \o Verdict(alias, f).tag, g, Copies(g))

(* The name and the tag of a file are those of its group.                  *)
LEMMA FileOfGroup ==
  ASSUME NEW alias \in Aliases, NEW S, NEW g \in Groups(alias, S), NEW f \in g
  PROVE  f \in S /\ Verdict(alias, f).hit /\ g = GroupOf(alias, f, S)
<1> DEFINE hits == {x \in S : Verdict(alias, x).hit}
           Same(x, y) == /\ Verdict(alias, y).tag = Verdict(alias, x).tag
                         /\ File[y].name = File[x].name
<1>1. PICK x \in hits : g = {y \in hits : Same(x, y)}
  BY DEF Groups
<1>2. f \in hits /\ Same(x, f)
  BY <1>1
<1>3. \A y : Same(x, y) <=> Same(f, y)
  BY <1>2
<1>4. g = {y \in hits : Same(f, y)}
  BY <1>1, <1>3
<1> QED BY <1>2, <1>4 DEF GroupOf

(* A flagged file is in a group; if its name has neither ":" nor a line    *)
(* break, the group is one line with the name, the tag and the files.      *)
LEMMA GroupOfFile ==
  ASSUME NEW alias \in Aliases, NEW S, S \subseteq Files, IsFiniteSet(S),
         NEW f \in S, Verdict(alias, f).hit
  PROVE  /\ GroupOf(alias, f, S) \in Groups(alias, S) /\ f \in GroupOf(alias, f, S)
         /\ Range(File[f].name) \cap {":", "\n"} = {} =>
               GroupLines(alias, GroupOf(alias, f, S)) = <<LineOf(alias, f, S)>>
<1> DEFINE g == GroupOf(alias, f, S)
           name == File[f].name
<1>1. g \in Groups(alias, S) /\ f \in g
  BY DEF GroupOf, Groups
<1>2. ASSUME Range(name) \cap {":", "\n"} = {}
      PROVE  GroupLines(alias, g) = <<LineOf(alias, f, S)>>
  <2> DEFINE h == CHOOSE x \in g : TRUE
             text == Value(File[h].name)
  <2>1. h \in g
    BY <1>1
  <2>2. File[h].name = name /\ Verdict(alias, h).tag = Verdict(alias, f).tag
    BY <2>1 DEF GroupOf
  <2>3. name \in Seq(Token)
    BY NameType
  <2>4. \A i \in DOMAIN name : name[i] # ":" /\ name[i] # "\n"
    BY <1>2 DEF Range
  <2>5. text = name
    BY <2>2, <2>3, <2>4, ValueType
  <2>6. Breaks(text) = {}
    BY <2>4, <2>5 DEF Breaks
  <2>7. g \subseteq Files /\ g # {} /\ IsFiniteSet(g)
    BY <1>1, GroupsApart
  <2>8. GroupLines(alias, g) = <<Line(alias, text \o Verdict(alias, h).tag, g, Copies(g))>>
    BY <2>6, <2>7, GroupFacts
  <2> QED BY <2>2, <2>5, <2>8 DEF LineOf
<1> QED BY <1>1, <1>2

(* What a line contains.                                                   *)
LEMMA LineHas ==
  ASSUME NEW alias \in Aliases, NEW S, NEW f \in Files
  PROVE  /\ LineOf(alias, f, S).alias = alias /\ LineOf(alias, f, S).files = GroupOf(alias, f, S)
         /\ LineOf(alias, f, S).text = File[f].name \o Verdict(alias, f).tag
         /\ \A x : Has(LineOf(alias, f, S), x)
                     <=> x \in Range(File[f].name) \cup Range(Verdict(alias, f).tag)
<1> DEFINE l == LineOf(alias, f, S)
           a == File[f].name
           b == Verdict(alias, f).tag
           c == a \o b
<1>1. l.alias = alias /\ l.text = c /\ l.files = GroupOf(alias, f, S)
  BY DEF LineOf, Line
<1>2. a \in Seq(Token) /\ b \in Seq(Token)
  BY NameType, TagType
<1> HIDE DEF l, a, b
<1>3. c \in Seq(Token) /\ Range(c) = Range(a) \cup Range(b)
  BY <1>2, ConcatFacts
<1> HIDE DEF c
<1>4. \A x : Contains(c, x) <=> x \in Range(c)
  <2>1. DOMAIN c = 1..Len(c)
    BY <1>3, LenProperties
  <2> QED BY <2>1 DEF Contains, Range
<1> QED BY <1>1, <1>3, <1>4 DEF Has, l, a, b, c

(* The names that are not awkward.                                         *)
LEMMA NotAwkward ==
  ASSUME NEW f \in Files, f \notin Awkward
  PROVE  /\ Range(File[f].name) \cap {"\n", ":", "true", "false", "unmatched-suffix-",
                                      "777=true", "suid=true", "sgid=true"} = {}
         /\ (\E i \in DOMAIN filters : matchSuffix(File[f].name, filters[i]))
              <=> \E i \in DOMAIN filters : Glob(File[f].name, filters[i])
<1> DEFINE name == File[f].name
<1>1. Range(name) \cap {"\n", ":", "true", "false", "unmatched-suffix-",
                        "777=true", "suid=true", "sgid=true"} = {}
  BY DEF Awkward, Named
<1>2. ASSUME NEW i \in DOMAIN filters
      PROVE  matchSuffix(name, filters[i]) <=> Glob(name, filters[i])
  <2>1. ~Misread(name, filters[i])
    BY DEF Awkward
  <2>2. name \in Seq(Token)
    BY NameType
  <2>3. filters[i] \in Seq(Token)
    <3> DEFINE t == filters[i]
    <3>1. t \in Range(filters) /\ t \in Seq(Range(t))
      BY ReportAssumption DEF Range
    <3> HIDE DEF t
    <3>2. Range(t) \subseteq FilterTokens
      BY <3>1 DEF FilterTokens
    <3>3. Range(t) \subseteq Token
      BY <3>2, SomeTokens
    <3>4. t \in Seq(Token)
      BY <3>1, <3>3
    <3> QED BY <3>4 DEF t
  <2> QED BY <2>1, <2>2, <2>3, FilterMeaning
<1> QED BY <1>1, <1>2

(* The phase of a counter reports a file.                                  *)
IsReported(s, f, S) ==
    /\ Verdict(Heading(s), f).hit
    /\ Copies(GroupOf(Heading(s), f, S)) > Threshold(Heading(s))
    /\ s \in SortsOf(LineOf(Heading(s), f, S))

(* Where the only threshold is 0, a flagged file is reported.              *)
LEMMA NoThreshold ==
  ASSUME NEW alias \in Aliases, alias # "DUPLICATED", NEW S, S \subseteq Files, IsFiniteSet(S),
         NEW f \in S, Verdict(alias, f).hit
  PROVE  Copies(GroupOf(alias, f, S)) > Threshold(alias)
<1> DEFINE g == GroupOf(alias, f, S)
<1>1. f \in g /\ g \subseteq S
  BY DEF GroupOf
<1> HIDE DEF g
<1>2. Copies(g) > 0
  BY <1>1, CopiesFacts
<1> QED BY <1>2 DEF g, Threshold

(* The files with a suffix of a filter.                                    *)
LEMMA SuffixFilesMean ==
  ASSUME tree \in Trees, NEW f \in tree.files, f \notin Awkward
  PROVE  Belongs("file", f) <=> IsReported("file", f, tree.files)
<1> DEFINE S == tree.files
           H == {i \in DOMAIN filters : matchSuffix(File[f].name, filters[i])}
           l == LineOf("SUFFIX", f, S)
<1>1. S \subseteq Files /\ IsFiniteSet(S) /\ f \in Files /\ "SUFFIX" \in Aliases
  BY ReportAssumption DEF Aliases
<1>2. Heading("file") = "SUFFIX"
  BY DEF Heading
<1>3. Verdict("SUFFIX", f).hit <=> H # {}
  BY DEF Verdict, Suffix
<1>4. Belongs("file", f) <=> \E i \in DOMAIN filters : Glob(File[f].name, filters[i])
  BY DEF Belongs
<1>5. H # {} <=> Belongs("file", f)
  BY <1>1, <1>4, NotAwkward
<1>6. l.alias = "SUFFIX"
  BY <1>1, LineHas
<1> HIDE DEF l
<1>7. "file" \in SortsOf(l)
  BY <1>6 DEF SortsOf, Sorts
<1>8. Verdict("SUFFIX", f).hit => Copies(GroupOf("SUFFIX", f, S)) > Threshold("SUFFIX")
  BY <1>1, NoThreshold
<1> QED BY <1>2, <1>3, <1>5, <1>7, <1>8 DEF IsReported, l

(* The files that have copies under their name.                            *)
LEMMA RansomMeans ==
  ASSUME tree \in Trees, NEW f \in tree.files
  PROVE  Belongs("ransom", f) <=> IsReported("ransom", f, tree.files)
<1> DEFINE S == tree.files
           l == LineOf("DUPLICATED", f, S)
           G == {g \in S : ~File[g].big /\ File[g].md5 = File[f].md5 /\ File[g].name = File[f].name}
<1>1. f \in Files /\ "DUPLICATED" \in Aliases
  BY ReportAssumption DEF Aliases
<1>2. Heading("ransom") = "DUPLICATED" /\ Threshold("DUPLICATED") = DupThreshold
  BY DEF Heading, Threshold
<1>3. \A g : (Verdict("DUPLICATED", g).hit <=> ~File[g].big) /\ Verdict("DUPLICATED", g).tag = <<File[g].md5>>
  BY DEF Verdict, Duplicated
<1>4. GroupOf("DUPLICATED", f, S) = G
  <2>1. \A x, y : <<x>> = <<y>> <=> x = y
    OBVIOUS
  <2> QED BY <1>3, <2>1 DEF GroupOf
<1>5. Belongs("ransom", f) <=> ~File[f].big /\ DupThreshold < Copies(G)
  BY DEF Belongs
<1>6. l.alias = "DUPLICATED"
  BY <1>1, LineHas
<1> HIDE DEF l, G
<1>7. "ransom" \in SortsOf(l)
  BY <1>6 DEF SortsOf, Sorts
<1>8. IsReported("ransom", f, S) <=> ~File[f].big /\ Copies(G) > DupThreshold
  BY <1>2, <1>3, <1>4, <1>7 DEF IsReported, l
<1>9. Copies(G) > DupThreshold <=> DupThreshold < Copies(G)
  OBVIOUS
<1> QED BY <1>5, <1>8, <1>9

(* The files with permissions that say much.                               *)
LEMMA PermissionMeans ==
  ASSUME tree \in Trees, NEW f \in tree.files, f \notin Awkward, NEW s \in {"777", "suid", "sgid"}
  PROVE  Belongs(s, f) <=> IsReported(s, f, tree.files)
<1> DEFINE S == tree.files
           l == LineOf("PERMISSION", f, S)
           a == IF File[f].all777 THEN "777=true" ELSE "777=false"
           b == IF File[f].suid THEN "suid=true" ELSE "suid=false"
           c == IF File[f].sgid THEN "sgid=true" ELSE "sgid=false"
<1>1. S \subseteq Files /\ IsFiniteSet(S) /\ f \in Files /\ "PERMISSION" \in Aliases
  BY ReportAssumption DEF Aliases
<1>2. Heading(s) = "PERMISSION"
  BY DEF Heading
<1>3. /\ Verdict("PERMISSION", f).hit <=> File[f].all777 \/ File[f].suid \/ File[f].sgid
      /\ Verdict("PERMISSION", f).tag = <<a, b, c>>
  BY DEF Verdict, Permissions
<1>4. Range(<<a, b, c>>) = {a, b, c}
  <2> HIDE DEF a, b, c
  <2> DEFINE u == <<a, b, c>>
  <2>1. DOMAIN u = 1..3 /\ u[1] = a /\ u[2] = b /\ u[3] = c
    OBVIOUS
  <2> HIDE DEF u
  <2>2. 1..3 = {1, 2, 3}
    OBVIOUS
  <2>3. Range(u) = {a, b, c}
    BY <2>1, <2>2 DEF Range
  <2> QED BY <2>3 DEF u
<1>5. l.alias = "PERMISSION" /\ \A x : Has(l, x) <=> x \in Range(File[f].name) \cup {a, b, c}
  BY <1>1, <1>3, <1>4, LineHas
<1>6. "777=true" \notin Range(File[f].name) /\ "suid=true" \notin Range(File[f].name)
      /\ "sgid=true" \notin Range(File[f].name)
  BY <1>1, NotAwkward
<1> HIDE DEF l
<1>7. /\ Has(l, "777=true") <=> File[f].all777
      /\ Has(l, "suid=true") <=> File[f].suid
      /\ Has(l, "sgid=true") <=> File[f].sgid
  BY <1>5, <1>6
<1>8. s \in SortsOf(l) <=> Belongs(s, f)
  <2>1. CASE s = "777"
    BY <1>5, <1>7, <2>1 DEF SortsOf, Sorts, Belongs
  <2>2. CASE s = "suid"
    BY <1>5, <1>7, <2>2 DEF SortsOf, Sorts, Belongs
  <2>3. CASE s = "sgid"
    BY <1>5, <1>7, <2>3 DEF SortsOf, Sorts, Belongs
  <2> QED BY <2>1, <2>2, <2>3
<1>9. Belongs(s, f) => Verdict("PERMISSION", f).hit
  BY <1>3 DEF Belongs
<1>10. Verdict("PERMISSION", f).hit => Copies(GroupOf("PERMISSION", f, S)) > Threshold("PERMISSION")
  BY <1>1, NoThreshold
<1> QED BY <1>2, <1>8, <1>9, <1>10 DEF IsReported, l

(* ".tar.gz" stands in a name, never across the end of it.                 *)
LEMMA ArchivePlaces ==
  ASSUME NEW U, NEW name \in Seq(U), NEW tag \in Seq(U), NEW x \in U, NEW y \in U, y \notin Range(tag)
  PROVE  Positions(name \o tag, <<x, y>>) # {} <=> Positions(name, <<x, y>>) # {}
<1> DEFINE c == name \o tag
           p == <<x, y>>
           n == Len(name)
           m == Len(tag)
<1>1. n \in Nat /\ m \in Nat /\ p \in Seq(U) /\ Len(p) = 2 /\ p[1] = x /\ p[2] = y
  BY LenProperties
<1>2. /\ c \in Seq(U) /\ Len(c) = n + m
      /\ \A i \in 1..n + m : c[i] = IF i <= n THEN name[i] ELSE tag[i - n]
  BY ConcatProperties
<1> HIDE DEF c, p
<1>3. \A s \in Seq(U), i \in Nat \ {0} :
         i \in Positions(s, p) <=> i + 1 <= Len(s) /\ s[i] = x /\ s[i + 1] = y
  <2> SUFFICES ASSUME NEW s \in Seq(U), NEW i \in Nat \ {0}
               PROVE  i \in Positions(s, p) <=> i + 1 <= Len(s) /\ s[i] = x /\ s[i + 1] = y
    OBVIOUS
  <2>1. Positions(s, p) = {j \in 1..Len(s) - Len(p) + 1 : \A k \in 1..Len(p) : s[j + k - 1] = p[k]}
    <3>1. Positions(s, p) = Places(s, p)
      BY <1>1, PositionsMeans
    <3> QED BY <3>1 DEF Places
  <2>2. i \in Positions(s, p) <=> i \in 1..Len(s) - 2 + 1 /\ \A k \in 1..2 : s[i + k - 1] = p[k]
    BY <1>1, <2>1
  <2>3. Len(s) \in Nat /\ 1..2 = {1, 2} /\ i + 1 - 1 = i /\ i + 2 - 1 = i + 1
    BY LenProperties
  <2>4. i \in 1..Len(s) - 2 + 1 <=> i + 1 <= Len(s)
    BY <2>3
  <2> QED BY <1>1, <2>2, <2>3, <2>4
<1>4. \A s \in Seq(U) : Positions(s, p) \subseteq Nat \ {0}
  BY DEF Positions
<1>5. ASSUME NEW i \in Positions(name, p) PROVE i \in Positions(c, p)
  <2>1. i \in Nat \ {0} /\ i + 1 <= n /\ name[i] = x /\ name[i + 1] = y
    BY <1>3, <1>4
  <2>2. i \in 1..n + m /\ i + 1 \in 1..n + m /\ i <= n
    BY <1>1, <2>1
  <2>3. c[i] = name[i] /\ c[i + 1] = name[i + 1]
    BY <1>2, <2>1, <2>2
  <2> QED BY <1>1, <1>2, <1>3, <2>1, <2>2, <2>3
<1>6. ASSUME NEW i \in Positions(c, p) PROVE i \in Positions(name, p)
  <2>1. i \in Nat \ {0} /\ i + 1 <= n + m /\ c[i] = x /\ c[i + 1] = y
    BY <1>2, <1>3, <1>4
  <2>2. i + 1 <= n
    <3> SUFFICES ASSUME ~(i + 1 <= n) PROVE FALSE
      OBVIOUS
    <3>1. i + 1 \in 1..n + m /\ i + 1 - n \in 1..m
      BY <1>1, <2>1
    <3>2. c[i + 1] = tag[i + 1 - n]
      BY <1>1, <1>2, <2>1, <3>1
    <3>3. tag[i + 1 - n] \in Range(tag)
      BY <3>1, LenProperties DEF Range
    <3> QED BY <2>1, <3>2, <3>3
  <2>3. i \in 1..n + m /\ i + 1 \in 1..n + m /\ i <= n
    BY <1>1, <2>1, <2>2
  <2>4. c[i] = name[i] /\ c[i + 1] = name[i + 1]
    BY <1>2, <2>2, <2>3
  <2> QED BY <1>3, <2>1, <2>2, <2>4
<1> QED BY <1>5, <1>6 DEF c, p

(* The documents and archives that are protected, or not what they are     *)
(* called.                                                                 *)
LEMMA ContentMeans ==
  ASSUME tree \in Trees, NEW f \in tree.files, f \notin Awkward,
         NEW s \in {"oa", "pdf", "oaPwd", "pdfPwd", "zipPwd"}
  PROVE  Belongs(s, f) <=> IsReported(s, f, tree.files)
<1> DEFINE S == tree.files
           l == LineOf("CONTENT", f, S)
           name == File[f].name
           r == check(f)
           a == IF r.encrypted THEN "true" ELSE "false"
           b == IF r.matched THEN "matched-suffix-"
                ELSE IF r.kind = {} THEN "unmatched-suffix" ELSE "unmatched-suffix-"
           office == Named(f, OfficeNames)
           pdf == Named(f, {".pdf"}) /\ ~office
           secret == r.encrypted
           strange == ~secret /\ ~r.matched /\ r.kind # {}
           tar == Positions(name, <<".tar", ".gz">>) # {}
<1>1. S \subseteq Files /\ IsFiniteSet(S) /\ f \in Files /\ "CONTENT" \in Aliases
  BY ReportAssumption DEF Aliases
<1>2. Heading(s) = "CONTENT"
  BY DEF Heading
<1> DEFINE k == IF r.kind = {} THEN <<>> ELSE <<Formats[Min(r.kind)]>>
           tag == <<a, b>> \o k
<1>3. /\ Verdict("CONTENT", f).hit <=> r.encrypted \/ ~r.matched
      /\ Verdict("CONTENT", f).tag = tag
  BY DEF Verdict, Content
<1>4. /\ tag \in Seq(Token) /\ {a, b} \subseteq Range(tag)
      /\ \A x \in Range(tag) : x \in {a, b} \cup Kinds
  <2>1. tag \in Seq(Token)
    BY <1>1, <1>3, TagType
  <2> DEFINE u == <<a, b>>
  <2>2. a \in Token /\ b \in Token
    BY SomeTokens
  <2>3. DOMAIN u = 1..2 /\ u[1] = a /\ u[2] = b /\ 1..2 = {1, 2} /\ u \in Seq(Token)
    <3> HIDE DEF a, b
    <3> QED BY <2>2
  <2>4. Range(u) = {a, b}
    <3> HIDE DEF a, b, u
    <3> QED BY <2>3 DEF Range
  <2>5. k \in Seq(Token) /\ Range(k) \subseteq Kinds
    <3>1. CASE r.kind = {}
      <4> DEFINE e == <<>>
      <4>1. e \in Seq(Token) /\ DOMAIN e = {}
        OBVIOUS
      <4> HIDE DEF e
      <4>2. Range(e) = {}
        BY <4>1 DEF Range
      <4> QED BY <3>1, <4>1, <4>2 DEF e
    <3>2. CASE r.kind # {}
      <4> DEFINE x == Formats[Min(r.kind)]
                 one == <<x>>
      <4>1. x \in Kinds /\ x \in Token
        BY <3>2, KindFacts, SomeTokens
      <4>2. k = one
        BY <3>2
      <4> HIDE DEF x
      <4>3. one \in Seq(Token) /\ DOMAIN one = {1} /\ one[1] = x
        BY <4>1
      <4> HIDE DEF one
      <4>4. Range(one) = {x}
        BY <4>3 DEF Range
      <4> QED BY <4>1, <4>2, <4>3, <4>4
    <3> QED BY <3>1, <3>2
  <2> HIDE DEF u, k, a, b
  <2>6. Range(u \o k) = Range(u) \cup Range(k)
    BY <2>3, <2>5, ConcatFacts
  <2>7. tag = u \o k
    BY DEF u
  <2> QED BY <2>1, <2>4, <2>5, <2>6, <2>7
<1> HIDE DEF tag, k
<1>5. /\ l.alias = "CONTENT" /\ l.text = name \o tag
      /\ \A x : Has(l, x) <=> x \in Range(name) \cup Range(tag)
  <2>1. /\ l.alias = "CONTENT" /\ l.text = name \o Verdict("CONTENT", f).tag
        /\ \A x : Has(l, x) <=> x \in Range(name) \cup Range(Verdict("CONTENT", f).tag)
    <3> DEFINE al == "CONTENT"
    <3>1. al \in Aliases /\ f \in Files
      BY <1>1
    <3> HIDE DEF al, S
    <3>2. /\ LineOf(al, f, S).alias = al
          /\ LineOf(al, f, S).text = File[f].name \o Verdict(al, f).tag
      BY DEF LineOf, Line
    <3>3. \A x : Has(LineOf(al, f, S), x) <=> x \in Range(File[f].name) \cup Range(Verdict(al, f).tag)
      BY <3>1, LineHas
    <3> QED BY <3>2, <3>3 DEF al
  <2> HIDE DEF l, a, b
  <2> QED BY <1>3, <2>1
<1>b. \A x : x \notin Kinds => (x \in Range(tag) <=> x \in {a, b})
  BY <1>4
<1>6. "true" \notin Range(name) /\ "false" \notin Range(name) /\ "unmatched-suffix-" \notin Range(name)
  BY <1>1, NotAwkward
<1>7. (\E i \in Positions(l.text, <<".tar", ".gz">>) : TRUE) <=> tar
  <2> DEFINE U == Token \cup {".tar", ".gz"}
             x == ".tar"
             y == ".gz"
  <2>1. name \in Seq(U) /\ tag \in Seq(U) /\ x \in U /\ y \in U
    <3>1. name \in Seq(Token)
      BY <1>1, NameType
    <3> QED BY <1>4, <3>1
  <2>2. y \notin Range(tag)
    BY <1>b DEF Kinds
  <2> HIDE DEF U, x, y
  <2>3. Positions(name \o tag, <<x, y>>) # {} <=> Positions(name, <<x, y>>) # {}
    BY <2>1, <2>2, ArchivePlaces
  <2> QED BY <1>5, <2>3 DEF x, y
<1> HIDE DEF l, tar
<1>8. /\ Has(l, "true") <=> secret
      /\ Has(l, "false") /\ Has(l, "unmatched-suffix-") <=> strange
  <2>0. \A x \in {"true", "false", "unmatched-suffix-"} : Has(l, x) <=> x \in {a, b}
    BY <1>5, <1>6, <1>b DEF Kinds
  <2>1. Has(l, "true") <=> secret
    BY <2>0
  <2>2. Has(l, "false") <=> ~secret
    BY <2>0
  <2>3. Has(l, "unmatched-suffix-") <=> ~r.matched /\ r.kind # {}
    BY <2>0
  <2> QED BY <2>1, <2>2, <2>3
<1>9. \A x \in {".docx", ".xlsx", ".pptx", ".pdf", ".zip"} : Has(l, x) <=> x \in Range(name)
  BY <1>5, <1>b DEF Kinds
<1>10. IsOffice(l) <=> office
  BY <1>9 DEF IsOffice, Named, OfficeNames
<1>11. IsPDF(l) <=> pdf
  BY <1>9, <1>10 DEF IsPDF, Named
<1>12. IsArchive(l) <=> (Named(f, {".zip"}) \/ tar) /\ ~office /\ ~pdf
  BY <1>7, <1>9, <1>10, <1>11 DEF IsArchive, Named
<1> HIDE DEF office, pdf, secret, strange
<1>13. Protected(l) <=> secret
  BY <1>5, <1>8 DEF Protected
<1>14. Mismatched(l) <=> strange
  BY <1>5, <1>8 DEF Mismatched
<1>15. s \in SortsOf(l) <=> CASE s = "oaPwd" -> secret /\ office
                               [] s = "pdfPwd" -> secret /\ pdf
                               [] s = "zipPwd" -> secret /\ (Named(f, {".zip"}) \/ tar) /\ ~office /\ ~pdf
                               [] s = "oa" -> strange /\ office
                               [] s = "pdf" -> strange /\ pdf
  BY <1>10, <1>11, <1>12, <1>13, <1>14 DEF SortsOf, Sorts
<1>16. Belongs(s, f) <=> CASE s = "oaPwd" -> secret /\ office
                           [] s = "pdfPwd" -> secret /\ pdf
                           [] s = "zipPwd" -> secret /\ (Named(f, {".zip"}) \/ tar) /\ ~office /\ ~pdf
                           [] s = "oa" -> strange /\ office
                           [] s = "pdf" -> strange /\ pdf
  BY DEF Belongs, RightExtension, office, pdf, secret, strange, tar
<1>17. Belongs(s, f) => secret \/ strange
  BY <1>16
<1>18. Belongs(s, f) => Verdict("CONTENT", f).hit
  BY <1>3, <1>17 DEF secret, strange
<1>19. Verdict("CONTENT", f).hit => Copies(GroupOf("CONTENT", f, S)) > Threshold("CONTENT")
  BY <1>1, NoThreshold
<1>20. Belongs(s, f) <=> s \in SortsOf(l)
  BY <1>15, <1>16
<1> QED BY <1>2, <1>18, <1>19, <1>20 DEF IsReported, l


(* A counter is about the files that its phase reports.                    *)
LEMMA BelongsMeans ==
  ASSUME tree \in Trees, NEW f \in tree.files, f \notin Awkward, NEW s \in Sorts
  PROVE  Belongs(s, f) <=> IsReported(s, f, tree.files)
<1>1. CASE s = "file"
  BY <1>1, SuffixFilesMean
<1>2. CASE s = "ransom"
  BY <1>2, RansomMeans
<1>3. CASE s \in {"777", "suid", "sgid"}
  BY <1>3, PermissionMeans
<1>4. CASE s \in {"oa", "pdf", "oaPwd", "pdfPwd", "zipPwd"}
  BY <1>4, ContentMeans
<1> QED BY <1>1, <1>2, <1>3, <1>4 DEF Sorts

(* A line of the report that a counter is about, with a file whose name is *)
(* not awkward, is the line of that file.                                  *)
LEMMA LineIsOf ==
  ASSUME tree \in Trees, NEW i \in 1..Len(Lines), NEW s \in SortsOf(Lines[i]),
         NEW f \in Lines[i].files, f \notin Awkward
  PROVE  f \in tree.files /\ s \in Sorts /\ IsReported(s, f, tree.files)
<1> DEFINE S == tree.files
           x == Lines[i]
<1>1. S \subseteq Files /\ IsFiniteSet(S)
  BY ReportAssumption
<1>2. s \in Sorts /\ x.alias = Heading(s) /\ x.alias \in Aliases
  BY SortAlias DEF Heading
<1>3. x \in Range(Lines)
  <2>1. DOMAIN Lines = 1..Len(Lines)
    BY LinesFacts DEF Lines
  <2> QED BY <2>1 DEF Range
<1>4. PICK a \in Aliases, g \in SUBSET S : g \in Reported(a, S) /\ x \in Range(GroupLines(a, g))
  <2>1. FileCountLine(tree.root, S).alias = "FileCount"
    BY ReportFacts
  <2>2. "FileCount" \notin Aliases
    BY DEF Aliases
  <2>3. Range(Lines) = {FileCountLine(tree.root, S)}
                           \cup UNION {Range(GroupLines(p[1], p[2])) :
                                          p \in {q \in Aliases \X SUBSET S : q[2] \in Reported(q[1], S)}}
    BY ReportFacts DEF Lines
  <2>4. x # FileCountLine(tree.root, S)
    BY <1>2, <2>1, <2>2
  <2>5. PICK p \in {q \in Aliases \X SUBSET S : q[2] \in Reported(q[1], S)} :
              x \in Range(GroupLines(p[1], p[2]))
    BY <1>3, <2>3, <2>4
  <2> QED BY <2>5
<1>5. g \in Groups(a, S) /\ Copies(g) > Threshold(a)
  BY <1>4 DEF Reported
<1>6. g \subseteq Files /\ g # {} /\ IsFiniteSet(g)
  BY <1>1, <1>5, GroupsApart
<1>7. x.alias \in {a, ""} /\ (x.files = {} \/ x.files = g)
  <2>1. \A y \in Range(GroupLines(a, g)) : y.alias \in {a, ""} /\ (y.files = {} \/ y.files = g)
    BY <1>6, GroupFacts
  <2> HIDE DEF x
  <2> QED BY <1>4, <2>1
<1>8. x.files = g /\ f \in g /\ a = Heading(s)
  BY <1>2, <1>7 DEF Aliases
<1>9. f \in S /\ Verdict(a, f).hit /\ g = GroupOf(a, f, S)
  BY <1>5, <1>8, FileOfGroup
<1>10. Range(File[f].name) \cap {":", "\n"} = {}
  <2>1. f \in Files
    BY <1>1, <1>9
  <2> QED BY <2>1, NotAwkward
<1>11. GroupLines(a, g) = <<LineOf(a, f, S)>>
  BY <1>1, <1>9, <1>10, GroupOfFile
<1>12. x = LineOf(a, f, S)
  <2> DEFINE y == LineOf(a, f, S)
             one == <<y>>
  <2>1. DOMAIN one = {1} /\ one[1] = y
    OBVIOUS
  <2>2. x \in Range(one)
    BY <1>4, <1>11
  <2> HIDE DEF one, y
  <2>3. x = y
    BY <2>1, <2>2 DEF Range
  <2> QED BY <2>3 DEF y
<1>13. s \in SortsOf(LineOf(a, f, S))
  BY <1>12
<1> QED BY <1>2, <1>5, <1>8, <1>9, <1>13 DEF IsReported

(* A file that is reported has its line in the report.                     *)
LEMMA LineOfReported ==
  ASSUME tree \in Trees, NEW f \in tree.files, f \notin Awkward, NEW s \in Sorts,
         IsReported(s, f, tree.files)
  PROVE  \E i \in 1..Len(Lines) : s \in SortsOf(Lines[i]) /\ f \in Lines[i].files
<1> DEFINE S == tree.files
           a == Heading(s)
           g == GroupOf(a, f, S)
           y == LineOf(a, f, S)
<1>1. S \subseteq Files /\ IsFiniteSet(S) /\ f \in Files
  BY ReportAssumption
<1>2. a \in Aliases
  BY DEF Heading, Aliases, Sorts
<1>3. Verdict(a, f).hit /\ Copies(g) > Threshold(a) /\ s \in SortsOf(y)
  BY DEF IsReported
<1> HIDE DEF a
<1>4. g \in Groups(a, S) /\ f \in g /\ GroupLines(a, g) = <<y>>
  <2>1. Range(File[f].name) \cap {":", "\n"} = {}
    BY <1>1, NotAwkward
  <2> QED BY <1>1, <1>2, <1>3, <2>1, GroupOfFile
<1>5. g \in Reported(a, S) /\ g \in SUBSET S
  BY <1>1, <1>2, <1>3, <1>4, GroupsApart DEF Reported
<1>6. y \in Range(GroupLines(a, g)) /\ y.files = g
  <2> DEFINE one == <<y>>
  <2>0. y.files = g
    BY <1>1, <1>2, LineHas
  <2> HIDE DEF y
  <2>1. DOMAIN one = {1} /\ one[1] = y
    OBVIOUS
  <2>2. y \in Range(one)
    <3> HIDE DEF one
    <3> QED BY <2>1 DEF Range
  <2> QED BY <1>4, <2>0, <2>2
<1> HIDE DEF g, y
<1>7. y \in Range(Lines)
  <2> DEFINE P == {q \in Aliases \X SUBSET S : q[2] \in Reported(q[1], S)}
             p == <<a, g>>
  <2>1. p \in P /\ p[1] = a /\ p[2] = g
    BY <1>2, <1>5
  <2>2. Range(Lines) = {FileCountLine(tree.root, S)} \cup UNION {Range(GroupLines(q[1], q[2])) : q \in P}
    BY ReportFacts DEF Lines
  <2> HIDE DEF P, p
  <2>3. y \in Range(GroupLines(p[1], p[2]))
    BY <1>6, <2>1
  <2> QED BY <2>1, <2>2, <2>3
<1>8. PICK i \in 1..Len(Lines) : Lines[i] = y
  <2>1. DOMAIN Lines = 1..Len(Lines)
    BY LinesFacts DEF Lines
  <2> QED BY <1>7, <2>1 DEF Range
<1>9. s \in SortsOf(Lines[i]) /\ f \in Lines[i].files
  BY <1>3, <1>4, <1>6, <1>8 DEF y
<1> QED BY <1>9

(* What the first n lines of the report say of a file.                     *)
LEMMA CountedMeans ==
  ASSUME tree \in Trees, NEW f \in tree.files, f \notin Awkward, NEW s \in Sorts,
         NEW n \in Nat, n <= Len(Lines)
  PROVE  /\ f \in Counted(Lines, s, n) => Belongs(s, f)
         /\ n = Len(Lines) /\ Belongs(s, f) => f \in Counted(Lines, s, n)
<1>1. Len(Lines) \in Nat
  BY TreeFacts
<1>2. ASSUME f \in Counted(Lines, s, n) PROVE Belongs(s, f)
  <2>1. PICK i \in 1..n : s \in SortsOf(Lines[i]) /\ f \in Lines[i].files
    BY <1>2 DEF Counted
  <2>2. i \in 1..Len(Lines)
    BY <1>1
  <2>3. IsReported(s, f, tree.files)
    BY <2>1, <2>2, LineIsOf
  <2> QED BY <2>3, BelongsMeans
<1>3. ASSUME n = Len(Lines), Belongs(s, f) PROVE f \in Counted(Lines, s, n)
  <2>1. IsReported(s, f, tree.files)
    BY <1>3, BelongsMeans
  <2>2. PICK i \in 1..Len(Lines) : s \in SortsOf(Lines[i]) /\ f \in Lines[i].files
    BY <2>1, LineOfReported
  <2> QED BY <1>3, <2>2 DEF Counted
<1> QED BY <1>2, <1>3

(* When the result is printed the workers have taken what the scanner      *)
(* read, the first line at least, and the rest is unread.                  *)
LEMMA DoneFacts ==
  ASSUME IInv, main = "printed"
  PROVE  /\ tree \in Trees /\ Taken \in Nat /\ Taken > 0 /\ Taken <= Len(Lines)
         /\ ~TooLong => Taken = Len(Lines)
         /\ Lines[1] = FileCountLine(tree.root, tree.files)
<1>1. tree \in Trees /\ unread \in Seq(LineType)
  BY DEF IInv, TypeInv, TypeOK
<1>2. Len(Lines) \in Nat /\ Len(Lines) > 0 /\ Lines[1] = FileCountLine(tree.root, tree.files)
  BY <1>1, TreeFacts
<1>3. PICK w \in Workers : TRUE
  <2>1. Workers # {}
    BY ReportAssumption
  <2> QED BY <2>1
<1>4. scanner = "ended" /\ lineChan = <<>> /\ ~Readable
  BY <1>3 DEF IInv, EndInv
<1>5. Len(lineChan) = 0
  BY <1>4, EmptySeq
<1>6. Len(unread) \in Nat /\ (unread = <<>> <=> Len(unread) = 0) /\ (unread # <<>> => Head(unread) = unread[1])
  BY <1>1, LenProperties, EmptySeq, HeadTailProperties
<1>7. Taken = Len(Lines) - Len(unread) /\ Taken \in Nat
  BY <1>2, <1>5, <1>6 DEF IInv, QueueInv, Taken
<1>8. ~TooLong => Taken = Len(Lines)
  BY <1>2, <1>6, <1>7 DEF TooLong
<1>9. Taken > 0
  <2> SUFFICES ASSUME Taken = 0 PROVE FALSE
    BY <1>7
  <2>1. Len(unread) > 0
    BY <1>2, <1>6, <1>7
  <2>2. 1 \in 1..Len(unread) /\ Taken + Len(lineChan) + 1 = 1
    BY <1>5, <1>6, <2>1
  <2>3. unread[1] = Lines[1]
    BY <2>2 DEF IInv, QueueInv
  <2>4. Head(unread).long /\ Head(unread) = Lines[1]
    BY <1>4, <1>6, <2>1, <2>3 DEF Readable
  <2>5. Cardinality({}) = 0
    BY FS_EmptySet
  <2>6. ~Lines[1].long
    <3> DEFINE n == IF tree.root = "with :" THEN 0 ELSE Copies(tree.files)
               l == Line("FileCount", <<>>, {}, n)
               b == tree.root # "none"
               c == Cardinality({}) > 0 /\ n > MaxToken
    <3>0. ~c
      <4> DEFINE k == Cardinality({})
      <4>1. k = 0
        BY <2>5
      <4> HIDE DEF k
      <4>2. ~(k > 0)
        BY <4>1
      <4> QED BY <4>2 DEF k
    <3>1. Lines[1] = [l EXCEPT !.splits = b]
      BY <1>2 DEF FileCountLine
    <3> HIDE DEF n, b
    <3>2. l = [alias |-> "FileCount", text |-> <<>>, files |-> {}, count |-> n, splits |-> TRUE,
               long |-> c]
      BY DEF Line
    <3> HIDE DEF l, c
    <3>3. "long" \in DOMAIN l /\ ~l.long
      BY <3>0, <3>2
    <3>4. [l EXCEPT !.splits = b].long = l.long
      BY <3>3
    <3> QED BY <3>1, <3>3, <3>4
  <2> QED BY <2>4, <2>6
<1>10. Taken <= Len(Lines)
  BY <1>2, <1>6, <1>7
<1> QED BY <1>1, <1>2, <1>7, <1>8, <1>9, <1>10

(* frs -report: whatever the goroutines' order, a counter counts each file *)
(* that belongs to it, with all its copies, and no other, but for names    *)
(* that cannot be written on a line or are misread, and lines too long to  *)
(* be read, if no name starts with a line that is a number.                *)
THEOREM TotalsAreExact == Spec => []TotalsExact
<1>1. IInv => TotalsExact
  <2> SUFFICES ASSUME IInv, main = "printed", ~Numbered, NEW s \in Sorts
               PROVE  /\ total[s] <= Copies(Share(s) \ Awkward) + Copies(tree.files \cap Awkward)
                      /\ TooLong \/ total[s] >= Copies(Share(s) \ Awkward)
    BY DEF TotalsExact
  <2> DEFINE S == tree.files
             good == Share(s) \ Awkward
             odd == S \cap Awkward
             C == Counted(Lines, s, Taken)
  <2>1. /\ tree \in Trees /\ Taken \in Nat /\ Taken <= Len(Lines)
        /\ ~TooLong => Taken = Len(Lines)
    BY DoneFacts
  <2>2. S \subseteq Files /\ IsFiniteSet(S) /\ C \subseteq S
    BY <2>1, TreeFacts
  <2>3. total[s] = Copies(C)
    BY DoneLists
  <2>4. good \subseteq S /\ odd \subseteq S /\ good \cap odd = {} /\ (good \cup odd) \subseteq S
    BY DEF Share
  <2>5. C \subseteq good \cup odd
    <3> SUFFICES ASSUME NEW f \in C, f \notin Awkward PROVE f \in Share(s)
      BY <2>2
    <3>1. Belongs(s, f)
      BY <2>1, <2>2, CountedMeans
    <3> QED BY <2>2, <3>1 DEF Share
  <2>6. ~TooLong => good \subseteq C
    <3> SUFFICES ASSUME ~TooLong, NEW f \in Share(s), f \notin Awkward PROVE f \in C
      OBVIOUS
    <3>1. f \in S /\ Belongs(s, f)
      BY DEF Share
    <3> QED BY <2>1, <3>1, CountedMeans
  <2> HIDE DEF S, good, odd, C
  <2>7. Copies(good \cup odd) = Copies(good) + Copies(odd) /\ Copies(good) \in Nat /\ Copies(odd) \in Nat
    BY <2>2, <2>4, CopiesFacts
  <2>8. Copies(C) <= Copies(good \cup odd) /\ Copies(C) \in Nat
    BY <2>2, <2>4, <2>5, CopiesFacts
  <2>9. ~TooLong => Copies(good) <= Copies(C)
    BY <2>2, <2>4, <2>6, CopiesFacts
  <2>10. total[s] <= Copies(good) + Copies(odd)
    BY <2>3, <2>7, <2>8
  <2>11. TooLong \/ total[s] >= Copies(good)
    BY <2>3, <2>7, <2>8, <2>9
  <2> QED BY <2>10, <2>11 DEF S, good, odd
<1> QED BY <1>1, Invariance, PTL

-----------------------------------------------------------------------------
(* What is printed is the sum of the scores, if they are numbers.          *)
OutputInv == main = "printed" => output = IF FileScore = NotANumber THEN <<>> ELSE <<HealthScore>>

(* OutputInv holds in every state: nothing is counted after the result.    *)
LEMMA OutputInvariance == Spec => []OutputInv
<1>1. Init => OutputInv
  BY DEF Init, OutputInv
<1>2. OutputInv /\ [Next]_vars => OutputInv'
  <2> SUFFICES ASSUME OutputInv, [Next]_vars, main' = "printed"
               PROVE  output' = IF FileScore' = NotANumber THEN <<>> ELSE <<HealthScore'>>
    BY DEF OutputInv
  <2>1. UNCHANGED <<FileCount, total>> => FileScore' = FileScore /\ HealthScore' = HealthScore
    BY DEF FileScore, HealthScore, EigenvalueScore, Score
  <2>2. CASE PrintReport
    BY <2>1, <2>2 DEF PrintReport, resultVars
  <2>3. CASE UNCHANGED vars
    BY <2>1, <2>3 DEF vars, resultVars, OutputInv
  <2>4. CASE Open
    BY <2>4 DEF Open
  <2>5. CASE Scan
    BY <2>5 DEF Scan
  <2>6. CASE ScanEnds
    BY <2>6 DEF ScanEnds
  <2>7. ASSUME NEW w \in Workers, Worker(w) PROVE main' # "printed"
    BY <2>7 DEF Worker, TakeLine, ReadList, WriteList, WorkerDone
  <2> QED BY <2>2, <2>3, <2>4, <2>5, <2>6, <2>7 DEF Next, Terminated
<1> QED BY <1>1, <1>2, PTL DEF Spec

(* Rounding up makes nothing of nothing only.                              *)
LEMMA CeilFacts ==
  ASSUME NEW a \in Nat, NEW b \in Nat, b > 0
  PROVE  Ceil(a, b) \in Nat /\ (Ceil(a, b) = 0 => a = 0)
<1> DEFINE c == Ceil(a, b)
<1>1. c = (a + b - 1) \div b
  BY DEF Ceil
<1>2. (a + b - 1) \div b \in Int /\ b * ((a + b - 1) \div b) <= a + b - 1
      /\ a + b - 1 < b * ((a + b - 1) \div b) + b
  OBVIOUS
<1>3. c \in Int /\ b * c <= a + b - 1 /\ a + b - 1 < b * c + b
  BY <1>1, <1>2
<1> HIDE DEF c
<1>4. c >= 0
  <2> SUFFICES ASSUME c < 0 PROVE FALSE
    BY <1>3
  <2>1. c <= 0 - 1
    BY <1>3
  <2>2. b * c <= b * (0 - 1)
    BY <1>3, <2>1
  <2>3. b * c + b <= 0
    BY <1>3, <2>2
  <2> QED BY <1>3, <2>3
<1>5. c = 0 => a = 0
  <2>1. c = 0 => b * c = 0
    BY <1>3
  <2> QED BY <1>3, <2>1
<1> QED BY <1>3, <1>4, <1>5 DEF c

(* Scores are between 0 and 100, and 100 only when nothing is taken off.   *)
LEMMA WrapperFacts ==
  ASSUME NEW x \in Int, x <= 100
  PROVE  wrapperLessZero(x) \in 0..100 /\ (wrapperLessZero(x) = 100 => x = 100)
<1> DEFINE B == {x, 0}
           m == Max(B)
<1>1. m \in B /\ \A y \in B : m >= y
  <2>1. \E z \in B : \A y \in B : z >= y
    OBVIOUS
  <2> QED BY <2>1 DEF Max
<1>2. (m = x \/ m = 0) /\ m >= x /\ m >= 0
  BY <1>1
<1> HIDE DEF m
<1>3. m \in 0..100 /\ (m = 100 => x = 100)
  BY <1>2
<1> QED BY <1>3 DEF m, wrapperLessZero

(* The score of a counter.                                                 *)
LEMMA ScoreFacts ==
  ASSUME NEW n \in Nat, NEW divisor \in Nat, divisor > 0
  PROVE  Score(n, divisor) \in 0..100 /\ (Score(n, divisor) = 100 => n = 0)
<1> DEFINE c == Ceil(n, divisor)
<1>1. c \in Nat /\ (c = 0 => n = 0)
  BY CeilFacts
<1>2. Score(n, divisor) = wrapperLessZero(100 - c)
  BY DEF Score
<1> HIDE DEF c
<1> DEFINE x == 100 - c
<1>3. x \in Int /\ x <= 100 /\ (x = 100 => c = 0)
  BY <1>1
<1> HIDE DEF x
<1>4. wrapperLessZero(x) \in 0..100 /\ (wrapperLessZero(x) = 100 => x = 100)
  BY <1>3, WrapperFacts
<1> QED BY <1>1, <1>2, <1>3, <1>4 DEF x

(* The five scores: a full one says that its counters are 0.               *)
LEMMA FiveScores ==
  ASSUME total \in [Sorts -> Nat], FileCount \in Nat
  PROVE  /\ FileScore # NotANumber => /\ FileScore \in 0..100
                                      /\ FileScore = 100 => total["file"] = 0
         /\ FileScore = NotANumber => FileCount = 0
         /\ EigenvalueScore \in 0..100
         /\ EigenvalueScore = 100 => total["oa"] = 0 /\ total["pdf"] = 0
<1>1. total["file"] \in Nat /\ total["oa"] \in Nat /\ total["pdf"] \in Nat
  BY DEF Sorts
<1>2. EigenvalueScore \in 0..100 /\ (EigenvalueScore = 100 => total["oa"] = 0 /\ total["pdf"] = 0)
  <2> DEFINE a == total["oa"]
             b == total["pdf"]
             n == a + b
             x == (IF n > 0 THEN 90 ELSE 100) - n
  <2>1. EigenvalueScore = wrapperLessZero(x)
    BY DEF EigenvalueScore
  <2>2. a \in Nat /\ b \in Nat
    BY <1>1
  <2> HIDE DEF a, b
  <2>3. x \in Int /\ x <= 100 /\ (x = 100 => a = 0 /\ b = 0)
    BY <2>2
  <2> HIDE DEF x
  <2>4. wrapperLessZero(x) \in 0..100 /\ (wrapperLessZero(x) = 100 => x = 100)
    BY <2>3, WrapperFacts
  <2> QED BY <2>1, <2>3, <2>4 DEF a, b
<1>3. CASE FileCount = 0
  <2> DEFINE n == total["file"]
  <2>1. FileScore = IF n <= 0 THEN -1 ELSE 0
    BY <1>3 DEF FileScore, NotANumber
  <2>2. NotANumber = -1
    BY DEF NotANumber
  <2> HIDE DEF n
  <2>3. FileScore = NotANumber \/ FileScore = 0
    BY <2>1, <2>2
  <2>4. /\ FileScore # NotANumber => FileScore \in 0..100 /\ FileScore # 100
    <3> DEFINE x == FileScore
    <3>1. x = NotANumber \/ x = 0
      BY <2>3
    <3> HIDE DEF x
    <3>2. x # NotANumber => x \in 0..100 /\ x # 100
      BY <3>1
    <3> QED BY <3>2 DEF x
  <2> QED BY <1>2, <1>3, <2>4
<1>4. CASE FileCount # 0
  <2> DEFINE c == Ceil(total["file"], FileCount)
             x == 100 - c
  <2>1. FileCount > 0
    BY <1>4
  <2>2. c \in Nat /\ (c = 0 => total["file"] = 0)
    BY <1>1, <2>1, CeilFacts
  <2>3. FileScore = wrapperLessZero(x)
    BY <1>4 DEF FileScore
  <2> HIDE DEF c
  <2>4. x \in Int /\ x <= 100 /\ (x = 100 => c = 0)
    BY <2>2
  <2> HIDE DEF x
  <2>5. wrapperLessZero(x) \in 0..100 /\ (wrapperLessZero(x) = 100 => x = 100)
    BY <2>4, WrapperFacts
  <2>6. NotANumber \notin 0..100
    BY DEF NotANumber
  <2> QED BY <1>2, <2>2, <2>3, <2>4, <2>5, <2>6
<1> QED BY <1>3, <1>4

(* The sum of the scores: full when every counter is 0.                    *)
LEMMA HealthFacts ==
  ASSUME total \in [Sorts -> Nat], FileCount \in Nat, FileScore # NotANumber
  PROVE  HealthScore \in 0..1000 /\ (HealthScore = 1000 => \A s \in Sorts : total[s] = 0)
<1> DEFINE r == total["ransom"]
           a == total["777"]
           b == total["suid"]
           c == total["sgid"]
           x == total["oaPwd"]
           y == total["pdfPwd"]
           z == total["zipPwd"]
           p == FileScore
           q == EigenvalueScore
           u == Score(r, 10)
           v == Score(a + b + c, 100)
           w == Score(x + y + z, 10)
<1>1. /\ r \in Nat /\ a \in Nat /\ b \in Nat /\ c \in Nat /\ x \in Nat /\ y \in Nat /\ z \in Nat
  BY DEF Sorts
<1>2. /\ p \in 0..100 /\ (p = 100 => total["file"] = 0)
      /\ q \in 0..100 /\ (q = 100 => total["oa"] = 0 /\ total["pdf"] = 0)
  BY FiveScores
<1>3. HealthScore = 5 * p + 2 * q + u + v + w
  BY DEF HealthScore
<1> HIDE DEF p, q, r, a, b, c, x, y, z
<1>4. u \in 0..100 /\ (u = 100 => r = 0)
  BY <1>1, ScoreFacts
<1>5. v \in 0..100 /\ (v = 100 => a = 0 /\ b = 0 /\ c = 0)
  <2>1. a + b + c \in Nat /\ (a + b + c = 0 => a = 0 /\ b = 0 /\ c = 0)
    BY <1>1
  <2> QED BY <2>1, ScoreFacts
<1>6. w \in 0..100 /\ (w = 100 => x = 0 /\ y = 0 /\ z = 0)
  <2>1. x + y + z \in Nat /\ (x + y + z = 0 => x = 0 /\ y = 0 /\ z = 0)
    BY <1>1
  <2> QED BY <2>1, ScoreFacts
<1> HIDE DEF u, v, w
<1>7. HealthScore \in 0..1000
  <2> DEFINE h == 5 * p + 2 * q + u + v + w
  <2>1. h \in 0..1000
    BY <1>2, <1>4, <1>5, <1>6
  <2> QED BY <1>3, <2>1
<1>8. HealthScore = 1000 => p = 100 /\ q = 100 /\ u = 100 /\ v = 100 /\ w = 100
  BY <1>2, <1>3, <1>4, <1>5, <1>6
<1>9. HealthScore = 1000 => /\ total["file"] = 0 /\ total["oa"] = 0 /\ total["pdf"] = 0
                            /\ total["ransom"] = 0 /\ total["777"] = 0 /\ total["suid"] = 0
                            /\ total["sgid"] = 0 /\ total["oaPwd"] = 0 /\ total["pdfPwd"] = 0
                            /\ total["zipPwd"] = 0
  BY <1>2, <1>4, <1>5, <1>6, <1>8 DEF r, a, b, c, x, y, z
<1>10. HealthScore = 1000 => \A s \in Sorts : total[s] = 0
  BY <1>9 DEF Sorts
<1> QED BY <1>7, <1>10

(* frs -report: a full score is printed only if no file belongs to a       *)
(* counter, names and lines that cannot be read excepted; the score is one *)
(* of 0 to 100, and only a tree without files, or one whose root hides the *)
(* count, has none.  All this if no name starts with a line that is a      *)
(* number.                                                                 *)
THEOREM FullScoreMeans == Spec => []FullScore
<1>1. IInv /\ OutputInv => FullScore
  <2> SUFFICES ASSUME IInv, OutputInv, main = "printed", ~Numbered
               PROVE  IF output = <<>>
                      THEN Copies(tree.files) = 0 \/ tree.root = "with :"
                      ELSE /\ output[1] \in 0..1000
                           /\ output[1] = 1000 =>
                                 TooLong \/ \A s \in Sorts, f \in tree.files : Belongs(s, f) => f \in Awkward
    BY DEF FullScore
  <2>2. /\ tree \in Trees /\ Taken \in Nat /\ Taken > 0 /\ Taken <= Len(Lines)
        /\ ~TooLong => Taken = Len(Lines)
        /\ Lines[1] = FileCountLine(tree.root, tree.files)
    BY DoneFacts
  <2>1. total \in [Sorts -> Nat] /\ FileCount \in Nat
    <3>1. total \in [Sorts -> Int] /\ FileCount \in Nat
      BY DEF IInv, TypeInv, TypeOK
    <3>2. ASSUME NEW s \in Sorts PROVE total[s] \in Nat
      <4> DEFINE C == Counted(Lines, s, Taken)
      <4>1. total[s] = Copies(C)
        BY DoneLists
      <4>2. C \subseteq tree.files /\ tree.files \subseteq Files /\ IsFiniteSet(tree.files)
        BY <2>2, TreeFacts
      <4> HIDE DEF C
      <4>3. C \subseteq Files
        BY <4>2
      <4> QED BY <4>1, <4>2, CopiesFacts
    <3> QED BY <3>1, <3>2
  <2>3. output = IF FileScore = NotANumber THEN <<>> ELSE <<HealthScore>>
    BY DEF OutputInv
  <2>4. CASE FileScore = NotANumber
    <3>1. output = <<>> /\ FileCount = 0
      BY <2>1, <2>3, <2>4, FiveScores
    <3>2. FileCount = Lines[1].count
      BY <2>2 DEF IInv, FilesInv
    <3> DEFINE n == IF tree.root = "with :" THEN 0 ELSE Copies(tree.files)
               l == Line("FileCount", <<>>, {}, n)
               b == tree.root # "none"
    <3>3. Lines[1] = [l EXCEPT !.splits = b]
      BY <2>2 DEF FileCountLine
    <3> HIDE DEF n, b
    <3> DEFINE c == Cardinality({}) > 0 /\ n > MaxToken
    <3>4. l = [alias |-> "FileCount", text |-> <<>>, files |-> {}, count |-> n, splits |-> TRUE,
               long |-> c]
      BY DEF Line
    <3> HIDE DEF c, l
    <3>5. Lines[1].count = n
      BY <3>3, <3>4
    <3>6. n = 0
      BY <3>1, <3>2, <3>5
    <3>7. Copies(tree.files) = 0 \/ tree.root = "with :"
      BY <3>6 DEF n
    <3> QED BY <3>1, <3>7
  <2>5. CASE FileScore # NotANumber
    <3> DEFINE h == HealthScore
               one == <<h>>
    <3>1. h \in 0..1000 /\ (h = 1000 => \A s \in Sorts : total[s] = 0)
      BY <2>1, <2>5, HealthFacts
    <3>2. output = one
      BY <2>3, <2>5
    <3> HIDE DEF h
    <3>3. one # <<>> /\ one[1] = h
      OBVIOUS
    <3> HIDE DEF one
    <3>4. ASSUME h = 1000, ~TooLong, NEW s \in Sorts, NEW f \in tree.files, Belongs(s, f)
          PROVE  f \in Awkward
      <4> SUFFICES ASSUME f \notin Awkward PROVE FALSE
        OBVIOUS
      <4> DEFINE C == Counted(Lines, s, Taken)
      <4>1. f \in C
        BY <2>2, <3>4, CountedMeans
      <4>2. total[s] = Copies(C) /\ total[s] = 0
        BY <3>1, <3>4, DoneLists
      <4>3. C \subseteq tree.files /\ tree.files \subseteq Files /\ IsFiniteSet(tree.files)
        BY <2>2, TreeFacts
      <4> HIDE DEF C
      <4>4. Copies(C) > 0
        BY <4>1, <4>3, CopiesFacts
      <4> QED BY <4>2, <4>4
    <3>5. output # <<>> /\ output[1] = h
      BY <3>2, <3>3
    <3> QED BY <3>1, <3>4, <3>5
  <2> QED BY <2>4, <2>5
<1> QED BY <1>1, Invariance, OutputInvariance, PTL
=============================================================================
