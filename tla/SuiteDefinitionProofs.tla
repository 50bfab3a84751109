------------------------ MODULE SuiteDefinitionProofs ------------------------
(***************************************************************************)
(* Proofs about the life of a test program, for every number of variables  *)
(* and every catalog of definitions: a definition takes effect at once     *)
(* (DefinedSuites), no test is lost without an error, and no variable of   *)
(* Suite(...) outlives the registry.                                       *)
(*                                                                         *)
(* The first part is about the sequence of tests a definition is turned    *)
(* into: it reads the cases of the definition one after the other.         *)
(***************************************************************************)
EXTENDS SuiteDefinition, SequenceTheorems, WellFoundedInduction, TLAPS

(* A set of natural numbers has a least element.                           *)
LEMMA LeastElement ==
  ASSUME NEW S, S \subseteq Nat, S # {}
  PROVE  \E n \in S : \A m \in S : n <= m
<1>1. PICK n \in S : \A m \in S : <<m, n>> \notin OpToRel(<, Nat)
  BY NatLessThanWellFounded, WFMin, Zenon
<1>2. \A m \in S : ~(m < n)
  BY <1>1, Zenon DEF OpToRel
<1> QED
  BY <1>2

-----------------------------------------------------------------------------
(* FlattenSeq.                                                             *)

Joins(f, seqs, n) == f = [i \in 1..n |-> IF i = 1 THEN seqs[i] ELSE f[i-1] \o seqs[i]]

LEMMA JoinsExist == \A seqs : \A n \in Nat : \E f : Joins(f, seqs, n)
<1> SUFFICES ASSUME NEW seqs PROVE \A n \in Nat : \E f : Joins(f, seqs, n)
  OBVIOUS
<1> DEFINE Bad == {n \in Nat : ~\E f : Joins(f, seqs, n)}
<1>1. Bad = {}
  <2> SUFFICES ASSUME Bad # {} PROVE FALSE
    OBVIOUS
  <2>1. PICK n \in Bad : \A m \in Bad : n <= m
    <3>1. Bad \subseteq Nat
      OBVIOUS
    <3> HIDE DEF Bad
    <3> QED
      BY <3>1, LeastElement
  <2>2. n \in Nat
    BY <2>1
  <2>3. n # 0
    <3>1. Joins([i \in 1..0 |-> 0], seqs, 0)
      BY DEF Joins
    <3> QED
      BY <2>1, <3>1
  <2>4. n - 1 \in Nat /\ n - 1 \notin Bad
    <3> HIDE DEF Bad
    <3> QED
      BY <2>1, <2>2, <2>3
  <2>5. PICK g : Joins(g, seqs, n - 1)
    BY <2>4
  <2> DEFINE h == [i \in 1..n |-> IF i = 1 THEN seqs[i] ELSE g[i-1] \o seqs[i]]
  <2>6. \A i \in 1..(n - 1) : h[i] = g[i]
    <3>1. \A i \in 1..(n - 1) : g[i] = IF i = 1 THEN seqs[i] ELSE g[i-1] \o seqs[i]
      BY <2>5 DEF Joins
    <3>2. \A i \in 1..(n - 1) : i \in 1..n
      BY <2>2
    <3> QED
      BY <3>1, <3>2
  <2>7. \A i \in 1..n : h[i] = IF i = 1 THEN seqs[i] ELSE h[i-1] \o seqs[i]
    <3> SUFFICES ASSUME NEW i \in 1..n PROVE h[i] = IF i = 1 THEN seqs[i] ELSE h[i-1] \o seqs[i]
      OBVIOUS
    <3>1. i = 1 \/ i - 1 \in 1..(n - 1)
      BY <2>2
    <3>2. i # 1 => h[i-1] = g[i-1]
      <4> HIDE DEF h
      <4> QED
        BY <2>6, <3>1
    <3>3. h[i] = IF i = 1 THEN seqs[i] ELSE g[i-1] \o seqs[i]
      OBVIOUS
    <3> HIDE DEF h
    <3> QED
      BY <3>2, <3>3
  <2>8. Joins(h, seqs, n)
    <3>1. h = [i \in 1..n |-> h[i]]
      OBVIOUS
    <3> HIDE DEF h
    <3> QED
      BY <2>7, <3>1 DEF Joins
  <2> QED
    BY <2>1, <2>8
<1> QED
  BY <1>1

(* Sequences are joined from left to right.                                *)
LEMMA FlattenJoins ==
  ASSUME NEW seqs, Len(seqs) \in Nat, Len(seqs) # 0
  PROVE  \E f : /\ FlattenSeq(seqs) = f[Len(seqs)] /\ f[1] = seqs[1]
                /\ \A i \in 1..Len(seqs) : i # 1 => f[i] = f[i-1] \o seqs[i]
<1> DEFINE n == Len(seqs)
           F == CHOOSE f : Joins(f, seqs, n)
<1>1. Joins(F, seqs, n)
  <2>1. \E f : Joins(f, seqs, n)
    BY JoinsExist
  <2> QED
    BY <2>1
<1>2. FlattenSeq(seqs) = F[n]
  BY DEF FlattenSeq, Joins
<1> HIDE DEF F
<1>3. \A i \in 1..n : F[i] = IF i = 1 THEN seqs[i] ELSE F[i-1] \o seqs[i]
  BY <1>1 DEF Joins
<1>4. 1 \in 1..n
  OBVIOUS
<1> QED
  BY <1>2, <1>3, <1>4

-----------------------------------------------------------------------------
(* The tests of a definition.                                              *)

(* The test that the case at p is turned into, and all of them.            *)
At(d, p) == [name |-> Defined!NameAt(d, p), attempts |-> d.tests[p[1]].attempts,
             value |-> Defined!Case(d, p).value]
Rows(d) == {At(d, p) : p \in Defined!Positions(d)}
AllTests(d) == FlattenSeq([i \in DOMAIN d.tests |-> Materialized(d.tests[i])])

(* all has the tests of the cases at P, each once.                         *)
Reads(d, all, P) ==
    /\ all \in Seq(Rows(d))
    /\ \E pos \in [1..Len(all) -> P] :
          /\ \A k \in 1..Len(all) : all[k] = At(d, pos[k])
          /\ \A p \in P : \E k \in 1..Len(all) : pos[k] = p
          /\ \A j, k \in 1..Len(all) : pos[j] = pos[k] => j = k

LEMMA CatalogTests ==
  ASSUME NEW d \in Catalog
  PROVE  /\ Len(d.tests) \in Nat /\ DOMAIN d.tests = 1..Len(d.tests)
         /\ \A i \in DOMAIN d.tests :
               /\ d.tests[i].plain \in BOOLEAN /\ d.tests[i].attempts \in Nat
               /\ Len(d.tests[i].cases) \in Nat /\ Len(d.tests[i].cases) # 0
               /\ DOMAIN d.tests[i].cases = 1..Len(d.tests[i].cases)
               /\ d.tests[i].plain => Len(d.tests[i].cases) = 1
<1>1. \A s : IsSequence(s) => /\ Len(s) \in Nat /\ DOMAIN s = 1..Len(s)
                              /\ s # <<>> => Len(s) # 0
  <2> SUFFICES ASSUME NEW s, IsSequence(s)
               PROVE  /\ Len(s) \in Nat /\ DOMAIN s = 1..Len(s) /\ (s # <<>> => Len(s) # 0)
    OBVIOUS
  <2> DEFINE T == ToSet(s)
  <2>1. s \in Seq(T)
    BY DEF IsSequence
  <2> HIDE DEF T
  <2> QED
    BY <2>1
<1>2. IsSequence(d.tests)
  BY CatalogAssumption
<1>3. ASSUME NEW i \in DOMAIN d.tests
      PROVE  /\ d.tests[i].plain \in BOOLEAN /\ d.tests[i].attempts \in Nat
             /\ IsSequence(d.tests[i].cases) /\ d.tests[i].cases # <<>>
             /\ d.tests[i].plain => Len(d.tests[i].cases) = 1
  BY CatalogAssumption
<1> QED
  BY <1>1, <1>2, <1>3

LEMMA PositionsOf ==
  ASSUME NEW d \in Catalog, NEW p
  PROVE  p \in Defined!Positions(d)
           <=> \E i \in 1..Len(d.tests) : \E j \in 1..Len(d.tests[i].cases) : p = <<i, j>>
  BY CatalogTests DEF Defined!Positions

(* One test is turned into the tests of its cases, in order.               *)
LEMMA MaterializedReads ==
  ASSUME NEW d \in Catalog, NEW i \in DOMAIN d.tests
  PROVE  /\ Materialized(d.tests[i]) \in Seq(Rows(d))
         /\ Len(Materialized(d.tests[i])) = Len(d.tests[i].cases)
         /\ \A j \in 1..Len(d.tests[i].cases) : Materialized(d.tests[i])[j] = At(d, <<i, j>>)
<1> DEFINE test == d.tests[i]
           n == Len(test.cases)
           m == Materialized(test)
<1>1. /\ test.plain \in BOOLEAN /\ n \in Nat /\ n # 0 /\ DOMAIN test.cases = 1..n
      /\ test.plain => n = 1
  BY CatalogTests
<1>2. \A j \in 1..n : At(d, <<i, j>>) \in Rows(d)
  BY CatalogTests, PositionsOf DEF Rows
<1>3. CASE test.plain
  <2>1. m = <<At(d, <<i, 1>>)>>
    BY <1>3 DEF Materialized, MaterializeTest, At, Defined!NameAt, Defined!Case
  <2> HIDE DEF n, m
  <2>2. n = 1 /\ 1 \in 1..n /\ At(d, <<i, 1>>) \in Rows(d)
    BY <1>1, <1>2, <1>3
  <2>3. m \in Seq(Rows(d)) /\ Len(m) = 1 /\ m[1] = At(d, <<i, 1>>)
    BY <2>1, <2>2
  <2> QED
    BY <2>2, <2>3 DEF n, m
<1>4. CASE ~test.plain
  <2> DEFINE row(j) == [name |-> test.name \o <<"/">> \o test.cases[j].name,
                        attempts |-> test.attempts, value |-> test.cases[j].value]
  <2>1. m = [j \in 1..n |-> row(j)]
    BY <1>1, <1>4 DEF Materialized, MaterializeCases
  <2>2. \A j \in 1..n : row(j) = At(d, <<i, j>>)
    BY <1>4 DEF At, Defined!NameAt, Defined!Case
  <2> HIDE DEF n, m, row
  <2>3. \A j \in 1..n : m[j] = At(d, <<i, j>>) /\ m[j] \in Rows(d)
    BY <1>2, <2>1, <2>2
  <2>4. m \in [1..n -> Rows(d)]
    BY <2>1, <2>3
  <2>5. m \in Seq(Rows(d)) /\ Len(m) = n
    BY <1>1, <2>4
  <2> QED
    BY <2>3, <2>5 DEF n, m
<1> QED
  BY <1>1, <1>3, <1>4

(* The cases of the tests up to n.                                         *)
UpTo(d, n) == {p \in Defined!Positions(d) : p[1] <= n}

(* The tests of one more test are read after the others.                   *)
LEMMA OneMoreTest ==
  ASSUME NEW d \in Catalog, NEW n \in DOMAIN d.tests, NEW some, Reads(d, some, UpTo(d, n - 1))
  PROVE  Reads(d, some \o Materialized(d.tests[n]), UpTo(d, n))
<1> DEFINE m == Materialized(d.tests[n])
           a == Len(some)
           b == Len(m)
           T == Rows(d)
           all == some \o m
<1>1. /\ some \in Seq(T) /\ m \in Seq(T) /\ b = Len(d.tests[n].cases)
      /\ \A j \in 1..b : m[j] = At(d, <<n, j>>)
  BY MaterializedReads DEF Reads
<1>2. PICK pos \in [1..a -> UpTo(d, n - 1)] :
         /\ \A k \in 1..a : some[k] = At(d, pos[k])
         /\ \A p \in UpTo(d, n - 1) : \E k \in 1..a : pos[k] = p
         /\ \A j, k \in 1..a : pos[j] = pos[k] => j = k
  BY DEF Reads
<1>3. a \in Nat /\ b \in Nat /\ n \in Nat /\ Len(d.tests) \in Nat /\ n \in 1..Len(d.tests)
  BY <1>1, CatalogTests
<1> HIDE DEF T, m
<1>4. /\ all \in Seq(T) /\ Len(all) = a + b
      /\ \A k \in 1..a : all[k] = some[k]
      /\ \A j \in 1..b : all[a + j] = m[j]
  <2>1. /\ all \in Seq(T) /\ Len(all) = a + b
        /\ \A k \in 1..(a + b) : all[k] = IF k <= a THEN some[k] ELSE m[k - a]
    BY <1>1, ConcatProperties
  <2> HIDE DEF all, a, b
  <2>2. ASSUME NEW j \in 1..b PROVE all[a + j] = m[j]
    <3>1. a + j \in 1..(a + b) /\ ~(a + j <= a) /\ (a + j) - a = j
      BY <1>3
    <3> QED
      BY <2>1, <3>1
  <2>3. ASSUME NEW k \in 1..a PROVE all[k] = some[k]
    <3>1. k \in 1..(a + b) /\ k <= a
      BY <1>3
    <3> QED
      BY <2>1, <3>1
  <2> QED
    BY <2>1, <2>2, <2>3
<1> HIDE DEF a, b, all
<1> DEFINE at == [k \in 1..(a + b) |-> IF k <= a THEN pos[k] ELSE <<n, k - a>>]
<1>5. \A p \in UpTo(d, n - 1) : p \in UpTo(d, n) /\ p[1] # n
  <2> SUFFICES ASSUME NEW p \in UpTo(d, n - 1) PROVE p \in UpTo(d, n) /\ p[1] # n
    OBVIOUS
  <2>1. p \in Defined!Positions(d) /\ p[1] <= n - 1
    BY DEF UpTo
  <2>2. p[1] \in Nat
    BY <2>1, PositionsOf
  <2> QED
    BY <1>3, <2>1, <2>2 DEF UpTo
<1>6. \A j \in 1..b : <<n, j>> \in UpTo(d, n)
  <2>1. \A j \in 1..b : <<n, j>> \in Defined!Positions(d)
    BY <1>1, <1>3, PositionsOf
  <2> QED
    BY <1>3, <2>1 DEF UpTo
<1>7. \A k \in 1..(a + b) : \/ k \in 1..a /\ at[k] = pos[k]
                            \/ k - a \in 1..b /\ k = a + (k - a) /\ at[k] = <<n, k - a>> /\ ~(k <= a)
  BY <1>3
<1>8. /\ \A k \in 1..a : k \in 1..(a + b) /\ at[k] = pos[k]
      /\ \A j \in 1..b : a + j \in 1..(a + b) /\ at[a + j] = <<n, j>>
  <2>1. ASSUME NEW k \in 1..a PROVE k \in 1..(a + b) /\ at[k] = pos[k]
    BY <1>3
  <2>2. ASSUME NEW j \in 1..b PROVE a + j \in 1..(a + b) /\ at[a + j] = <<n, j>>
    <3>1. a + j \in 1..(a + b) /\ ~(a + j <= a) /\ (a + j) - a = j
      BY <1>3
    <3> QED
      BY <3>1
  <2> QED
    BY <2>1, <2>2
<1>9. at \in [1..(a + b) -> UpTo(d, n)]
  BY <1>2, <1>5, <1>6, <1>7
<1> HIDE DEF at
<1>10. ASSUME NEW k \in 1..(a + b) PROVE all[k] = At(d, at[k])
  <2>1. CASE k \in 1..a
    BY <1>2, <1>4, <1>8, <2>1
  <2>2. CASE k \notin 1..a
    <3>1. PICK j \in 1..b : k = a + j
      BY <1>3, <1>7, <2>2
    <3>2. all[k] = m[j] /\ at[k] = <<n, j>>
      BY <1>4, <1>8, <3>1
    <3> QED
      BY <1>1, <3>2
  <2> QED
    BY <2>1, <2>2
<1>11. \A p \in UpTo(d, n) : \E k \in 1..(a + b) : at[k] = p
  <2> SUFFICES ASSUME NEW p \in UpTo(d, n) PROVE \E k \in 1..(a + b) : at[k] = p
    OBVIOUS
  <2>1. PICK i \in 1..Len(d.tests) : \E j \in 1..Len(d.tests[i].cases) : p = <<i, j>>
    BY PositionsOf DEF UpTo
  <2>2. p[1] = i /\ i <= n
    BY <2>1 DEF UpTo
  <2>3. CASE i = n
    BY <1>1, <1>8, <2>1, <2>3
  <2>4. CASE i # n
    <3>1. i <= n - 1
      BY <1>3, <2>2, <2>4
    <3>2. p \in UpTo(d, n - 1)
      BY <2>2, <3>1 DEF UpTo
    <3> QED
      BY <1>2, <1>8, <3>2
  <2> QED
    BY <2>3, <2>4
<1>12. \A j, k \in 1..(a + b) : at[j] = at[k] => j = k
  <2> SUFFICES ASSUME NEW j \in 1..(a + b), NEW k \in 1..(a + b), at[j] = at[k] PROVE j = k
    OBVIOUS
  <2>1. \A l \in 1..a : pos[l][1] # n
    BY <1>2, <1>5
  <2>2. CASE j \in 1..a /\ k \in 1..a
    BY <1>2, <1>8, <2>2
  <2>3. CASE j \notin 1..a /\ k \notin 1..a
    <3>1. at[j] = <<n, j - a>> /\ at[k] = <<n, k - a>>
      BY <1>7, <2>3
    <3>2. <<n, j - a>>[2] = <<n, k - a>>[2]
      BY <3>1
    <3>3. j - a = k - a
      BY <3>2
    <3> QED
      BY <1>3, <3>3
  <2>4. CASE j \in 1..a /\ k \notin 1..a
    <3>1. at[j] = pos[j] /\ at[k] = <<n, k - a>>
      BY <1>7, <1>8, <2>4
    <3>2. pos[j][1] = <<n, k - a>>[1]
      BY <3>1
    <3> QED
      BY <2>1, <2>4, <3>2
  <2>5. CASE j \notin 1..a /\ k \in 1..a
    <3>1. at[k] = pos[k] /\ at[j] = <<n, j - a>>
      BY <1>7, <1>8, <2>5
    <3>2. pos[k][1] = <<n, j - a>>[1]
      BY <3>1
    <3> QED
      BY <2>1, <2>5, <3>2
  <2> QED
    BY <2>2, <2>3, <2>4, <2>5
<1>13. /\ at \in [1..Len(all) -> UpTo(d, n)]
       /\ \A k \in 1..Len(all) : all[k] = At(d, at[k])
       /\ \A p \in UpTo(d, n) : \E k \in 1..Len(all) : at[k] = p
       /\ \A j, k \in 1..Len(all) : at[j] = at[k] => j = k
  BY <1>4, <1>9, <1>10, <1>11, <1>12
<1>14. Reads(d, all, UpTo(d, n))
  BY <1>4, <1>13, Zenon DEF Reads, T
<1> QED
  BY <1>14 DEF all, m

(* A definition is turned into the tests of all its cases.                 *)
LEMMA AllTestsRead ==
  ASSUME NEW d \in Catalog
  PROVE  Reads(d, AllTests(d), Defined!Positions(d))
<1> DEFINE n == Len(d.tests)
           seqs == [i \in DOMAIN d.tests |-> Materialized(d.tests[i])]
<1>1. n \in Nat /\ DOMAIN d.tests = 1..n
  BY CatalogTests
<1>2. seqs \in Seq(Seq(Rows(d))) /\ Len(seqs) = n
  <2>1. \A i \in 1..n : Materialized(d.tests[i]) \in Seq(Rows(d))
    BY <1>1, MaterializedReads
  <2> HIDE DEF n
  <2> QED
    BY <1>1, <2>1
<1>3. UpTo(d, n) = Defined!Positions(d)
  <2>1. \A p \in Defined!Positions(d) : p[1] <= n
    BY <1>1, PositionsOf
  <2> QED
    BY <2>1 DEF UpTo
<1>4. UpTo(d, 0) = {}
  <2>1. \A p \in Defined!Positions(d) : ~(p[1] <= 0)
    BY <1>1, PositionsOf
  <2> QED
    BY <2>1 DEF UpTo
<1>5. Reads(d, <<>>, UpTo(d, 0))
  <2>1. <<>> \in Seq(Rows(d)) /\ Len(<<>>) = 0
    OBVIOUS
  <2>2. [k \in 1..0 |-> 0] \in [1..0 -> {}]
    OBVIOUS
  <2> QED
    BY <1>4, <2>1, <2>2 DEF Reads
<1>6. CASE n = 0
  <2>1. AllTests(d) = <<>>
    <3>1. AllTests(d) = seqs
      BY <1>2, <1>6 DEF AllTests, FlattenSeq
    <3> HIDE DEF seqs, n
    <3> QED
      BY <1>2, <1>6, <3>1
  <2> QED
    BY <1>3, <1>5, <1>6, <2>1
<1>7. CASE n # 0
  <2>1. PICK f : /\ FlattenSeq(seqs) = f[n] /\ f[1] = seqs[1]
                 /\ \A i \in 1..n : i # 1 => f[i] = f[i-1] \o seqs[i]
    <3> HIDE DEF n, seqs
    <3>1. Len(seqs) \in Nat /\ Len(seqs) # 0
      BY <1>1, <1>2, <1>7
    <3> QED
      BY <1>2, <3>1, FlattenJoins
  <2> DEFINE Bad == {i \in 1..n : ~Reads(d, f[i], UpTo(d, i))}
  <2>2. Bad = {}
    <3> SUFFICES ASSUME Bad # {} PROVE FALSE
      OBVIOUS
    <3>1. PICK i \in Bad : \A j \in Bad : i <= j
      <4>1. Bad \subseteq Nat
        BY <1>1
      <4> HIDE DEF Bad
      <4> QED
        BY <4>1, LeastElement
    <3>2. i \in 1..n /\ ~Reads(d, f[i], UpTo(d, i)) /\ i \in DOMAIN d.tests
      BY <1>1, <3>1
    <3>3. CASE i = 1
      <4>1. Reads(d, <<>> \o Materialized(d.tests[1]), UpTo(d, 1))
        <5>1. UpTo(d, 1 - 1) = UpTo(d, 0) /\ 1 \in DOMAIN d.tests
          BY <3>2, <3>3
        <5> QED
          BY <1>5, <5>1, OneMoreTest
      <4>2. <<>> \o Materialized(d.tests[1]) = Materialized(d.tests[1])
        <5>1. Materialized(d.tests[1]) \in Seq(Rows(d))
          BY <3>2, <3>3, MaterializedReads
        <5> QED
          BY <5>1
      <4>3. f[1] = Materialized(d.tests[1])
        BY <2>1, <3>2, <3>3
      <4> QED
        BY <3>2, <3>3, <4>1, <4>2, <4>3
    <3>4. CASE i # 1
      <4>1. i - 1 \in 1..n /\ i - 1 < i
        BY <1>1, <3>2, <3>4
      <4>2. i - 1 \notin Bad
        <5> HIDE DEF Bad
        <5>1. i \in Nat
          BY <1>1, <3>2
        <5> QED
          BY <3>1, <4>1, <5>1
      <4>3. Reads(d, f[i - 1], UpTo(d, i - 1))
        BY <4>1, <4>2
      <4>4. f[i] = f[i - 1] \o Materialized(d.tests[i])
        BY <2>1, <3>2, <3>4
      <4> QED
        BY <3>2, <4>3, <4>4, OneMoreTest
    <3> QED
      BY <3>3, <3>4
  <2>3. n \in 1..n
    BY <1>1, <1>7
  <2>4. Reads(d, f[n], UpTo(d, n))
    BY <2>2, <2>3
  <2> QED
    BY <1>3, <2>1, <2>4 DEF AllTests
<1> QED
  BY <1>6, <1>7

Shown(row) == [name |-> row.name, value |-> row.value]
AllNamed(d) == \A i \in DOMAIN d.tests : ~Unnamed(d.tests[i])

(* The first n tests of a definition can be added to one suite.            *)
Addable(d, n) ==
    /\ \A k \in 1..n : AllTests(d)[k].attempts # 0
    /\ \A j, k \in 1..n : AllTests(d)[j].name = AllTests(d)[k].name => j = k

LEMMA AllTestsType ==
  ASSUME NEW d \in Catalog
  PROVE  /\ AllTests(d) \in Seq(Rows(d)) /\ Len(AllTests(d)) \in Nat
         /\ \A k \in 1..Len(AllTests(d)) : AllTests(d)[k] \in Rows(d)
<1>1. AllTests(d) \in Seq(Rows(d))
  BY AllTestsRead DEF Reads
<1> QED
  BY <1>1

(* What the constructors and addTest refuse is what makes a definition     *)
(* unsound, and nothing else.                                              *)
LEMMA SoundIsAddable ==
  ASSUME NEW d \in Catalog
  PROVE  Defined!Sound(d) <=> /\ d.name # <<>> /\ d.fixture \in {"none", "constructs"}
                              /\ AllNamed(d) /\ Addable(d, Len(AllTests(d)))
<1> DEFINE all == AllTests(d)
           n == Len(all)
           P == Defined!Positions(d)
           name(p) == Defined!NameAt(d, p)
<1>1. PICK pos \in [1..n -> P] :
         /\ \A k \in 1..n : all[k] = At(d, pos[k])
         /\ \A p \in P : \E k \in 1..n : pos[k] = p
         /\ \A j, k \in 1..n : pos[j] = pos[k] => j = k
  BY AllTestsRead DEF Reads
<1>2. \A k \in 1..n : /\ all[k].attempts = d.tests[pos[k][1]].attempts
                      /\ all[k].name = name(pos[k]) /\ pos[k] \in P
  <2>1. \A p : At(d, p).attempts = d.tests[p[1]].attempts /\ At(d, p).name = name(p)
    BY DEF At
  <2> HIDE DEF all, n, P, name
  <2> QED
    BY <1>1, <2>1
<1>3. /\ DOMAIN d.tests = 1..Len(d.tests)
      /\ \A i \in DOMAIN d.tests :
            /\ d.tests[i].plain \in BOOLEAN /\ d.tests[i].attempts \in Nat
            /\ Len(d.tests[i].cases) \in Nat /\ Len(d.tests[i].cases) # 0
            /\ DOMAIN d.tests[i].cases = 1..Len(d.tests[i].cases)
            /\ d.tests[i].plain => Len(d.tests[i].cases) = 1
  BY CatalogTests
<1>4. \A p : p \in P <=> \E i \in 1..Len(d.tests) : \E j \in 1..Len(d.tests[i].cases) : p = <<i, j>>
  BY PositionsOf
<1> HIDE DEF all, n, P, name
<1>5. (\A i \in DOMAIN d.tests : d.tests[i].attempts > 0) <=> \A k \in 1..n : all[k].attempts # 0
  <2>1. ASSUME \A i \in DOMAIN d.tests : d.tests[i].attempts > 0, NEW k \in 1..n
        PROVE  all[k].attempts # 0
    <3>1. pos[k][1] \in DOMAIN d.tests
      BY <1>2, <1>3, <1>4
    <3> QED
      BY <1>2, <1>3, <2>1, <3>1
  <2>2. ASSUME \A k \in 1..n : all[k].attempts # 0, NEW i \in DOMAIN d.tests
        PROVE  d.tests[i].attempts > 0
    <3>1. <<i, 1>> \in P
      <4>1. i \in 1..Len(d.tests) /\ 1 \in 1..Len(d.tests[i].cases)
        BY <1>3
      <4> QED
        BY <1>4, <4>1
    <3>2. PICK k \in 1..n : pos[k] = <<i, 1>>
      BY <1>1, <3>1
    <3>3. all[k].attempts = d.tests[i].attempts
      <4>1. pos[k][1] = i
        BY <3>2
      <4> QED
        BY <1>2, <4>1
    <3> QED
      BY <1>3, <2>2, <3>3
  <2> QED
    BY <2>1, <2>2
<1>6. (\A p, q \in P : name(p) = name(q) => p = q)
        <=> \A j, k \in 1..n : all[j].name = all[k].name => j = k
  <2>1. ASSUME \A p, q \in P : name(p) = name(q) => p = q,
               NEW j \in 1..n, NEW k \in 1..n, all[j].name = all[k].name
        PROVE  j = k
    BY <1>1, <1>2, <2>1
  <2>2. ASSUME \A j, k \in 1..n : all[j].name = all[k].name => j = k,
               NEW p \in P, NEW q \in P, name(p) = name(q)
        PROVE  p = q
    <3>1. PICK j \in 1..n : pos[j] = p
      BY <1>1
    <3>2. PICK k \in 1..n : pos[k] = q
      BY <1>1
    <3> QED
      BY <1>2, <2>2, <3>1, <3>2
  <2> QED
    BY <2>1, <2>2
<1>7. (\A p \in P : IF d.tests[p[1]].plain THEN Defined!NameAt(d, p) # <<>>
                    ELSE Defined!Case(d, p).name # <<>>)
        <=> AllNamed(d)
  <2> DEFINE fine(p) == IF d.tests[p[1]].plain THEN d.tests[p[1]].name # <<>>
                        ELSE d.tests[p[1]].cases[p[2]].name # <<>>
  <2>1. \A p : fine(p) <=> IF d.tests[p[1]].plain THEN Defined!NameAt(d, p) # <<>>
                           ELSE Defined!Case(d, p).name # <<>>
    BY DEF Defined!NameAt, Defined!Case
  <2>2. ASSUME AllNamed(d), NEW p \in P PROVE fine(p)
    <3>1. PICK i \in 1..Len(d.tests) : \E j \in 1..Len(d.tests[i].cases) : p = <<i, j>>
      BY <1>4
    <3>2. PICK j \in 1..Len(d.tests[i].cases) : p = <<i, j>>
      BY <3>1
    <3>3. ~Unnamed(d.tests[i]) /\ j \in DOMAIN d.tests[i].cases
      BY <1>3, <2>2 DEF AllNamed
    <3> QED
      BY <3>2, <3>3 DEF Unnamed
  <2>3. ASSUME \A p \in P : fine(p), NEW i \in DOMAIN d.tests PROVE ~Unnamed(d.tests[i])
    <3>1. \A j \in DOMAIN d.tests[i].cases : <<i, j>> \in P /\ fine(<<i, j>>)
      <4> SUFFICES ASSUME NEW j \in DOMAIN d.tests[i].cases PROVE <<i, j>> \in P
        BY <2>3
      <4> QED
        BY <1>3, <1>4
    <3>2. 1 \in DOMAIN d.tests[i].cases
      BY <1>3
    <3>3. CASE d.tests[i].plain
      BY <3>1, <3>2, <3>3 DEF Unnamed
    <3>4. CASE ~d.tests[i].plain
      BY <3>1, <3>4 DEF Unnamed
    <3> QED
      BY <3>3, <3>4
  <2> HIDE DEF fine
  <2>4. (\A p \in P : fine(p)) <=> AllNamed(d)
    BY <2>2, <2>3 DEF AllNamed
  <2> QED
    BY <2>1, <2>4
<1>8. Addable(d, n) <=> /\ \A i \in DOMAIN d.tests : d.tests[i].attempts > 0
                        /\ \A p, q \in P : name(p) = name(q) => p = q
  BY <1>5, <1>6 DEF Addable, all
<1> QED
  BY <1>7, <1>8 DEF Defined!Sound, P, name, n, all

LEMMA CompleteIsAll ==
  ASSUME NEW d \in Catalog
  PROVE  Defined!Complete(d) =
           [name |-> d.name,
            tests |-> {Shown(AllTests(d)[k]) : k \in 1..Len(AllTests(d))}]
<1> DEFINE all == AllTests(d)
           n == Len(all)
           P == Defined!Positions(d)
<1>1. PICK pos \in [1..n -> P] :
         /\ \A k \in 1..n : all[k] = At(d, pos[k])
         /\ \A p \in P : \E k \in 1..n : pos[k] = p
         /\ \A j, k \in 1..n : pos[j] = pos[k] => j = k
  BY AllTestsRead DEF Reads
<1> DEFINE test(p) == [name |-> Defined!NameAt(d, p), value |-> Defined!Case(d, p).value]
<1>2. \A k \in 1..n : Shown(all[k]) = test(pos[k]) /\ pos[k] \in P
  <2>1. \A p : Shown(At(d, p)) = test(p)
    BY DEF At, Shown
  <2> HIDE DEF all, n, P, test
  <2> QED
    BY <1>1, <2>1
<1>3. Defined!Complete(d) = [name |-> d.name, tests |-> {test(p) : p \in P}]
  BY DEF Defined!Complete
<1> HIDE DEF test, n, all, P
<1>4. {test(p) : p \in P} = {Shown(all[k]) : k \in 1..n}
  <2>1. ASSUME NEW p \in P PROVE \E k \in 1..n : test(p) = Shown(all[k])
    BY <1>1, <1>2
  <2> QED
    BY <1>2, <2>1
<1> QED
  BY <1>3, <1>4 DEF n, all

-----------------------------------------------------------------------------
(* The invariant.                                                          *)

Variables == Variable \cup Holder
TestsShown == UNION {{Shown(row) : row \in Rows(d)} : d \in Catalog}

SuiteType == suite \in [Variable -> [name : {<<>>} \cup {d.name : d \in Catalog},
                                     tests : Seq(TestsShown)]]

(* One variable is initialized at a time, and only before main.            *)
Initializing ==
    /\ current # "none" => written[current] \in Catalog
    /\ step # "none" => phase = "start" /\ current # "none"
    /\ current # "none" => step # "none" \/ phase = "terminated"

(* The registry exists before a variable is constructed.                   *)
RegistryFirst ==
    /\ step = "complete" => Contains(alive, "registry")
    /\ RegistryOutlivesHandles

(* The suite being assembled has the tests of its definition in order.     *)
AddedTests(d) ==
    LET tests == suite[current].tests
        n == Len(tests)
        all == AllTests(d)
    IN  /\ n <= Len(all) /\ toAdd = SubSeq(all, n + 1, Len(all))
        /\ \A k \in 1..n : tests[k] = Shown(all[k])
        /\ Addable(d, n)

Taken(d) == \E s \in registeredSuites : suite[s].name = d.name

Assembling ==
    /\ step \in {"materialize", "fixture", "assemble"} => suite[current].tests = <<>>
    /\ step \in {"fixture", "assemble", "add", "register"} => AllNamed(Definition)
    /\ step \in {"fixture", "assemble"} => toAdd = AllTests(Definition)
    /\ step \in {"assemble", "add", "register"} => Definition.fixture \in {"none", "constructs"}
    /\ step \in {"add", "register"} => /\ suite[current].name = Definition.name
                                       /\ Definition.name # <<>> /\ AddedTests(Definition)
    /\ step = "register" => toAdd = <<>>
    /\ step = "refuse" => ~Defined!Sound(Definition) \/ Taken(Definition)

(* The variables whose definition took effect, and the suite of each.      *)
Effective == {v \in Variable : written[v] # <<>> /\ (v = current => step = "complete")}
Abstract(v) == IF v \notin registeredSuites THEN [name |-> <<>>, tests |-> {}]
               ELSE [name |-> suite[v].name, tests |-> ToSet(suite[v].tests)]

(* A registered suite is that of its definition, and is owned once.        *)
Registered ==
    /\ registeredSuites \subseteq Effective
    /\ \A v \in registeredSuites : /\ Defined!Sound(written[v])
                                   /\ Abstract(v) = Defined!Complete(written[v])
    /\ \A x \in Variables : handle[x] # "none" => handle[x] \in registeredSuites
    /\ \A x, y \in Variables : handle[x] # "none" /\ handle[x] = handle[y] => x = y
    /\ \A v \in Variable : written[v] = <<>> => suite[v].tests = <<>>

(* Without an error each definition registered a suite, which is there     *)
(* until it is dropped.                                                    *)
Accounted ==
    /\ registeredSuites \cap dropped = {} /\ dropped \subseteq Effective
    /\ errors = 0 => Effective \subseteq registeredSuites \cup dropped

LastRun ==
    /\ result # -1 => phase \in {"main", "exit"}
    /\ result = 0 => errors = 0 /\ executed = UNION {TestsOf(s) : s \in registeredSuites}

Inv ==
    /\ TypeOK /\ SuiteType
    /\ Initializing /\ RegistryFirst /\ Assembling
    /\ Registered /\ Accounted /\ LastRun

LEMMA Names == "none" \notin Variable /\ "registry" \notin Variables /\ "none" \notin Variables
               /\ Variable \subseteq Variables /\ Variable \cap Holder = {}
  BY VariableAssumption DEF Variables

(* The abstract state is what the definitions and the registered suites    *)
(* are.                                                                    *)
LEMMA SameAbstract ==
  ASSUME Effective' = Effective, errors' = errors, \A v \in Variable : Abstract(v)' = Abstract(v)
  PROVE  UNCHANGED Defined!vars
<1>1. [v \in Variable |-> Abstract(v)]' = [v \in Variable |-> Abstract(v)]
  OBVIOUS
<1> QED
  BY <1>1 DEF Defined!vars, Effective, Abstract

(* A step of the assembly before the end: nothing of it is visible.        *)
LEMMA AssemblyStep ==
  ASSUME Inv, TypeOK', SuiteType', Assembling', alive' = alive \/ RegistryFirst',
         UNCHANGED <<written, current, handle, registeredSuites, errors>>,
         UNCHANGED <<result, executed, dropped>>,
         step # "none", step # "complete", step' # "complete",
         (phase' = "start" /\ step' # "none") \/ (phase' = "terminated" /\ step' = "none"),
         \A v \in Variable : v # current => suite'[v] = suite[v]
  PROVE  Inv' /\ UNCHANGED Defined!vars
<1>1. phase = "start" /\ current \in Variable /\ written[current] \in Catalog
  BY Names DEF Inv, TypeOK, Initializing
<1>2. written[current] # <<>>
  BY <1>1, CatalogAssumption
<1>3. Effective' = Effective /\ current \notin Effective
  BY DEF Effective
<1>4. current \notin registeredSuites /\ registeredSuites \subseteq Variable
  BY <1>3 DEF Inv, Registered, TypeOK
<1>5. \A v \in Variable : Abstract(v)' = Abstract(v)
  BY <1>4 DEF Abstract
<1>6. Initializing'
  BY <1>1 DEF Inv, Initializing
<1>7. RegistryFirst'
  BY DEF Inv, RegistryFirst, RegistryOutlivesHandles
<1>8. Registered'
  BY <1>1, <1>2, <1>3, <1>4, <1>5 DEF Inv, Registered
<1>9. Accounted'
  BY <1>3 DEF Inv, Accounted
<1>10. LastRun'
  BY <1>1 DEF Inv, LastRun
<1> QED
  BY <1>3, <1>5, <1>6, <1>7, <1>8, <1>9, <1>10, SameAbstract DEF Inv

(* A step outside of an initialization that drops nothing.                 *)
LEMMA OutsideStep ==
  ASSUME Inv, TypeOK', Initializing', RegistryFirst', LastRun',
         UNCHANGED <<written, current, step, toAdd, suite, handle, registeredSuites, errors, dropped>>
  PROVE  Inv' /\ UNCHANGED Defined!vars
<1>1. Effective' = Effective /\ \A v \in Variable : Abstract(v)' = Abstract(v)
  BY DEF Effective, Abstract
<1>2. SuiteType'
  BY DEF Inv, SuiteType
<1>3. Assembling'
  BY DEF Inv, Assembling, AddedTests, Definition, Taken
<1>4. Registered'
  BY <1>1 DEF Inv, Registered, TypeOK
<1>5. Accounted'
  BY <1>1 DEF Inv, Accounted
<1> QED
  BY <1>1, <1>2, <1>3, <1>4, <1>5, SameAbstract DEF Inv

(* A suite is dropped by its owner, or an empty handle is.                 *)
LEMMA DropStep ==
  ASSUME Inv, TypeOK', Initializing', RegistryFirst', NEW gone,
         step = "none", result' = -1,
         UNCHANGED <<written, current, step, toAdd, suite, errors>>,
         gone = "none" \/ gone \in registeredSuites,
         registeredSuites' = registeredSuites \ Released(gone),
         dropped' = dropped \cup Released(gone),
         \A x \in Variables : handle'[x] # "none" => handle'[x] \in registeredSuites \ {gone},
         \A x, y \in Variables : handle'[x] # "none" /\ handle'[x] = handle'[y] => x = y
  PROVE  Inv' /\ [Defined!Next]_Defined!vars
<1>0. registeredSuites \subseteq Variable
  BY DEF Inv, TypeOK
<1>1. Released(gone) = IF gone = "none" THEN {} ELSE {gone}
  BY DEF Released
<1>2. Effective' = Effective
  BY DEF Effective
<1>3. \A v \in Variable : Abstract(v)' = IF v \in Released(gone)
                                         THEN [name |-> <<>>, tests |-> {}] ELSE Abstract(v)
  BY DEF Abstract
<1>4. SuiteType'
  BY DEF Inv, SuiteType
<1>5. Assembling'
  BY DEF Assembling
<1>6. Registered'
  <2>1. registeredSuites' \subseteq registeredSuites \ {gone}
    BY <1>0, <1>1, Names
  <2>2. \A v \in registeredSuites' : Abstract(v)' = Abstract(v)
    BY <1>0, <1>3, <2>1, <1>1
  <2>3. registeredSuites' \subseteq Effective'
    BY <1>2, <2>1 DEF Inv, Registered
  <2>4. \A v \in registeredSuites' : /\ Defined!Sound(written'[v])
                                     /\ Abstract(v)' = Defined!Complete(written'[v])
    BY <2>1, <2>2 DEF Inv, Registered
  <2>5. \A x \in Variables : handle'[x] # "none" => handle'[x] \in registeredSuites'
    BY <1>1
  <2>6. \A v \in Variable : written'[v] = <<>> => suite'[v].tests = <<>>
    BY DEF Inv, Registered
  <2> QED
    BY <2>3, <2>4, <2>5, <2>6 DEF Registered
<1>7. Accounted'
  BY <1>1, <1>2, <1>0, Names DEF Inv, Accounted, Registered
<1>8. LastRun'
  BY DEF LastRun
<1>9. [Defined!Next]_Defined!vars
  <2>1. CASE gone = "none"
    <3>1. \A v \in Variable : Abstract(v)' = Abstract(v)
      BY <1>1, <1>3, <2>1
    <3> QED
      BY <1>2, <3>1, SameAbstract
  <2>2. CASE gone # "none"
    <3>1. gone \in registeredSuites /\ gone \in Variable /\ Released(gone) = {gone}
      BY <1>0, <1>1, <2>2
    <3>2. Abstract(gone) # Defined!NoSuite
      <4>1. Abstract(gone) = Defined!Complete(written[gone]) /\ Defined!Sound(written[gone])
        BY <3>1 DEF Inv, Registered
      <4>2. Abstract(gone).name # <<>>
        BY <4>1 DEF Defined!Complete, Defined!Sound
      <4> QED
        BY <4>2 DEF Defined!NoSuite
    <3>3. [v \in Variable |-> Abstract(v)]'
            = [[v \in Variable |-> Abstract(v)] EXCEPT ![gone] = Defined!NoSuite]
      BY <1>3, <3>1 DEF Defined!NoSuite
    <3>4. Defined!Drop(gone)
      BY <1>2, <3>1, <3>2, <3>3 DEF Defined!Drop, Effective, Abstract
    <3> QED
      BY <3>1, <3>4 DEF Defined!Next
  <2> QED
    BY <2>1, <2>2
<1> QED
  BY <1>4, <1>5, <1>6, <1>7, <1>8, <1>9 DEF Inv

-----------------------------------------------------------------------------
(* Initial states, and the steps of an initialization.                     *)

LEMMA InvInit == Init => Inv /\ Defined!Init
<1> SUFFICES ASSUME Init PROVE Inv /\ Defined!Init
  OBVIOUS
<1> USE DEF Init
<1>1. TypeOK
  BY Names DEF TypeOK, Variables
<1>2. SuiteType
  BY DEF SuiteType
<1>3. Effective = {}
  BY DEF Effective
<1>4. Initializing /\ RegistryFirst /\ Assembling /\ Accounted /\ LastRun
  BY <1>3, CatalogAssumption DEF Initializing, RegistryFirst, RegistryOutlivesHandles, Assembling,
                                 Accounted, LastRun
<1>5. Registered
  BY DEF Registered, Variables
<1>6. Defined!Init
  BY <1>3 DEF Defined!Init, Defined!NoSuite, Effective
<1> QED
  BY <1>1, <1>2, <1>4, <1>5, <1>6 DEF Inv

LEMMA BeginStep ==
  ASSUME Inv, NEW v \in Variable, NEW d \in Catalog, Begin(v, d)
  PROVE  Inv' /\ UNCHANGED Defined!vars
<1>1. /\ phase = "start" /\ phase' = "start" /\ step = "none" /\ step' = "materialize"
      /\ current = "none" /\ current' = v /\ written[v] = <<>>
      /\ written' = [written EXCEPT ![v] = d]
      /\ UNCHANGED <<alive, toAdd, suite, handle, registeredSuites, errors>>
      /\ UNCHANGED <<result, executed, dropped>>
  BY DEF Begin, runVars, Inv, Initializing
<1>2. written \in [Variable -> Catalog \cup {<<>>}] /\ registeredSuites \subseteq Variable
  BY DEF Inv, TypeOK
<1>3. \A w \in Variable : written'[w] = IF w = v THEN d ELSE written[w]
  BY <1>1, <1>2
<1>4. TypeOK'
  BY <1>1, <1>2 DEF Inv, TypeOK
<1>5. SuiteType'
  BY <1>1 DEF Inv, SuiteType
<1>6. Effective' = Effective /\ v \notin Effective
  BY <1>1, <1>3, Names DEF Effective
<1>7. v \notin registeredSuites /\ registeredSuites \subseteq Effective
  BY <1>6 DEF Inv, Registered
<1>8. \A w \in Variable : Abstract(w)' = Abstract(w)
  BY <1>1 DEF Abstract
<1>9. Initializing' /\ RegistryFirst'
  BY <1>1, <1>3, Names DEF Inv, Initializing, RegistryFirst, RegistryOutlivesHandles
<1>10. Assembling'
  BY <1>1 DEF Inv, Registered, Assembling
<1>11. Registered'
  <2>1. \A w \in registeredSuites : written'[w] = written[w]
    BY <1>2, <1>3, <1>7
  <2>2. \A w \in Variable : written'[w] = <<>> => written[w] = <<>>
    BY <1>1, <1>3
  <2> QED
    BY <1>1, <1>2, <1>6, <1>8, <2>1, <2>2 DEF Inv, Registered
<1>12. Accounted' /\ LastRun'
  BY <1>1, <1>6 DEF Inv, Accounted, LastRun, TestsOf
<1> QED
  BY <1>1, <1>4, <1>5, <1>6, <1>8, <1>9, <1>10, <1>11, <1>12, SameAbstract DEF Inv

(* The variable that is initialized, between two of its steps.             *)
LEMMA Current ==
  ASSUME Inv, step # "none"
  PROVE  /\ current \in Variable /\ Definition \in Catalog /\ Definition = written[current]
         /\ phase = "start"
  BY Names DEF Inv, TypeOK, Initializing, Definition

LEMMA MaterializeStep ==
  ASSUME Inv, Materialize
  PROVE  Inv' /\ UNCHANGED Defined!vars
<1>1. /\ step = "materialize" /\ phase' = phase
      /\ UNCHANGED <<alive, written, current, suite, handle, registeredSuites, errors>>
      /\ UNCHANGED <<result, executed, dropped>>
  BY DEF Materialize, runVars
<1>2. current \in Variable /\ Definition \in Catalog /\ phase = "start" /\ Definition' = Definition
  BY <1>1, Current DEF Definition
<1>3. suite[current].tests = <<>>
  BY <1>1 DEF Inv, Assembling
<1>4. TypeOK' /\ SuiteType'
  BY <1>1 DEF Inv, TypeOK, SuiteType, Materialize
<1>5. CASE AllNamed(Definition)
  <2>1. step' = "fixture" /\ toAdd' = AllTests(Definition)
    BY <1>5 DEF Materialize, AllNamed, AllTests
  <2>2. AllNamed(Definition)'
    BY <1>2, <1>5 DEF AllNamed
  <2>3. AllTests(Definition)' = AllTests(Definition)
    BY <1>2 DEF AllTests
  <2>4. Assembling'
    BY <1>1, <1>3, <2>1, <2>2, <2>3 DEF Assembling
  <2> QED
    BY <1>1, <1>2, <1>4, <2>1, <2>4, AssemblyStep
<1>6. CASE ~AllNamed(Definition)
  <2>1. step' = "refuse"
    BY <1>6 DEF Materialize, AllNamed
  <2>2. ~Defined!Sound(Definition)
    BY <1>2, <1>6, SoundIsAddable
  <2>3. ~Defined!Sound(Definition)'
    BY <1>1, <2>2 DEF Definition
  <2>4. Assembling'
    BY <2>1, <2>3 DEF Assembling
  <2> QED
    BY <1>1, <1>2, <1>4, <2>1, <2>4, AssemblyStep
<1> QED
  BY <1>5, <1>6

LEMMA ConstructFixtureStep ==
  ASSUME Inv, ConstructFixture
  PROVE  Inv' /\ UNCHANGED Defined!vars
<1>1. /\ step = "fixture"
      /\ UNCHANGED <<alive, written, current, toAdd, suite, handle, registeredSuites, errors>>
      /\ UNCHANGED <<result, executed, dropped>>
  BY DEF ConstructFixture, runVars
<1>2. current \in Variable /\ Definition \in Catalog /\ phase = "start" /\ Definition' = Definition
  BY <1>1, Current DEF Definition
<1>3. /\ suite[current].tests = <<>> /\ AllNamed(Definition) /\ toAdd = AllTests(Definition)
  BY <1>1 DEF Inv, Assembling
<1>4. SuiteType'
  BY <1>1 DEF Inv, SuiteType
<1>5. CASE Definition.fixture \in {"none", "constructs"} /\ step' = "assemble" /\ UNCHANGED phase
  <2>1. TypeOK'
    BY <1>1, <1>5 DEF Inv, TypeOK
  <2>2. AllNamed(Definition)' /\ AllTests(Definition)' = AllTests(Definition)
    BY <1>2, <1>3 DEF AllNamed, AllTests
  <2>3. Definition.fixture' = Definition.fixture
    BY <1>2
  <2>4. Assembling'
    BY <1>1, <1>2, <1>3, <1>5, <2>2 DEF Assembling
  <2> QED
    BY <1>1, <1>2, <1>4, <1>5, <2>1, <2>4, AssemblyStep
<1>6. CASE Definition.fixture = "logic_error" /\ step' = "refuse" /\ UNCHANGED phase
  <2>1. TypeOK'
    BY <1>1, <1>6 DEF Inv, TypeOK
  <2>2. ~Defined!Sound(Definition)
    BY <1>6 DEF Defined!Sound
  <2>3. ~Defined!Sound(Definition)'
    BY <1>1, <2>2 DEF Definition
  <2>4. Assembling'
    BY <1>6, <2>3 DEF Assembling
  <2> QED
    BY <1>1, <1>2, <1>4, <1>6, <2>1, <2>4, AssemblyStep
<1>7. CASE Definition.fixture = "other_error" /\ step' = "none" /\ phase' = "terminated"
  <2>1. TypeOK'
    BY <1>1, <1>7 DEF Inv, TypeOK
  <2>2. Assembling'
    BY <1>7 DEF Assembling
  <2> QED
    BY <1>1, <1>2, <1>4, <1>7, <2>1, <2>2, AssemblyStep
<1> QED
  BY <1>5, <1>6, <1>7 DEF ConstructFixture

LEMMA ConstructSuiteStep ==
  ASSUME Inv, ConstructSuite
  PROVE  Inv' /\ UNCHANGED Defined!vars
<1> DEFINE d == Definition
<1>1. /\ step = "assemble" /\ suite' = [suite EXCEPT ![current].name = d.name]
      /\ step' = IF d.name = <<>> THEN "refuse" ELSE "add"
      /\ UNCHANGED <<phase, alive, written, current, toAdd, handle, registeredSuites, errors>>
      /\ UNCHANGED <<result, executed, dropped>>
  BY DEF ConstructSuite, runVars
<1>2. current \in Variable /\ d \in Catalog /\ phase = "start" /\ d' = d
  BY <1>1, Current DEF Definition
<1>3. /\ suite[current].tests = <<>> /\ AllNamed(d) /\ toAdd = AllTests(d)
      /\ d.fixture \in {"none", "constructs"}
  BY <1>1 DEF Inv, Assembling
<1>4. TypeOK'
  BY <1>1 DEF Inv, TypeOK
<1>5. /\ SuiteType' /\ suite'[current].name = d.name /\ suite'[current].tests = <<>>
      /\ \A v \in Variable : v # current => suite'[v] = suite[v]
  BY <1>1, <1>2, <1>3 DEF Inv, SuiteType
<1>6. Assembling'
  <2>1. CASE d.name = <<>>
    <3>1. ~Defined!Sound(d)
      BY <2>1 DEF Defined!Sound
    <3>2. ~Defined!Sound(d)'
      BY <1>1, <3>1 DEF Definition
    <3> QED
      BY <1>1, <2>1, <3>2 DEF Assembling
  <2>2. CASE d.name # <<>>
    <3>1. AllNamed(d)' /\ AllTests(d)' = AllTests(d)
      BY <1>2, <1>3 DEF AllNamed, AllTests
    <3>2. AddedTests(d)'
      <4>1. AllTests(d) \in Seq(Rows(d)) /\ Len(AllTests(d)) \in Nat
        BY <1>2, AllTestsType
      <4>2. SubSeq(AllTests(d), 1, Len(AllTests(d))) = AllTests(d)
        BY <4>1
      <4>3. Addable(d, 0)
        BY DEF Addable
      <4>4. Addable(d, 0)'
        BY <1>2, <3>1, <4>3 DEF Addable
      <4>5. Len(suite'[current'].tests) = 0
        BY <1>1, <1>5
      <4>6. toAdd' = SubSeq(AllTests(d)', 0 + 1, Len(AllTests(d)'))
        BY <1>1, <1>3, <3>1, <4>2
      <4>7. 0 <= Len(AllTests(d)')
        BY <3>1, <4>1
      <4> QED
        BY <4>4, <4>5, <4>6, <4>7 DEF AddedTests
    <3>3. d'.fixture = d.fixture /\ d'.name = d.name
      BY <1>2
    <3>4. step' = "add"
      BY <1>1, <2>2
    <3> QED
      BY <1>1, <1>3, <1>5, <2>2, <3>1, <3>2, <3>3, <3>4 DEF Assembling
  <2> QED
    BY <2>1, <2>2
<1>7. step' # "complete" /\ step' # "none" /\ phase' = "start"
  BY <1>1, <1>2
<1> QED
  BY <1>1, <1>4, <1>5, <1>6, <1>7, AssemblyStep

(* What is left to add, when n tests have been.                            *)
LEMMA Left ==
  ASSUME NEW T, NEW all \in Seq(T), NEW n \in Nat, n <= Len(all)
  PROVE  LET rest == SubSeq(all, n + 1, Len(all))
         IN  /\ rest = <<>> <=> n = Len(all)
             /\ rest # <<>> => /\ n + 1 \in 1..Len(all) /\ Head(rest) = all[n + 1]
                               /\ Tail(rest) = SubSeq(all, n + 2, Len(all))
<1> DEFINE m == Len(all)
           rest == SubSeq(all, n + 1, m)
<1>1. m \in Nat
  OBVIOUS
<1>2. CASE n = m
  <2>1. n + 1 > m
    BY <1>1, <1>2
  <2>2. rest = <<>>
    BY <2>1, SubSeqProperties
  <2> QED
    BY <1>2, <2>2
<1>3. CASE n # m
  <2>1. n + 1 \in 1..m /\ n + 1 <= m /\ n + 1 \in 1..(m + 1) /\ n + 2 \in 1..(m + 1)
    BY <1>1, <1>3
  <2>2. /\ rest \in Seq(T) /\ Len(rest) = m - n
        /\ \A i \in 1..(m - n) : rest[i] = all[n + i]
    <3> HIDE DEF m
    <3>1. \A i \in 1..(m - n) : n + 1 + i - 1 = n + i
      BY <1>1
    <3>2. m - (n + 1) + 1 = m - n
      BY <1>1
    <3> QED
      BY <1>1, <2>1, <3>1, <3>2 DEF m
  <2> HIDE DEF rest
  <2>3. Len(rest) # 0 /\ 1 \in 1..(m - n)
    BY <1>1, <1>3, <2>2
  <2>4. rest # <<>> /\ Head(rest) = all[n + 1]
    <3>1. rest # <<>>
      BY <2>3
    <3>2. Head(rest) = rest[1]
      BY <2>2, <3>1
    <3> QED
      BY <2>2, <2>3, <3>1, <3>2
  <2>5. Tail(rest) = SubSeq(all, n + 2, m)
    <3>1. /\ Tail(rest) \in Seq(T) /\ Len(Tail(rest)) = m - n - 1
          /\ \A i \in 1..(m - n - 1) : Tail(rest)[i] = rest[i + 1]
      BY <2>2, <2>4, HeadTailProperties
    <3>2. /\ SubSeq(all, n + 2, m) \in Seq(T) /\ Len(SubSeq(all, n + 2, m)) = m - n - 1
          /\ \A i \in 1..(m - n - 1) : SubSeq(all, n + 2, m)[i] = all[n + 2 + i - 1]
      <4>1. \A i \in (n + 2)..m : all[i] \in T
        BY <1>1
      <4>2. n + 2 \in Int /\ m \in Int /\ m - (n + 2) + 1 = m - n - 1
            /\ (IF n + 2 <= m THEN m - n - 1 ELSE 0) = m - n - 1
        BY <1>1, <2>1
      <4> HIDE DEF m
      <4> QED
        BY <4>1, <4>2, SubSeqProperties
    <3>3. \A i \in 1..(m - n - 1) : Tail(rest)[i] = SubSeq(all, n + 2, m)[i]
      <4> SUFFICES ASSUME NEW i \in 1..(m - n - 1) PROVE Tail(rest)[i] = SubSeq(all, n + 2, m)[i]
        OBVIOUS
      <4>1. i + 1 \in 1..(m - n) /\ n + (i + 1) = n + 2 + i - 1
        BY <1>1
      <4>2. rest[i + 1] = all[n + (i + 1)]
        BY <2>2, <4>1
      <4> QED
        BY <3>1, <3>2, <4>1, <4>2
    <3>4. \A s, t \in Seq(T) : Len(s) = Len(t) /\ (\A i \in 1..Len(s) : s[i] = t[i]) => s = t
      BY SeqEqual
    <3> QED
      BY <3>1, <3>2, <3>3, <3>4, Zenon
  <2> QED
    BY <1>3, <2>1, <2>4, <2>5 DEF rest
<1> QED
  BY <1>2, <1>3

(* A refused step of the assembly leaves all else as it is.                *)
LEMMA NotSoundIsRefused ==
  ASSUME Inv, step # "none", step' = "refuse", UNCHANGED <<written, current>>, ~Defined!Sound(Definition)
  PROVE  Assembling'
<1>1. ~Defined!Sound(Definition)'
  BY DEF Definition
<1> QED
  BY <1>1 DEF Assembling

LEMMA AddTestStep ==
  ASSUME Inv, AddTest
  PROVE  Inv' /\ UNCHANGED Defined!vars
<1> DEFINE d == Definition
           all == AllTests(d)
           tests == suite[current].tests
           n == Len(tests)
           test == Head(toAdd)
           taken == \E i \in DOMAIN tests : tests[i].name = test.name
<1>1. /\ step = "add" /\ toAdd # <<>> /\ toAdd' = Tail(toAdd)
      /\ step' = IF test.attempts = 0 \/ taken THEN "refuse" ELSE "add"
      /\ suite' = IF test.attempts = 0 \/ taken THEN suite
                  ELSE [suite EXCEPT ![current].tests = Append(tests, Shown(test))]
      /\ UNCHANGED <<phase, alive, written, current, handle, registeredSuites, errors>>
      /\ UNCHANGED <<result, executed, dropped>>
  BY DEF AddTest, AfterDuplicate, runVars, Shown
<1>2. current \in Variable /\ d \in Catalog /\ phase = "start" /\ d' = d
  BY <1>1, Current DEF Definition
<1>3. /\ AllNamed(d) /\ d.fixture \in {"none", "constructs"}
      /\ suite[current].name = d.name /\ d.name # <<>> /\ AddedTests(d)
  BY <1>1 DEF Inv, Assembling
<1>4. /\ tests \in Seq(TestsShown) /\ n \in Nat /\ DOMAIN tests = 1..n
      /\ suite[current] \in [name : {<<>>} \cup {e.name : e \in Catalog}, tests : Seq(TestsShown)]
  BY <1>2 DEF Inv, SuiteType
<1>5. all \in Seq(Rows(d)) /\ Len(all) \in Nat /\ \A k \in 1..Len(all) : all[k] \in Rows(d)
  BY <1>2, AllTestsType
<1>6. /\ n <= Len(all) /\ toAdd = SubSeq(all, n + 1, Len(all))
      /\ \A k \in 1..n : tests[k] = Shown(all[k])
      /\ Addable(d, n)
  BY <1>3 DEF AddedTests
<1>7. TypeOK'
  BY <1>1 DEF Inv, TypeOK
<1>8. all' = all /\ AllNamed(d)'
  BY <1>2, <1>3 DEF AllTests, AllNamed
<1> HIDE DEF all, n, d
<1>9. /\ n + 1 \in 1..Len(all) /\ test = all[n + 1]
      /\ toAdd' = SubSeq(all, n + 2, Len(all))
  BY <1>1, <1>4, <1>5, <1>6, Left
<1> HIDE DEF test, tests
<1>10. taken <=> \E k \in 1..n : all[k].name = all[n + 1].name
  <2>1. \A row : Shown(row).name = row.name
    BY DEF Shown
  <2>2. \A k \in 1..n : tests[k].name = all[k].name
    BY <1>6, <2>1
  <2> QED
    BY <1>4, <1>9, <2>2
<1>11. CASE test.attempts = 0 \/ taken
  <2>1. ~Addable(d, Len(all))
    <3>1. CASE test.attempts = 0
      BY <1>9, <3>1 DEF Addable, all
    <3>2. CASE taken
      <4>1. PICK k \in 1..n : all[k].name = all[n + 1].name
        BY <1>10, <3>2
      <4>2. k \in 1..Len(all) /\ k # n + 1
        BY <1>4, <1>5, <1>6, <4>1
      <4> QED
        BY <1>9, <4>1, <4>2 DEF Addable, all
    <3> QED
      BY <1>11, <3>1, <3>2
  <2>2. ~Defined!Sound(d)
    BY <1>2, <2>1, SoundIsAddable DEF all
  <2>3. step' = "refuse" /\ suite' = suite
    BY <1>1, <1>11
  <2>4. Assembling'
    BY <1>1, <2>2, <2>3, NotSoundIsRefused DEF d
  <2>5. SuiteType'
    BY <2>3 DEF Inv, SuiteType
  <2> QED
    BY <1>1, <1>2, <1>7, <2>3, <2>4, <2>5, AssemblyStep
<1>12. CASE ~(test.attempts = 0 \/ taken)
  <2>1. /\ step' = "add"
        /\ suite' = [suite EXCEPT ![current].tests = Append(tests, Shown(test))]
    BY <1>1, <1>12
  <2>2. Shown(test) \in TestsShown
    BY <1>2, <1>5, <1>9 DEF TestsShown
  <2>3. /\ Append(tests, Shown(test)) \in Seq(TestsShown)
        /\ Len(Append(tests, Shown(test))) = n + 1
        /\ \A i \in 1..n : Append(tests, Shown(test))[i] = tests[i]
        /\ Append(tests, Shown(test))[n + 1] = Shown(test)
    BY <1>4, <2>2, AppendProperties DEF n
  <2> DEFINE more == Append(tests, Shown(test))
  <2> HIDE DEF more
  <2>4. /\ SuiteType' /\ suite'[current].name = d.name /\ suite'[current].tests = more
        /\ \A v \in Variable : v # current => suite'[v] = suite[v]
    <3>1. suite \in [Variable -> [name : {<<>>} \cup {e.name : e \in Catalog}, tests : Seq(TestsShown)]]
      BY DEF Inv, SuiteType
    <3>2. suite' = [suite EXCEPT ![current].tests = more] /\ more \in Seq(TestsShown)
      BY <2>1, <2>3 DEF more
    <3> QED
      BY <1>2, <1>3, <3>1, <3>2 DEF SuiteType
  <2>5. Addable(d, n + 1)
    <3>1. \A k \in 1..(n + 1) : k \in 1..n \/ k = n + 1
      BY <1>4
    <3>2. \A k \in 1..n : all[k].attempts # 0
      BY <1>6 DEF Addable, all
    <3>3. \A j, k \in 1..n : all[j].name = all[k].name => j = k
      BY <1>6 DEF Addable, all
    <3>4. all[n + 1].attempts # 0 /\ \A k \in 1..n : all[k].name # all[n + 1].name
      BY <1>9, <1>10, <1>12
    <3>5. \A k \in 1..(n + 1) : all[k].attempts # 0
      BY <3>1, <3>2, <3>4
    <3>6. \A j, k \in 1..(n + 1) : all[j].name = all[k].name => j = k
      BY <3>1, <3>3, <3>4
    <3> QED
      BY <3>5, <3>6 DEF Addable, all
  <2>6. \A k \in 1..(n + 1) : more[k] = Shown(all[k])
    <3>1. \A k \in 1..(n + 1) : k \in 1..n \/ k = n + 1
      BY <1>4
    <3> QED
      BY <1>6, <1>9, <2>3, <3>1 DEF more
  <2>7. AddedTests(d)'
    <3>1. Len(suite'[current'].tests) = n + 1 /\ suite'[current'].tests = more
      BY <1>1, <2>3, <2>4 DEF more
    <3>2. n + 1 <= Len(all) /\ n + 1 + 1 = n + 2
      BY <1>4, <1>5, <1>9
    <3>3. AllTests(d') = all /\ Addable(d', n + 1)
      BY <1>2, <2>5 DEF all
    <3> QED
      BY <1>9, <2>6, <3>1, <3>2, <3>3 DEF AddedTests
  <2>8. d'.fixture = d.fixture /\ d'.name = d.name
    BY <1>2
  <2>9. Assembling'
    BY <1>1, <1>3, <1>8, <2>1, <2>4, <2>7, <2>8 DEF Assembling, d
  <2> QED
    BY <1>1, <1>2, <1>7, <2>1, <2>4, <2>9, AssemblyStep
<1> QED
  BY <1>11, <1>12

LEMMA AssembledStep ==
  ASSUME Inv, Assembled
  PROVE  Inv' /\ UNCHANGED Defined!vars
<1> DEFINE d == Definition
<1>1. /\ step = "add" /\ toAdd = <<>> /\ step' = "register"
      /\ UNCHANGED <<phase, alive, written, current, toAdd, suite, handle, registeredSuites, errors>>
      /\ UNCHANGED <<result, executed, dropped>>
  BY DEF Assembled, runVars
<1>2. current \in Variable /\ d \in Catalog /\ phase = "start" /\ d' = d
  BY <1>1, Current DEF Definition
<1>3. TypeOK' /\ SuiteType'
  BY <1>1 DEF Inv, TypeOK, SuiteType
<1>4. Assembling'
  <2>1. /\ AllNamed(d) /\ d.fixture \in {"none", "constructs"}
        /\ suite[current].name = d.name /\ d.name # <<>> /\ AddedTests(d)
    BY <1>1 DEF Inv, Assembling
  <2>2. AllNamed(d)' /\ AddedTests(d)' /\ d'.name = d.name /\ d'.fixture = d.fixture
    BY <1>1, <1>2, <2>1 DEF AllNamed, AddedTests
  <2> QED
    BY <1>1, <2>1, <2>2 DEF Assembling
<1> QED
  BY <1>1, <1>2, <1>3, <1>4, AssemblyStep

(* A static object is constructed, a variable of Suite(...) only after the *)
(* registry.                                                               *)
LEMMA Constructed ==
  ASSUME Inv, NEW x \in Variables \cup {"registry"}, alive' = Append(alive, x),
         x \in Variable => Contains(alive, "registry"), phase' # "undefined"
  PROVE  /\ alive' \in Seq(Variable \cup Holder \cup {"registry"})
         /\ Contains(alive', x) /\ (Contains(alive, "registry") => Contains(alive', "registry"))
         /\ RegistryOutlivesHandles'
<1> DEFINE T == Variable \cup Holder \cup {"registry"}
           n == Len(alive)
<1>1. alive \in Seq(T) /\ x \in T
  BY DEF Inv, TypeOK, Variables
<1>2. n \in Nat /\ DOMAIN alive = 1..n
  BY <1>1
<1>3. /\ alive' \in Seq(T) /\ Len(alive') = n + 1 /\ DOMAIN alive' = 1..(n + 1)
      /\ \A i \in 1..n : alive'[i] = alive[i]
      /\ alive'[n + 1] = x
  <2> HIDE DEF T
  <2>1. /\ alive' \in Seq(T) /\ Len(alive') = n + 1
        /\ \A i \in 1..n : alive'[i] = alive[i]
        /\ alive'[n + 1] = x
    BY <1>1, AppendProperties
  <2> QED
    BY <2>1
<1> HIDE DEF n, T
<1>4. /\ \A i \in 1..(n + 1) : i \in 1..n \/ i = n + 1
      /\ \A i \in 1..n : i \in 1..(n + 1)
      /\ n + 1 \in 1..(n + 1) /\ (n + 1) - 1 = n
  BY <1>2
<1>5. Contains(alive, "registry") => \E j \in 1..n : alive[j] = "registry"
  BY DEF Contains, n
<1>6. Contains(alive', x) /\ (Contains(alive, "registry") => Contains(alive', "registry"))
  BY <1>3, <1>4, <1>5 DEF Contains
<1>7. \A i \in 1..n : alive[i] \in Variable => \E j \in 1..(i - 1) : alive[j] = "registry"
  BY <1>2 DEF Inv, RegistryFirst, RegistryOutlivesHandles
<1>8. \A i \in 1..(n + 1) : alive'[i] \in Variable => \E j \in 1..(i - 1) : alive'[j] = "registry"
  <2> SUFFICES ASSUME NEW i \in 1..(n + 1), alive'[i] \in Variable
               PROVE  \E j \in 1..(i - 1) : alive'[j] = "registry"
    OBVIOUS
  <2>1. CASE i \in 1..n
    <3>1. PICK j \in 1..(i - 1) : alive[j] = "registry"
      BY <1>3, <1>7, <2>1
    <3>2. j \in 1..n
      BY <1>2, <2>1
    <3> QED
      BY <1>3, <3>1, <3>2
  <2>2. CASE i = n + 1
    <3>1. PICK j \in 1..n : alive[j] = "registry"
      BY <1>3, <1>5, <2>2
    <3> QED
      BY <1>3, <1>4, <2>2, <3>1
  <2> QED
    BY <1>4, <2>1, <2>2
<1> QED
  BY <1>3, <1>6, <1>8 DEF RegistryOutlivesHandles, T

LEMMA RegistryConstructed ==
  ASSUME Inv, alive' = WithRegistry, phase' = phase, phase = "start"
  PROVE  /\ alive' \in Seq(Variable \cup Holder \cup {"registry"})
         /\ Contains(alive', "registry") /\ RegistryFirst'
<1>1. CASE Contains(alive, "registry")
  <2>1. alive' = alive
    BY <1>1 DEF WithRegistry
  <2> QED
    BY <1>1, <2>1 DEF Inv, TypeOK, RegistryFirst, RegistryOutlivesHandles
<1>2. CASE ~Contains(alive, "registry")
  <2>1. alive' = Append(alive, "registry") /\ "registry" \notin Variable
    BY <1>2, Names DEF WithRegistry
  <2> QED
    BY <2>1, Constructed DEF RegistryFirst
<1> QED
  BY <1>1, <1>2

LEMMA RegisterStep ==
  ASSUME Inv, RegisterSuite
  PROVE  Inv' /\ [Defined!Next]_Defined!vars
<1> DEFINE d == Definition
           all == AllTests(d)
           tests == suite[current].tests
<1>1. /\ step = "register" /\ alive' = WithRegistry
      /\ UNCHANGED <<phase, written, current, toAdd, suite, errors>>
      /\ UNCHANGED <<result, executed, dropped>>
  BY DEF RegisterSuite, runVars
<1>2. current \in Variable /\ d \in Catalog /\ phase = "start" /\ d = written[current] /\ d' = d
  BY <1>1, Current DEF Definition
<1>3. /\ AllNamed(d) /\ d.fixture \in {"none", "constructs"} /\ toAdd = <<>>
      /\ suite[current].name = d.name /\ d.name # <<>> /\ AddedTests(d)
  BY <1>1 DEF Inv, Assembling
<1>4. /\ alive' \in Seq(Variable \cup Holder \cup {"registry"})
      /\ Contains(alive', "registry") /\ RegistryFirst'
  BY <1>1, <1>2, RegistryConstructed
<1>5. SuiteType'
  BY <1>1 DEF Inv, SuiteType
<1>6. CASE \E s \in registeredSuites : suite[s].name = suite[current].name
  <2>1. step' = "refuse" /\ UNCHANGED <<registeredSuites, handle>>
    BY <1>6 DEF RegisterSuite
  <2>2. TypeOK'
    BY <1>1, <1>4, <2>1 DEF Inv, TypeOK
  <2>3. Taken(d)'
    BY <1>1, <1>2, <1>3, <1>6, <2>1 DEF Taken
  <2>4. Assembling'
    BY <2>1, <2>3 DEF Assembling
  <2> QED
    BY <1>1, <1>2, <1>4, <1>5, <2>1, <2>2, <2>4, AssemblyStep
<1>7. CASE ~\E s \in registeredSuites : suite[s].name = suite[current].name
  <2>1. /\ step' = "complete" /\ registeredSuites' = registeredSuites \cup {current}
        /\ handle' = [handle EXCEPT ![current] = current]
    BY <1>7 DEF RegisterSuite
  <2>2. d # <<>> /\ current \notin Effective /\ Effective' = Effective \cup {current}
    <3>1. d # <<>>
      BY <1>2, CatalogAssumption
    <3> QED
      BY <1>1, <1>2, <2>1, <3>1 DEF Effective
  <2>3. /\ registeredSuites \subseteq Effective /\ registeredSuites \subseteq Variable
        /\ dropped \subseteq Effective /\ registeredSuites \cap dropped = {}
        /\ errors = 0 => Effective \subseteq registeredSuites \cup dropped
        /\ handle \in [Variable \cup Holder -> Variable \cup {"none"}]
        /\ \A x \in Variables : handle[x] # "none" => handle[x] \in registeredSuites
        /\ \A x, y \in Variables : handle[x] # "none" /\ handle[x] = handle[y] => x = y
    BY DEF Inv, TypeOK, Registered, Accounted
  <2>4. TypeOK'
    BY <1>1, <1>2, <1>4, <2>1, <2>3 DEF Inv, TypeOK
  <2>5. ToSet(tests) = {Shown(all[k]) : k \in 1..Len(all)}
    <3>1. tests \in Seq(TestsShown) /\ Len(tests) \in Nat /\ DOMAIN tests = 1..Len(tests)
      BY <1>2 DEF Inv, SuiteType
    <3>2. /\ Len(tests) <= Len(all) /\ <<>> = SubSeq(all, Len(tests) + 1, Len(all))
          /\ \A k \in 1..Len(tests) : tests[k] = Shown(all[k])
      BY <1>3 DEF AddedTests
    <3>3. all \in Seq(Rows(d))
      BY <1>2, AllTestsType
    <3> HIDE DEF all, tests, d
    <3>4. Len(tests) = Len(all)
      BY <3>1, <3>2, <3>3, Left
    <3> QED
      BY <3>1, <3>2, <3>4 DEF ToSet
  <2>6. Defined!Sound(d)
    <3>1. Addable(d, Len(tests)) /\ Len(tests) <= Len(all)
          /\ <<>> = SubSeq(all, Len(tests) + 1, Len(all))
      BY <1>3 DEF AddedTests
    <3>2. tests \in Seq(TestsShown) /\ all \in Seq(Rows(d))
      BY <1>2, AllTestsType DEF Inv, SuiteType
    <3>3. Len(tests) = Len(all)
      <4> HIDE DEF all, tests, d
      <4>1. Len(tests) \in Nat
        BY <3>2
      <4> QED
        BY <3>1, <3>2, <4>1, Left
    <3> QED
      BY <1>2, <1>3, <3>1, <3>3, SoundIsAddable
  <2>7. [name |-> suite[current].name, tests |-> ToSet(tests)] = Defined!Complete(d)
    BY <1>2, <1>3, <2>5, CompleteIsAll
  <2>8. \A v \in Variable : Abstract(v)' = IF v = current THEN Defined!Complete(d) ELSE Abstract(v)
    <3>1. \A v \in Variable : v # current => Abstract(v)' = Abstract(v)
      BY <1>1, <2>1 DEF Abstract
    <3>2. \A v \in Variable : v = current => Abstract(v)' = Defined!Complete(d)
      BY <1>1, <2>1, <2>7 DEF Abstract
    <3> HIDE DEF d
    <3> QED
      BY <3>1, <3>2
  <2>9. Initializing' /\ Assembling'
    BY <1>1, <1>2, <2>1 DEF Inv, Initializing, Assembling
  <2>10. Registered'
    <3>1. registeredSuites' \subseteq Effective'
      BY <2>1, <2>2, <2>3
    <3>2. \A v \in registeredSuites' : /\ Defined!Sound(written'[v])
                                       /\ Abstract(v)' = Defined!Complete(written'[v])
      <4>1. \A v \in registeredSuites : /\ Defined!Sound(written[v])
                                        /\ Abstract(v) = Defined!Complete(written[v])
        BY DEF Inv, Registered
      <4>2. \A v \in registeredSuites' : v = current \/ (v \in registeredSuites /\ v # current)
        BY <2>1
      <4>3. \A v \in registeredSuites' : v \in Variable
        BY <1>2, <2>1, <2>3
      <4> HIDE DEF d
      <4> QED
        BY <1>1, <1>2, <2>6, <2>8, <4>1, <4>2, <4>3
    <3>3. \A x \in Variables : handle'[x] = IF x = current THEN current ELSE handle[x]
      BY <1>2, <2>1, <2>3 DEF Variables
    <3>4. \A x \in Variables : handle[x] # current
      BY <2>2, <2>3, <1>2, Names
    <3>5. \A x \in Variables : handle'[x] # "none" => handle'[x] \in registeredSuites'
      BY <2>1, <2>3, <3>3
    <3>6. \A x, y \in Variables : handle'[x] # "none" /\ handle'[x] = handle'[y] => x = y
      BY <2>3, <3>3, <3>4
    <3>7. \A v \in Variable : written'[v] = <<>> => suite'[v].tests = <<>>
      BY <1>1 DEF Inv, Registered
    <3> QED
      BY <3>1, <3>2, <3>5, <3>6, <3>7 DEF Registered
  <2>11. Accounted'
    BY <1>1, <2>1, <2>2, <2>3 DEF Accounted
  <2>12. LastRun'
    BY <1>1, <1>2 DEF Inv, LastRun
  <2>13. PICK v \in Variable, e \in Catalog : v = current /\ e = d
    BY <1>2
  <2>14. Defined!Define(v, e)
    <3>1. Defined!Free(d.name)
      <4>1. \A w \in Variable : Abstract(w).name # d.name
        BY <1>3, <1>7 DEF Abstract
      <4> QED
        BY <4>1 DEF Defined!Free, Abstract
    <3>2. [w \in Variable |-> Abstract(w)]'
            = [[w \in Variable |-> Abstract(w)] EXCEPT ![current] = Defined!Complete(d)]
      BY <1>2, <2>8
    <3> QED
      BY <1>1, <2>2, <2>6, <2>13, <3>1, <3>2 DEF Defined!Define, Effective, Abstract
  <2>15. Defined!Next
    BY <2>14 DEF Defined!Next
  <2> QED
    BY <1>4, <1>5, <2>4, <2>9, <2>10, <2>11, <2>12, <2>15 DEF Inv
<1> QED
  BY <1>6, <1>7

LEMMA RefuseStep ==
  ASSUME Inv, Refuse
  PROVE  Inv' /\ [Defined!Next]_Defined!vars
<1> DEFINE d == Definition
<1>1. /\ step = "refuse" /\ step' = "complete" /\ alive' = WithRegistry /\ errors' = errors + 1
      /\ suite' = [suite EXCEPT ![current] = [name |-> <<>>, tests |-> <<>>]]
      /\ UNCHANGED <<phase, written, current, handle, registeredSuites>>
      /\ UNCHANGED <<result, executed, dropped>> /\ toAdd' = <<>>
  BY DEF Refuse, ErrorsOfRefusal, runVars
<1>2. current \in Variable /\ d \in Catalog /\ phase = "start" /\ d = written[current]
  BY <1>1, Current DEF Definition
<1>3. ~Defined!Sound(d) \/ Taken(d)
  BY <1>1 DEF Inv, Assembling
<1>4. alive' \in Seq(Variable \cup Holder \cup {"registry"}) /\ RegistryFirst'
  BY <1>1, <1>2, RegistryConstructed
<1>5. /\ errors \in Nat /\ registeredSuites \subseteq Variable /\ registeredSuites \subseteq Effective
      /\ dropped \subseteq Effective /\ registeredSuites \cap dropped = {}
  BY DEF Inv, TypeOK, Registered, Accounted
<1>6. d # <<>> /\ current \notin Effective /\ Effective' = Effective \cup {current}
  <2>1. d # <<>>
    BY <1>2, CatalogAssumption
  <2> QED
    BY <1>1, <1>2, <2>1 DEF Effective
<1>7. TypeOK'
  BY <1>1, <1>4 DEF Inv, TypeOK
<1>8. SuiteType' /\ \A v \in Variable : /\ v # current => suite'[v] = suite[v]
                                        /\ suite'[v].tests = <<>> \/ suite'[v] = suite[v]
  <2>1. suite \in [Variable -> [name : {<<>>} \cup {e.name : e \in Catalog}, tests : Seq(TestsShown)]]
    BY DEF Inv, SuiteType
  <2>2. <<>> \in Seq(TestsShown)
    OBVIOUS
  <2> QED
    BY <1>1, <1>2, <2>1, <2>2 DEF SuiteType
<1>9. \A v \in Variable : Abstract(v)' = Abstract(v)
  BY <1>1, <1>5, <1>6, <1>8 DEF Abstract
<1>10. Initializing' /\ Assembling' /\ LastRun'
  BY <1>1, <1>2 DEF Inv, Initializing, Assembling, LastRun
<1>11. Registered'
  <2>1. registeredSuites' \subseteq Effective'
    BY <1>1, <1>5, <1>6
  <2>2. \A v \in registeredSuites' : /\ Defined!Sound(written'[v])
                                     /\ Abstract(v)' = Defined!Complete(written'[v])
    BY <1>1, <1>5, <1>9 DEF Inv, Registered
  <2>3. /\ \A x \in Variables : handle'[x] # "none" => handle'[x] \in registeredSuites'
        /\ \A x, y \in Variables : handle'[x] # "none" /\ handle'[x] = handle'[y] => x = y
    BY <1>1 DEF Inv, Registered
  <2>4. \A v \in Variable : written'[v] = <<>> => suite'[v].tests = <<>>
    BY <1>1, <1>8 DEF Inv, Registered
  <2> QED
    BY <2>1, <2>2, <2>3, <2>4 DEF Registered
<1>12. Accounted'
  BY <1>1, <1>5, <1>6 DEF Accounted
<1>13. PICK v \in Variable, e \in Catalog : v = current /\ e = d
  BY <1>2
<1>14. Defined!Define(v, e)
  <2>1. ~(Defined!Sound(d) /\ Defined!Free(d.name))
    <3>1. ASSUME Taken(d) PROVE ~Defined!Free(d.name)
      <4>1. PICK s \in registeredSuites : suite[s].name = d.name
        BY <3>1 DEF Taken
      <4>2. s \in Variable /\ Abstract(s).name = d.name
        BY <1>5, <4>1 DEF Abstract
      <4> QED
        BY <4>2 DEF Defined!Free, Abstract
    <3> QED
      BY <1>3, <3>1
  <2>2. [w \in Variable |-> Abstract(w)]' = [w \in Variable |-> Abstract(w)]
    BY <1>9
  <2> QED
    BY <1>1, <1>6, <1>13, <2>1, <2>2 DEF Defined!Define, Effective, Abstract
<1>15. Defined!Next
  BY <1>14 DEF Defined!Next
<1> QED
  BY <1>4, <1>7, <1>8, <1>10, <1>11, <1>12, <1>15 DEF Inv

LEMMA CompleteStep ==
  ASSUME Inv, Complete
  PROVE  Inv' /\ UNCHANGED Defined!vars
<1>1. /\ step = "complete" /\ step' = "none" /\ current' = "none" /\ alive' = Append(alive, current)
      /\ UNCHANGED <<phase, written, toAdd, suite, handle, registeredSuites, errors>>
      /\ UNCHANGED <<result, executed, dropped>>
  BY DEF Complete, runVars
<1>2. current \in Variable /\ phase = "start" /\ written[current] # <<>>
  <2>1. current \in Variable /\ Definition \in Catalog /\ Definition = written[current] /\ phase = "start"
    BY <1>1, Current
  <2> QED
    BY <2>1, CatalogAssumption
<1>3. Contains(alive, "registry") /\ current \in Variables \cup {"registry"} /\ phase' # "undefined"
  BY <1>1, <1>2, Names DEF Inv, RegistryFirst
<1>4. alive' \in Seq(Variable \cup Holder \cup {"registry"}) /\ RegistryOutlivesHandles'
  BY <1>1, <1>3, Constructed
<1>5. TypeOK' /\ SuiteType'
  BY <1>1, <1>4 DEF Inv, TypeOK, SuiteType
<1>6. Effective' = Effective
  BY <1>1, <1>2, Names DEF Effective
<1>7. \A v \in Variable : Abstract(v)' = Abstract(v)
  BY <1>1 DEF Abstract
<1>8. Initializing' /\ RegistryFirst' /\ Assembling' /\ LastRun'
  BY <1>1, <1>2, <1>4 DEF Inv, Initializing, RegistryFirst, Assembling, LastRun
<1>9. Registered'
  <2>1. registeredSuites \subseteq Variable
    BY DEF Inv, TypeOK
  <2> QED
    BY <1>1, <1>6, <1>7, <2>1 DEF Inv, Registered
<1>10. Accounted'
  BY <1>1, <1>6 DEF Inv, Accounted
<1> QED
  BY <1>1, <1>5, <1>6, <1>7, <1>8, <1>9, <1>10, SameAbstract DEF Inv

-----------------------------------------------------------------------------
(* The other steps.                                                        *)

LEMMA ConstructHolderStep ==
  ASSUME Inv, NEW h \in Holder, ConstructHolder(h)
  PROVE  Inv' /\ UNCHANGED Defined!vars
<1>1. /\ phase \in {"start", "main"} /\ step = "none" /\ alive' = Append(alive, h)
      /\ UNCHANGED <<phase, written, current, step, toAdd, suite, handle, registeredSuites, errors>>
      /\ UNCHANGED <<result, executed, dropped>>
  BY DEF ConstructHolder, definitionVars, runVars
<1>2. h \in Variables \cup {"registry"} /\ h \notin Variable /\ phase' # "undefined"
  BY <1>1, Names DEF Variables
<1>3. alive' \in Seq(Variable \cup Holder \cup {"registry"}) /\ RegistryOutlivesHandles'
  BY <1>1, <1>2, Constructed
<1>4. TypeOK'
  BY <1>1, <1>3 DEF Inv, TypeOK
<1>5. Initializing' /\ RegistryFirst'
  BY <1>1, <1>3 DEF Inv, Initializing, RegistryFirst
<1>6. LastRun'
  BY <1>1 DEF Inv, LastRun, TestsOf
<1> QED
  BY <1>1, <1>4, <1>5, <1>6, OutsideStep

LEMMA EnterMainStep ==
  ASSUME Inv, EnterMain
  PROVE  Inv' /\ UNCHANGED Defined!vars
<1>1. /\ phase = "start" /\ phase' = "main" /\ step = "none"
      /\ UNCHANGED <<alive, written, current, step, toAdd, suite, handle, registeredSuites, errors>>
      /\ UNCHANGED <<result, executed, dropped>>
  BY DEF EnterMain, definitionVars, runVars
<1>2. current = "none"
  BY <1>1 DEF Inv, Initializing
<1>3. TypeOK' /\ Initializing' /\ RegistryFirst' /\ LastRun'
  BY <1>1, <1>2 DEF Inv, TypeOK, Initializing, RegistryFirst, RegistryOutlivesHandles, LastRun
<1> QED
  BY <1>1, <1>3, OutsideStep

LEMMA RunStep ==
  ASSUME Inv, Run
  PROVE  Inv' /\ UNCHANGED Defined!vars
<1>1. /\ phase = "main" /\ result' = (IF errors > 0 THEN 2 ELSE 0)
      /\ executed' = (IF errors > 0 THEN {} ELSE UNION {TestsOf(s) : s \in registeredSuites})
      /\ UNCHANGED <<alive, written, current, step, toAdd, suite, handle, registeredSuites, errors>>
      /\ UNCHANGED <<phase, dropped>>
  BY DEF Run, definitionVars
<1>2. errors \in Nat
  BY DEF Inv, TypeOK
<1>3. TypeOK' /\ Initializing' /\ RegistryFirst'
  BY <1>1 DEF Inv, TypeOK, Initializing, RegistryFirst, RegistryOutlivesHandles
<1>4. LastRun'
  <2>1. UNION {TestsOf(s) : s \in registeredSuites}' = UNION {TestsOf(s) : s \in registeredSuites}
    BY <1>1 DEF TestsOf
  <2>2. result' = 0 => errors = 0
    BY <1>1, <1>2
  <2>3. result' = 0 => executed' = UNION {TestsOf(s) : s \in registeredSuites}'
    BY <1>1, <1>2, <2>1, <2>2
  <2> QED
    BY <1>1, <2>2, <2>3 DEF LastRun
<1> QED
  BY <1>1, <1>3, <1>4, OutsideStep

LEMMA ExitStep ==
  ASSUME Inv, Exit
  PROVE  Inv' /\ UNCHANGED Defined!vars
<1>1. /\ phase = "main" /\ phase' = "exit"
      /\ UNCHANGED <<alive, written, current, step, toAdd, suite, handle, registeredSuites, errors>>
      /\ UNCHANGED <<result, executed, dropped>>
  BY DEF Exit, definitionVars, runVars
<1>2. step = "none" /\ current = "none"
  BY <1>1 DEF Inv, Initializing
<1>3. TypeOK' /\ Initializing' /\ RegistryFirst'
  BY <1>1, <1>2 DEF Inv, TypeOK, Initializing, RegistryFirst, RegistryOutlivesHandles
<1>4. LastRun'
  BY <1>1 DEF Inv, LastRun, TestsOf
<1> QED
  BY <1>1, <1>3, <1>4, OutsideStep

LEMMA StutterStep ==
  ASSUME Inv, UNCHANGED vars
  PROVE  Inv' /\ UNCHANGED Defined!vars
<1>1. UNCHANGED <<phase, alive, written, current, step, toAdd, suite, handle, registeredSuites, errors>>
      /\ UNCHANGED <<result, executed, dropped>>
  BY DEF vars
<1>2. TypeOK' /\ Initializing' /\ RegistryFirst'
  BY <1>1 DEF Inv, TypeOK, Initializing, RegistryFirst, RegistryOutlivesHandles
<1>3. LastRun'
  BY <1>1 DEF Inv, LastRun, TestsOf
<1> QED
  BY <1>1, <1>2, <1>3, OutsideStep

LEMMA MoveStep ==
  ASSUME Inv, NEW a \in Variables, NEW b \in Variables, Move(a, b)
  PROVE  Inv' /\ [Defined!Next]_Defined!vars
<1>1. /\ phase = "main" /\ a # b /\ handle[b] # "none" /\ result' = -1
      /\ handle' = [handle EXCEPT ![a] = handle[b], ![b] = "none"]
      /\ registeredSuites' = registeredSuites \ Released(handle[a])
      /\ dropped' = dropped \cup Released(handle[a])
      /\ UNCHANGED <<phase, alive, written, current, step, toAdd, suite, errors>>
  BY DEF Move, definitionVars
<1>2. step = "none" /\ current = "none"
  BY <1>1 DEF Inv, Initializing
<1>3. /\ handle \in [Variables -> Variable \cup {"none"}] /\ registeredSuites \subseteq Variable
      /\ dropped \subseteq Variable
      /\ \A x \in Variables : handle[x] # "none" => handle[x] \in registeredSuites
      /\ \A x, y \in Variables : handle[x] # "none" /\ handle[x] = handle[y] => x = y
  BY DEF Inv, TypeOK, Registered, Variables
<1>4. /\ handle' \in [Variables -> Variable \cup {"none"}]
      /\ \A x \in Variables : handle'[x] = IF x = b THEN "none" ELSE IF x = a THEN handle[b] ELSE handle[x]
  BY <1>1, <1>3
<1>5. \A s \in Variable \cup {"none"} : Released(s) \subseteq Variable
  BY DEF Released
<1>6. TypeOK'
  <2>1. registeredSuites' \subseteq Variable /\ dropped' \subseteq Variable
    BY <1>1, <1>3, <1>5
  <2> QED
    BY <1>1, <1>4, <2>1 DEF Inv, TypeOK, Variables
<1>7. Initializing' /\ RegistryFirst'
  BY <1>1 DEF Inv, Initializing, RegistryFirst, RegistryOutlivesHandles
<1>8. \A x \in Variables : handle'[x] # "none" => handle'[x] \in registeredSuites \ {handle[a]}
  BY <1>1, <1>3, <1>4
<1>9. \A x, y \in Variables : handle'[x] # "none" /\ handle'[x] = handle'[y] => x = y
  BY <1>3, <1>4
<1>10. handle[a] = "none" \/ handle[a] \in registeredSuites
  BY <1>3
<1> QED
  BY <1>1, <1>2, <1>6, <1>7, <1>8, <1>9, <1>10, DropStep

LEMMA DestroyStep ==
  ASSUME Inv, DestroyStatic
  PROVE  Inv' /\ [Defined!Next]_Defined!vars
<1> DEFINE last == Last(alive)
           s == IF last = "registry" THEN "none" ELSE handle[last]
           n == Len(alive)
           T == Variable \cup Holder \cup {"registry"}
<1>1. /\ phase = "exit" /\ alive # <<>> /\ result' = -1
      /\ UNCHANGED <<written, current, step, toAdd, suite, errors>>
  BY DEF DestroyStatic, definitionVars
<1>2. step = "none" /\ current = "none"
  BY <1>1 DEF Inv, Initializing
<1>3. /\ handle \in [Variables -> Variable \cup {"none"}] /\ registeredSuites \subseteq Variable
      /\ dropped \subseteq Variable /\ alive \in Seq(T)
      /\ \A x \in Variables : handle[x] # "none" => handle[x] \in registeredSuites
      /\ \A x, y \in Variables : handle[x] # "none" /\ handle[x] = handle[y] => x = y
      /\ \A i \in DOMAIN alive : alive[i] \in Variable => \E j \in 1..(i - 1) : alive[j] = "registry"
  BY <1>1 DEF Inv, TypeOK, Registered, Variables, RegistryFirst, RegistryOutlivesHandles
<1>4. n \in Nat /\ n # 0 /\ DOMAIN alive = 1..n /\ n \in 1..n /\ last = alive[n] /\ last \in T
  <2>1. n \in Nat /\ n # 0 /\ DOMAIN alive = 1..n
    BY <1>1, <1>3
  <2> QED
    BY <1>3, <2>1 DEF Last
<1>5. last = "registry" \/ last \in Variables
  BY <1>4 DEF Variables
<1>6. s = "none" \/ (last \in Variables /\ s = handle[last] /\ s \in registeredSuites)
  BY <1>3, <1>5
<1>7. CASE s # "none" /\ ~Contains(alive, "registry")
  <2>1. phase' = "undefined" /\ UNCHANGED <<alive, handle, registeredSuites, dropped>>
    BY <1>7 DEF DestroyStatic
  <2>2. last \in Holder
    <3>1. last \notin Variable
      <4> SUFFICES ASSUME last \in Variable PROVE FALSE
        OBVIOUS
      <4>1. PICK j \in 1..(n - 1) : alive[j] = "registry"
        BY <1>3, <1>4
      <4>2. j \in 1..Len(alive)
        BY <1>4
      <4> QED
        BY <1>7, <4>1, <4>2 DEF Contains
    <3> QED
      BY <1>6, <1>7, <3>1 DEF Variables
  <2>3. TypeOK'
    BY <1>1, <2>1 DEF Inv, TypeOK
  <2>4. Initializing' /\ RegistryFirst'
    BY <1>1, <1>2, <2>1, <2>2 DEF Inv, Initializing, RegistryFirst, RegistryOutlivesHandles
  <2>5. /\ registeredSuites' = registeredSuites \ Released("none")
        /\ dropped' = dropped \cup Released("none")
    BY <2>1 DEF Released
  <2>6. /\ \A x \in Variables : handle'[x] # "none" => handle'[x] \in registeredSuites \ {"none"}
        /\ \A x, y \in Variables : handle'[x] # "none" /\ handle'[x] = handle'[y] => x = y
    BY <1>3, <2>1
  <2> QED
    BY <1>1, <1>2, <2>3, <2>4, <2>5, <2>6, DropStep
<1>8. CASE ~(s # "none" /\ ~Contains(alive, "registry"))
  <2>1. /\ alive' = Front(alive) /\ phase' = phase
        /\ handle' = IF s = "none" THEN handle ELSE [handle EXCEPT ![last] = "none"]
        /\ registeredSuites' = registeredSuites \ Released(s)
        /\ dropped' = dropped \cup Released(s)
    BY <1>8 DEF DestroyStatic
  <2>2. /\ alive' \in Seq(T) /\ DOMAIN alive' = 1..(n - 1)
        /\ \A i \in 1..(n - 1) : alive'[i] = alive[i]
    <3>1. alive' = SubSeq(alive, 1, n - 1)
      BY <2>1 DEF Front
    <3>2. \A i \in 1..(n - 1) : alive[i] \in T
      BY <1>3, <1>4
    <3> HIDE DEF n, T
    <3>3. 1 \in Int /\ n - 1 \in Int /\ n - 1 - 1 + 1 = n - 1
          /\ (IF 1 <= n - 1 THEN n - 1 - 1 + 1 ELSE 0) = n - 1
      BY <1>4
    <3>4. /\ alive' \in Seq(T) /\ Len(alive') = n - 1
          /\ \A i \in 1..(n - 1) : alive'[i] = alive[1 + i - 1]
      BY <3>1, <3>2, <3>3, SubSeqProperties
    <3>5. \A i \in 1..(n - 1) : 1 + i - 1 = i
      BY <1>4
    <3>6. DOMAIN alive' = 1..Len(alive')
      BY <3>4
    <3> QED
      BY <3>4, <3>5, <3>6
  <2> HIDE DEF s, last, n, T
  <2>3. /\ handle' \in [Variables -> Variable \cup {"none"}]
        /\ \A x \in Variables : handle'[x] = IF s # "none" /\ x = last THEN "none" ELSE handle[x]
    BY <1>3, <1>6, <2>1
  <2>4. \A w \in Variable \cup {"none"} : Released(w) \subseteq Variable
    BY DEF Released
  <2>5. TypeOK'
    <3>1. s \in Variable \cup {"none"}
      BY <1>3, <1>6
    <3>2. registeredSuites' \subseteq Variable /\ dropped' \subseteq Variable
      BY <1>3, <2>1, <2>4, <3>1
    <3> QED
      BY <1>1, <2>1, <2>2, <2>3, <3>2 DEF Inv, TypeOK, Variables, T
  <2>6. Initializing'
    BY <1>1, <1>2 DEF Initializing
  <2>7. RegistryFirst'
    <3>1. \A i \in 1..(n - 1) : alive'[i] \in Variable => \E j \in 1..(i - 1) : alive'[j] = "registry"
      <4> SUFFICES ASSUME NEW i \in 1..(n - 1), alive'[i] \in Variable
                   PROVE  \E j \in 1..(i - 1) : alive'[j] = "registry"
        OBVIOUS
      <4>1. i \in 1..n
        BY <1>4
      <4>2. PICK j \in 1..(i - 1) : alive[j] = "registry"
        BY <1>3, <1>4, <2>2, <4>1
      <4>3. j \in 1..(n - 1)
        BY <1>4
      <4> QED
        BY <2>2, <4>2, <4>3
    <3> QED
      BY <1>1, <1>2, <2>1, <2>2, <3>1 DEF RegistryFirst, RegistryOutlivesHandles
  <2>8. \A x \in Variables : handle'[x] # "none" => handle'[x] \in registeredSuites \ {s}
    BY <1>3, <1>6, <2>3
  <2>9. \A x, y \in Variables : handle'[x] # "none" /\ handle'[x] = handle'[y] => x = y
    BY <1>3, <2>3
  <2> QED
    BY <1>1, <1>2, <1>6, <2>1, <2>5, <2>6, <2>7, <2>8, <2>9, DropStep
<1> QED
  BY <1>7, <1>8

LEMMA InvNext == Inv /\ [Next]_vars => Inv' /\ [Defined!Next]_Defined!vars
<1> SUFFICES ASSUME Inv, [Next]_vars PROVE Inv' /\ [Defined!Next]_Defined!vars
  OBVIOUS
<1>1. ASSUME NEW v \in Variable, NEW d \in Catalog, Begin(v, d)
      PROVE  Inv' /\ [Defined!Next]_Defined!vars
  BY <1>1, BeginStep
<1>2. CASE Materialize
  BY <1>2, MaterializeStep
<1>3. CASE ConstructFixture
  BY <1>3, ConstructFixtureStep
<1>4. CASE ConstructSuite
  BY <1>4, ConstructSuiteStep
<1>5. CASE AddTest
  BY <1>5, AddTestStep
<1>6. CASE Assembled
  BY <1>6, AssembledStep
<1>7. CASE RegisterSuite
  BY <1>7, RegisterStep
<1>8. CASE Refuse
  BY <1>8, RefuseStep
<1>9. CASE Complete
  BY <1>9, CompleteStep
<1>10. ASSUME NEW h \in Holder, ConstructHolder(h)
       PROVE  Inv' /\ [Defined!Next]_Defined!vars
  BY <1>10, ConstructHolderStep
<1>11. ASSUME NEW a \in Variable \cup Holder, NEW b \in Variable \cup Holder, Move(a, b)
       PROVE  Inv' /\ [Defined!Next]_Defined!vars
  BY <1>11, MoveStep DEF Variables
<1>12. CASE EnterMain
  BY <1>12, EnterMainStep
<1>13. CASE Run
  BY <1>13, RunStep
<1>14. CASE Exit
  BY <1>14, ExitStep
<1>15. CASE DestroyStatic
  BY <1>15, DestroyStep
<1>16. CASE UNCHANGED vars
  BY <1>16, StutterStep
<1> QED
  BY <1>1, <1>2, <1>3, <1>4, <1>5, <1>6, <1>7, <1>8, <1>9, <1>10, <1>11, <1>12, <1>13, <1>14,
     <1>15, <1>16 DEF Next

LEMMA Invariant == Spec => []Inv
<1>1. Init => Inv
  BY InvInit
<1>2. Inv /\ [Next]_vars => Inv'
  BY InvNext
<1> QED
  BY <1>1, <1>2, PTL DEF Spec

-----------------------------------------------------------------------------
(* The theorems.                                                           *)

(* Every variable of a program stays in its range.                         *)
THEOREM TypeCorrect == Spec => []TypeOK
<1>1. Inv => TypeOK
  BY DEF Inv
<1> QED
  BY <1>1, Invariant, PTL

(* Whatever suites are defined and moved, and however a definition fails:  *)
(* no variable that Suite(...) initialized is destroyed after the          *)
(* registry.                                                               *)
THEOREM RegistryOutlives == Spec => []RegistryOutlivesHandles
<1>1. Inv => RegistryOutlivesHandles
  BY DEF Inv, RegistryFirst
<1> QED
  BY <1>1, Invariant, PTL

(* Every definition takes effect at once: the program implements           *)
(* DefinedSuites, where a suite is there with all its tests, or is not     *)
(* there and counted as an error.                                          *)
THEOREM DefinitionsAreAtomic == Spec => DefinedAtOnce
<1>1. Init => Inv /\ Defined!Init
  BY InvInit
<1>2. Inv /\ [Next]_vars => Inv' /\ [Defined!Next]_Defined!vars
  BY InvNext
<1> QED
  BY <1>1, <1>2, PTL DEF Spec, DefinedAtOnce, Defined!Spec

(* A run that is not rejected executes every test that was written, of     *)
(* every suite that was not dropped, and nothing else.                     *)
THEOREM NothingIsLost == Spec => []NothingLostSilently
<1>1. Inv => NothingLostSilently
  <2> SUFFICES ASSUME Inv, result = 0 PROVE NothingLostSilently
    BY DEF NothingLostSilently
  <2> DEFINE kept == {v \in Variable : written[v] # <<>>} \ dropped
             meant(v) == {[suite |-> written[v].name, test |-> test] :
                             test \in Defined!Complete(written[v]).tests}
  <2>1. /\ phase \in {"main", "exit"} /\ errors = 0
        /\ executed = UNION {TestsOf(s) : s \in registeredSuites}
    BY DEF Inv, LastRun
  <2>2. current = "none"
    BY <2>1 DEF Inv, Initializing
  <2>3. kept = registeredSuites
    <3>1. Effective = {v \in Variable : written[v] # <<>>}
      BY <2>2, Names DEF Effective
    <3> QED
      BY <2>1, <3>1 DEF Inv, Accounted, Registered
  <2>4. \A v \in registeredSuites : TestsOf(v) = meant(v)
    <3> SUFFICES ASSUME NEW v \in registeredSuites PROVE TestsOf(v) = meant(v)
      OBVIOUS
    <3>1. [name |-> suite[v].name, tests |-> ToSet(suite[v].tests)] = Defined!Complete(written[v])
      BY DEF Inv, Registered, Abstract
    <3>2. /\ suite[v].name = written[v].name
          /\ Defined!Complete(written[v]).tests = {suite[v].tests[i] : i \in DOMAIN suite[v].tests}
      BY <3>1 DEF ToSet, Defined!Complete
    <3> QED
      BY <3>2 DEF TestsOf
  <2>5. UNION {TestsOf(s) : s \in registeredSuites} = UNION {meant(v) : v \in kept}
    <3> HIDE DEF kept, meant
    <3> QED
      BY <2>3, <2>4
  <2> QED
    BY <2>1, <2>5 DEF NothingLostSilently
<1> QED
  BY <1>1, Invariant, PTL
=============================================================================
