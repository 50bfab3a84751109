------------------------ MODULE DefaultReportsProofs ------------------------
(***************************************************************************)
(* Proofs about the two default handlers, for every number of tests,       *)
(* suites and paths: what the JUnit reporter holds and writes follows the  *)
(* run, a report that is lost is an error, and report and console agree.   *)
(* The text in the file is well-formed and complete for every input.       *)
(*                                                                         *)
(* The counts of the report are sums over its suites, so the first part is *)
(* about SumFunctionOnSet: it adds the values of a function in any order.  *)
(* The last part is about escapeXml: the digits of a code point, decodeUtf8*)
(* and the table of the standard, and the pieces the loop writes.          *)
(***************************************************************************)
EXTENDS DefaultReports, XmlText, FiniteSetTheorems, SequenceTheorems,
        WellFoundedInduction, TLAPS

-----------------------------------------------------------------------------
(* The tally of an outcome, before any result and after one more.          *)

LEMMA CountedFinite ==
    ASSUME IsFiniteSet(Test), NEW o, NEW c
    PROVE  /\ IsFiniteSet(Counted(o, c))
           /\ Cardinality(Counted(o, c)) \in Nat
<1>1. Counted(o, c) \in SUBSET Test
  BY DEF Counted
<1>2. IsFiniteSet(Counted(o, c))
  BY <1>1, FS_Subset
<1>3. QED
  BY <1>2, FS_CardinalityType

(* The counter of a result is one of the three. *)
LEMMA CounterOfType == \A s : CounterOf(s) \in Counter
  BY DEF CounterOf, Counter

(* A tally has three natural numbers. *)
LEMMA TallyType ==
    ASSUME IsFiniteSet(Test), NEW o
    PROVE  Tally(o) \in [Counter -> Nat]
  BY CountedFinite DEF Tally

(* Before any result every counter is zero. *)
LEMMA TallyNothing == Tally(NothingRun) = NoResults
<1>1. \A c \in Counter : Counted(NothingRun, c) = {}
  BY DEF Counted, NothingRun
<1>2. QED
  BY <1>1, FS_EmptySet DEF Tally, NoResults

(* The result of a test that had none adds one to its counter.              *)
LEMMA TallyReport ==
    ASSUME IsFiniteSet(Test), NEW o \in [Test -> Outcome],
           NEW t \in Test, o[t] = "NotRun", NEW s \in Verdict
    PROVE  Tally([o EXCEPT ![t] = s])
             = [Tally(o) EXCEPT ![CounterOf(s)] = @ + 1]
<1> DEFINE p == [o EXCEPT ![t] = s]
<1>1. s # "NotRun"
  BY DEF Verdict
<1>2. Counted(p, CounterOf(s)) = Counted(o, CounterOf(s)) \cup {t}
  BY <1>1 DEF Counted
<1>3. \A c \in Counter : c # CounterOf(s) => Counted(p, c) = Counted(o, c)
  BY <1>1 DEF Counted
<1>4. t \notin Counted(o, CounterOf(s))
  BY DEF Counted
<1>5. Cardinality(Counted(p, CounterOf(s)))
        = Cardinality(Counted(o, CounterOf(s))) + 1
  BY <1>2, <1>4, CountedFinite, FS_AddElement
<1>6. \A c \in Counter :
         Tally(p)[c] = [Tally(o) EXCEPT ![CounterOf(s)] = @ + 1][c]
  BY <1>3, <1>5, CounterOfType DEF Tally
<1>7. DOMAIN Tally(p) = Counter /\ DOMAIN Tally(o) = Counter
  BY DEF Tally
<1> HIDE DEF p
<1>8. Tally(p) = [Tally(o) EXCEPT ![CounterOf(s)] = @ + 1]
  BY <1>6, <1>7 DEF Tally
<1>9. QED
  BY <1>8 DEF p

-----------------------------------------------------------------------------

(* A set of natural numbers has a least element.                           *)
LEMMA LeastElement ==
  ASSUME NEW S, S \subseteq Nat, S # {}
  PROVE  \E n \in S : \A m \in S : n <= m
<1>1. PICK n \in S : \A m \in S : <<m, n>> \notin OpToRel(<, Nat)
  BY NatLessThanWellFounded, WFMin, Zenon
<1>2. \A m \in S : ~(m < n)
  BY <1>1, Zenon DEF OpToRel
<1> QED
  BY <1>2

-----------------------------------------------------------------------------
(* Sums. *)

AnyOf(s) == CHOOSE x \in s : TRUE
AddedUp(f, g, s) == IF s = {} THEN 0 ELSE f[AnyOf(s)] + g[s \ {AnyOf(s)}]

(* g maps each subset of S to the sum of f over it.                        *)
Sums(f, g, S) == g = [s \in SUBSET S |-> AddedUp(f, g, s)]

LEMMA OneLess ==
  ASSUME NEW s, IsFiniteSet(s), NEW x \in s
  PROVE  /\ IsFiniteSet(s \ {x}) /\ Cardinality(s) \in Nat /\ Cardinality(s) > 0
         /\ Cardinality(s \ {x}) = Cardinality(s) - 1
<1>1. Cardinality(s) \in Nat /\ Cardinality(s) # 0
  BY FS_CardinalityType, FS_EmptySet
<1>2. IsFiniteSet(s \ {x}) /\ Cardinality(s \ {x}) = Cardinality(s) - 1
  BY FS_RemoveElement
<1> QED
  BY <1>1, <1>2

(* The recursion has a solution over every finite set.                     *)
LEMMA SumsExist ==
  ASSUME NEW f, NEW S, IsFiniteSet(S)
  PROVE  \E g : Sums(f, g, S)
<1> DEFINE Small(n) == {s \in SUBSET S : Cardinality(s) <= n}
           Solves(g, n) == g = [s \in Small(n) |-> AddedUp(f, g, s)]
           Bad == {n \in Nat : ~\E g : Solves(g, n)}
<1>0. \A s \in SUBSET S : IsFiniteSet(s) /\ Cardinality(s) \in Nat
  BY FS_Subset, FS_CardinalityType
<1>1. Bad = {}
  <2> SUFFICES ASSUME Bad # {} PROVE FALSE
    OBVIOUS
  <2>1. PICK n \in Bad : \A m \in Bad : n <= m
    <3>1. Bad \subseteq Nat
      OBVIOUS
    <3> HIDE DEF Bad
    <3> QED
      BY <3>1, LeastElement
  <2>2. n \in Nat
    BY <2>1
  <2>3. n # 0
    <3>1. \A s \in Small(0) : s = {}
      <4> SUFFICES ASSUME NEW s \in SUBSET S, Cardinality(s) <= 0 PROVE s = {}
        OBVIOUS
      <4>1. Cardinality(s) = 0
        BY <1>0
      <4> QED
        BY <1>0, <4>1, FS_EmptySet
    <3>2. Solves([s \in Small(0) |-> 0], 0)
      BY <3>1 DEF AddedUp
    <3> QED
      BY <2>1, <3>2
  <2>4. n - 1 \in Nat /\ n - 1 \notin Bad
    <3> HIDE DEF Bad
    <3> QED
      BY <2>1, <2>2, <2>3
  <2>5. PICK g : Solves(g, n - 1)
    BY <2>4
  <2> DEFINE h == [s \in Small(n) |-> AddedUp(f, g, s)]
  <2>6. ASSUME NEW s \in Small(n) PROVE h[s] = AddedUp(f, h, s)
    <3>1. CASE s = {}
      BY <3>1 DEF AddedUp
    <3>2. CASE s # {}
      <4> DEFINE r == s \ {AnyOf(s)}
      <4>1. AnyOf(s) \in s
        BY <3>2 DEF AnyOf
      <4>2. Cardinality(r) = Cardinality(s) - 1 /\ Cardinality(s) \in Nat
        BY <1>0, <4>1, OneLess
      <4>3. r \in Small(n) /\ r \in Small(n - 1)
        BY <2>2, <4>2
      <4>4. h[r] = AddedUp(f, g, r) /\ g[r] = AddedUp(f, g, r)
        <5> HIDE DEF r
        <5>1. h[r] = AddedUp(f, g, r)
          BY <4>3
        <5>2. g[r] = AddedUp(f, g, r)
          BY <2>5, <4>3
        <5> QED
          BY <5>1, <5>2
      <4> QED
        BY <3>2, <4>4 DEF AddedUp
    <3> QED
      BY <3>1, <3>2
  <2>7. Solves(h, n)
    <3>1. h = [s \in Small(n) |-> h[s]]
      OBVIOUS
    <3> HIDE DEF h
    <3> QED
      BY <2>6, <3>1
  <2> QED
    BY <2>1, <2>7
<1>2. Cardinality(S) \in Nat /\ Cardinality(S) \notin Bad
  BY <1>0, <1>1
<1>3. Small(Cardinality(S)) = SUBSET S
  <2>1. \A s \in SUBSET S : Cardinality(s) <= Cardinality(S)
    BY FS_Subset
  <2> QED
    BY <2>1
<1>4. PICK g : Solves(g, Cardinality(S))
  BY <1>2
<1> QED
  BY <1>3, <1>4 DEF Sums

LEMMA SumIsOne ==
  ASSUME NEW f, NEW S, IsFiniteSet(S)
  PROVE  \E g : Sums(f, g, S) /\ SumFunctionOnSet(f, S) = g[S]
<1> DEFINE G == CHOOSE g : Sums(f, g, S)
<1>1. Sums(f, G, S)
  <2>1. \E g : Sums(f, g, S)
    BY SumsExist
  <2> QED
    BY <2>1
<1>2. SumFunctionOnSet(f, S) = G[S]
  BY DEF SumFunctionOnSet, FoldFunctionOnSet, MapThenFoldSet, Sums, AddedUp, AnyOf
<1> QED
  BY <1>1, <1>2

(* Any element may be added last.                                          *)
LEMMA SumInAnyOrder ==
  ASSUME NEW f, NEW g, NEW S, IsFiniteSet(S), Sums(f, g, S),
         \A x \in S : f[x] \in Int
  PROVE  g[S] \in Int /\ \A x \in S : g[S] = f[x] + g[S \ {x}]
<1> DEFINE Fine(T) == g[T] \in Int /\ \A x \in T : g[T] = f[x] + g[T \ {x}]
           Bad == {n \in Nat : \E T \in SUBSET S : Cardinality(T) = n /\ ~Fine(T)}
<1>0. \A T \in SUBSET S : IsFiniteSet(T) /\ Cardinality(T) \in Nat
  BY FS_Subset, FS_CardinalityType
<1>1. \A T \in SUBSET S : g[T] = AddedUp(f, g, T)
  BY Zenon DEF Sums
<1>2. g[{}] = 0
  BY <1>1 DEF AddedUp
<1>3. ASSUME NEW T \in SUBSET S, \A R \in SUBSET S : Cardinality(R) < Cardinality(T) => Fine(R)
      PROVE  Fine(T)
  <2>1. CASE T = {}
    BY <1>2, <2>1
  <2>2. CASE T # {}
    <3> DEFINE c == AnyOf(T)
    <3>1. c \in T
      BY <2>2 DEF AnyOf
    <3>2. g[T] = f[c] + g[T \ {c}]
      BY <1>1, <2>2 DEF AddedUp
    <3> HIDE DEF c
    <3>3. \A x \in T : Fine(T \ {x})
      <4> SUFFICES ASSUME NEW x \in T PROVE Fine(T \ {x})
        OBVIOUS
      <4>1. Cardinality(T \ {x}) = Cardinality(T) - 1 /\ Cardinality(T) \in Nat
        BY <1>0, OneLess
      <4>2. Cardinality(T \ {x}) < Cardinality(T)
        BY <4>1
      <4> HIDE DEF Fine
      <4> QED
        BY <1>3, <4>2
    <3>4. f[c] \in Int /\ g[T \ {c}] \in Int
      BY <3>1, <3>3
    <3>5. g[T] \in Int
      BY <3>2, <3>4
    <3>6. ASSUME NEW x \in T PROVE g[T] = f[x] + g[T \ {x}]
      <4>1. CASE x = c
        BY <3>2, <4>1
      <4>2. CASE x # c
        <5>1. g[T \ {c}] = f[x] + g[(T \ {c}) \ {x}]
          BY <3>3, <3>1, <4>2
        <5>2. g[T \ {x}] = f[c] + g[(T \ {x}) \ {c}]
          BY <3>3, <3>1, <4>2
        <5>3. (T \ {c}) \ {x} = (T \ {x}) \ {c}
          OBVIOUS
        <5>4. f[x] \in Int /\ g[T \ {x}] \in Int
          BY <3>3
        <5> DEFINE rest == g[(T \ {x}) \ {c}]
        <5>5. rest \in Int
          <6>1. (T \ {x}) \ {c} \in SUBSET S /\ Cardinality((T \ {x}) \ {c}) < Cardinality(T)
            <7>1. /\ Cardinality(T \ {x}) = Cardinality(T) - 1 /\ Cardinality(T) \in Nat
                  /\ IsFiniteSet(T \ {x})
              BY <1>0, OneLess
            <7>2. Cardinality((T \ {x}) \ {c}) = Cardinality(T \ {x}) - 1
              BY <3>1, <4>2, <7>1, OneLess
            <7> QED
              BY <7>1, <7>2
          <6> QED
            BY <1>3, <6>1
        <5> HIDE DEF rest
        <5>6. g[T] = f[c] + (f[x] + rest) /\ g[T \ {x}] = f[c] + rest
          BY <3>2, <5>1, <5>2, <5>3 DEF rest
        <5> QED
          BY <3>4, <5>4, <5>5, <5>6
      <4> QED
        BY <4>1, <4>2
    <3> QED
      BY <3>5, <3>6
  <2> QED
    BY <2>1, <2>2
<1>4. Bad = {}
  <2> SUFFICES ASSUME Bad # {} PROVE FALSE
    OBVIOUS
  <2>1. PICK n \in Bad : \A m \in Bad : n <= m
    <3>1. Bad \subseteq Nat
      OBVIOUS
    <3> HIDE DEF Bad
    <3> QED
      BY <3>1, LeastElement
  <2> HIDE DEF Fine
  <2>2. PICK T \in SUBSET S : Cardinality(T) = n /\ ~Fine(T)
    BY <2>1
  <2>3. ASSUME NEW R \in SUBSET S, Cardinality(R) < Cardinality(T) PROVE Fine(R)
    <3>1. Cardinality(R) \in Nat /\ n \in Nat /\ ~(n <= Cardinality(R))
      BY <1>0, <2>2, <2>3
    <3>2. Cardinality(R) \notin Bad
      <4> HIDE DEF Bad
      <4> QED
        BY <2>1, <3>1
    <3> QED
      BY <3>1, <3>2
  <2> QED
    BY <1>3, <2>2, <2>3
<1> HIDE DEF Fine
<1>5. Fine(S)
  BY <1>0, <1>4
<1> QED
  BY <1>5 DEF Fine

(* A sum is over values, whatever else the functions are defined for.      *)
LEMMA SumsAgree ==
  ASSUME NEW f, NEW g, NEW S, Sums(f, g, S), NEW e, NEW h, NEW R, Sums(e, h, R),
         NEW T, IsFiniteSet(T), T \subseteq S, T \subseteq R, \A x \in T : f[x] = e[x]
  PROVE  g[T] = h[T]
<1> DEFINE Bad == {n \in Nat : \E U \in SUBSET T : Cardinality(U) = n /\ g[U] # h[U]}
<1>0. \A U \in SUBSET T : IsFiniteSet(U) /\ Cardinality(U) \in Nat
  BY FS_Subset, FS_CardinalityType
<1>1. \A U \in SUBSET T : g[U] = AddedUp(f, g, U) /\ h[U] = AddedUp(e, h, U)
  <2>1. \A U \in SUBSET S : g[U] = AddedUp(f, g, U)
    BY Zenon DEF Sums
  <2>2. \A U \in SUBSET R : h[U] = AddedUp(e, h, U)
    BY Zenon DEF Sums
  <2>3. SUBSET T \subseteq SUBSET S /\ SUBSET T \subseteq SUBSET R
    OBVIOUS
  <2> QED
    BY <2>1, <2>2, <2>3
<1>2. Bad = {}
  <2> SUFFICES ASSUME Bad # {} PROVE FALSE
    OBVIOUS
  <2>1. PICK n \in Bad : \A m \in Bad : n <= m
    <3>1. Bad \subseteq Nat
      OBVIOUS
    <3> HIDE DEF Bad
    <3> QED
      BY <3>1, LeastElement
  <2>2. PICK U \in SUBSET T : Cardinality(U) = n /\ g[U] # h[U]
    BY <2>1
  <2>3. U # {}
    BY <1>1, <2>2 DEF AddedUp
  <2> DEFINE V == U \ {AnyOf(U)}
  <2>4. AnyOf(U) \in U
    BY <2>3 DEF AnyOf
  <2>5. g[V] # h[V]
    <3>1. f[AnyOf(U)] = e[AnyOf(U)]
      BY <2>4
    <3>2. g[U] = f[AnyOf(U)] + g[V] /\ h[U] = e[AnyOf(U)] + h[V]
      BY <1>1, <2>3 DEF AddedUp
    <3> HIDE DEF V
    <3> QED
      BY <2>2, <3>1, <3>2
  <2>6. V \in SUBSET T /\ Cardinality(V) = n - 1 /\ n - 1 \in Nat
    <3>1. IsFiniteSet(U)
      BY <1>0
    <3>2. Cardinality(U) \in Nat /\ Cardinality(U) > 0 /\ Cardinality(V) = Cardinality(U) - 1
      BY <2>4, <3>1, OneLess
    <3> QED
      BY <2>2, <3>2
  <2>7. n - 1 \in Bad
    <3> HIDE DEF V
    <3> QED
      BY <2>5, <2>6
  <2>8. n \in Nat /\ ~(n <= n - 1)
    BY <2>1
  <2> HIDE DEF Bad
  <2> QED
    BY <2>1, <2>7, <2>8
<1> QED
  BY <1>0, <1>2

LEMMA SumOfNothing == \A f : SumFunctionOnSet(f, {}) = 0
<1> SUFFICES ASSUME NEW f PROVE SumFunctionOnSet(f, {}) = 0
  OBVIOUS
<1>1. PICK g : Sums(f, g, {}) /\ SumFunctionOnSet(f, {}) = g[{}]
  <2>1. IsFiniteSet({})
    BY FS_EmptySet
  <2> QED
    BY <2>1, SumIsOne
<1> QED
  BY <1>1 DEF Sums, AddedUp

LEMMA SumType ==
  ASSUME NEW f, NEW S, IsFiniteSet(S), \A x \in S : f[x] \in Int
  PROVE  SumFunctionOnSet(f, S) \in Int
<1>1. PICK g : Sums(f, g, S) /\ SumFunctionOnSet(f, S) = g[S]
  BY SumIsOne
<1>2. g[S] \in Int
  BY <1>1, SumInAnyOrder
<1> QED
  BY <1>1, <1>2

LEMMA SumOfSame ==
  ASSUME NEW f, NEW e, NEW S, IsFiniteSet(S), \A x \in S : f[x] = e[x]
  PROVE  SumFunctionOnSet(f, S) = SumFunctionOnSet(e, S)
<1>1. PICK g : Sums(f, g, S) /\ SumFunctionOnSet(f, S) = g[S]
  BY SumIsOne
<1>2. PICK h : Sums(e, h, S) /\ SumFunctionOnSet(e, S) = h[S]
  BY SumIsOne
<1>3. g[S] = h[S]
  BY <1>1, <1>2, SumsAgree
<1> QED
  BY <1>1, <1>2, <1>3

(* One value is taken out of a sum.                                        *)
LEMMA SumSplits ==
  ASSUME NEW f, NEW S, IsFiniteSet(S), \A y \in S : f[y] \in Int, NEW x \in S
  PROVE  /\ SumFunctionOnSet(f, S \ {x}) \in Int
         /\ SumFunctionOnSet(f, S) = f[x] + SumFunctionOnSet(f, S \ {x})
<1>1. PICK g : Sums(f, g, S) /\ SumFunctionOnSet(f, S) = g[S]
  BY SumIsOne
<1>2. IsFiniteSet(S \ {x})
  BY FS_RemoveElement
<1>3. PICK h : Sums(f, h, S \ {x}) /\ SumFunctionOnSet(f, S \ {x}) = h[S \ {x}]
  BY <1>2, SumIsOne
<1>4. g[S \ {x}] = h[S \ {x}]
  <2>1. S \ {x} \subseteq S
    OBVIOUS
  <2> QED
    BY <1>1, <1>2, <1>3, <2>1, SumsAgree
<1>5. g[S] = f[x] + g[S \ {x}]
  BY <1>1, SumInAnyOrder
<1>6. SumFunctionOnSet(f, S \ {x}) \in Int
  BY <1>2, SumType
<1> QED
  BY <1>1, <1>3, <1>4, <1>5, <1>6

(* One value of a sum changes.                                             *)
LEMMA SumChanges ==
  ASSUME NEW f, NEW e, NEW S, IsFiniteSet(S), NEW x \in S,
         \A y \in S : f[y] \in Int /\ e[y] \in Int,
         \A y \in S \ {x} : e[y] = f[y]
  PROVE  SumFunctionOnSet(e, S) = SumFunctionOnSet(f, S) - f[x] + e[x]
<1>0. (\A y \in S : f[y] \in Int) /\ (\A y \in S : e[y] \in Int)
  OBVIOUS
<1>1. SumFunctionOnSet(f, S \ {x}) \in Int
      /\ SumFunctionOnSet(f, S) = f[x] + SumFunctionOnSet(f, S \ {x})
  BY <1>0, SumSplits
<1>2. SumFunctionOnSet(e, S) = e[x] + SumFunctionOnSet(e, S \ {x})
  BY <1>0, SumSplits
<1>3. SumFunctionOnSet(e, S \ {x}) = SumFunctionOnSet(f, S \ {x})
  <2>1. IsFiniteSet(S \ {x})
    BY FS_RemoveElement
  <2> QED
    BY <2>1, SumOfSame
<1>4. f[x] \in Int /\ e[x] \in Int
  OBVIOUS
<1> QED
  BY <1>1, <1>2, <1>3, <1>4

LEMMA SumNat ==
  ASSUME NEW f, NEW S, IsFiniteSet(S), \A x \in S : f[x] \in Nat
  PROVE  SumFunctionOnSet(f, S) \in Nat
<1> DEFINE Negative(T) == ~(SumFunctionOnSet(f, T) \in Nat)
           Bad == {n \in Nat : \E T \in SUBSET S : Cardinality(T) = n /\ Negative(T)}
<1>0. \A T \in SUBSET S : IsFiniteSet(T) /\ Cardinality(T) \in Nat
  BY FS_Subset, FS_CardinalityType
<1>1. Bad = {}
  <2> SUFFICES ASSUME Bad # {} PROVE FALSE
    OBVIOUS
  <2>1. PICK n \in Bad : \A m \in Bad : n <= m
    <3>1. Bad \subseteq Nat
      OBVIOUS
    <3> HIDE DEF Bad
    <3> QED
      BY <3>1, LeastElement
  <2>2. PICK T \in SUBSET S : Cardinality(T) = n /\ Negative(T)
    BY <2>1
  <2>3. T # {}
    BY <2>2, SumOfNothing
  <2>4. PICK x \in T : TRUE
    BY <2>3
  <2>5. T \ {x} \in SUBSET S /\ Cardinality(T \ {x}) = n - 1 /\ n - 1 \in Nat
    BY <1>0, <2>2, OneLess
  <2>6. SumFunctionOnSet(f, T) = f[x] + SumFunctionOnSet(f, T \ {x})
    BY <1>0, SumSplits
  <2>7. Negative(T \ {x})
    BY <2>2, <2>6
  <2>8. n - 1 \in Bad /\ n \in Nat /\ ~(n <= n - 1)
    <3> HIDE DEF Negative
    <3> QED
      BY <2>1, <2>5, <2>7
  <2> HIDE DEF Bad
  <2> QED
    BY <2>1, <2>8
<1> QED
  BY <1>0, <1>1

-----------------------------------------------------------------------------
(* The counts of a report. *)

CountName == {"tests", "failures", "errors", "skipped"}
PerSuite(rs, c) == [i \in DOMAIN rs |-> SuiteCounts(rs[i])[c]]
Whole(rs, c) == SumFunctionOnSet(PerSuite(rs, c), DOMAIN rs)

LEMMA HavingType ==
  ASSUME NEW e \in Entry, NEW s
  PROVE  /\ IsFiniteSet({i \in DOMAIN e.tests : e.tests[i].status = s})
         /\ Having(e, s) \in Nat
<1>1. e.tests \in Seq([test : Test, status : Status])
  BY DEF Entry
<1>2. IsFiniteSet(DOMAIN e.tests)
  <2>1. DOMAIN e.tests = 1..Len(e.tests) /\ Len(e.tests) \in Nat
    BY <1>1
  <2> QED
    BY <2>1, FS_Interval
<1>3. IsFiniteSet({i \in DOMAIN e.tests : e.tests[i].status = s})
  BY <1>2, FS_Subset
<1> QED
  BY <1>3, FS_CardinalityType DEF Having

LEMMA SuiteCountsType ==
  ASSUME NEW e \in Entry
  PROVE  /\ SuiteCounts(e) \in Counts
         /\ \A c \in CountName : SuiteCounts(e)[c] \in Nat
<1>1. Len(e.tests) \in Nat /\ e.lifecycleErrors \in Nat
  BY DEF Entry
<1>2. Having(e, "Failed") \in Nat /\ Having(e, "Error") \in Nat /\ Having(e, "Skipped") \in Nat
  BY HavingType
<1>3. \A m, n \in Nat : m + n \in Nat
  OBVIOUS
<1>4. /\ Len(e.tests) + e.lifecycleErrors \in Nat
      /\ Having(e, "Error") + e.lifecycleErrors \in Nat
  BY <1>1, <1>2, <1>3, Zenon
<1> QED
  BY <1>2, <1>4 DEF SuiteCounts, Counts, CountName

LEMMA EntriesFinite ==
  ASSUME NEW rs \in Seq(Entry)
  PROVE  IsFiniteSet(DOMAIN rs) /\ \A i \in DOMAIN rs : rs[i] \in Entry
<1>1. DOMAIN rs = 1..Len(rs) /\ Len(rs) \in Nat
  OBVIOUS
<1>2. IsFiniteSet(DOMAIN rs)
  BY <1>1, FS_Interval
<1> QED
  BY <1>1, <1>2

(* What writeReport counts over all suites is the sum of what it counts in *)
(* each.                                                                   *)
LEMMA WholeIsSum ==
  ASSUME NEW rs \in Seq(Entry)
  PROVE  /\ WholeCounts(rs) \in Counts
         /\ \A c \in CountName : WholeCounts(rs)[c] = Whole(rs, c) /\ Whole(rs, c) \in Nat
<1> DEFINE errors == [i \in DOMAIN rs |-> rs[i].lifecycleErrors + Having(rs[i], "Error")]
<1>1. IsFiniteSet(DOMAIN rs) /\ \A i \in DOMAIN rs : rs[i] \in Entry
  BY EntriesFinite
<1>2. \A c \in CountName : Whole(rs, c) \in Nat
  <2> SUFFICES ASSUME NEW c \in CountName PROVE Whole(rs, c) \in Nat
    OBVIOUS
  <2>1. \A i \in DOMAIN rs : PerSuite(rs, c)[i] \in Nat
    BY <1>1, SuiteCountsType DEF PerSuite
  <2> QED
    BY <1>1, <2>1, SumNat DEF Whole
<1>3. SumFunctionOnSet(errors, DOMAIN rs) = Whole(rs, "errors")
  <2>1. ASSUME NEW i \in DOMAIN rs PROVE errors[i] = PerSuite(rs, "errors")[i]
    <3>1. Having(rs[i], "Error") \in Nat /\ rs[i].lifecycleErrors \in Nat
      BY <1>1, HavingType DEF Entry
    <3> QED
      BY <3>1 DEF PerSuite, SuiteCounts
  <2> HIDE DEF errors
  <2> QED
    BY <1>1, <2>1, SumOfSame DEF Whole
<1>4. /\ WholeCounts(rs).tests = Whole(rs, "tests")
      /\ WholeCounts(rs).failures = Whole(rs, "failures")
      /\ WholeCounts(rs).skipped = Whole(rs, "skipped")
  BY DEF WholeCounts, SumOver, SumFunction, Whole, PerSuite, SuiteCounts
<1>5. WholeCounts(rs).errors = Whole(rs, "errors")
  <2>1. WholeCounts(rs).errors = SumFunctionOnSet(errors, DOMAIN rs)
    BY DEF WholeCounts, SumOver, SumFunction
  <2> QED
    BY <1>3, <2>1
<1>6. \A c \in CountName : WholeCounts(rs)[c] = Whole(rs, c)
  BY <1>4, <1>5 DEF CountName
<1>7. WholeCounts(rs) \in Counts
  <2>1. /\ WholeCounts(rs).tests \in Nat /\ WholeCounts(rs).failures \in Nat
        /\ WholeCounts(rs).errors \in Nat /\ WholeCounts(rs).skipped \in Nat
    BY <1>2, <1>4, <1>5 DEF CountName
  <2>2. \E m, f, e, s : WholeCounts(rs) = [tests |-> m, failures |-> f, errors |-> e, skipped |-> s]
    BY Zenon DEF WholeCounts
  <2> QED
    BY <2>1, <2>2 DEF Counts
<1> QED
  BY <1>2, <1>6, <1>7

(* A suite without a result adds nothing.                                  *)
LEMMA NewEntryCounts ==
  ASSUME NEW rs \in Seq(Entry), NEW s \in Suite
  PROVE  /\ Append(rs, NewEntry(s)) \in Seq(Entry)
         /\ \A c \in CountName : Whole(Append(rs, NewEntry(s)), c) = Whole(rs, c)
<1> DEFINE n == Len(rs)
           e == NewEntry(s)
           qs == Append(rs, e)
<1>1. e \in Entry /\ e.tests = <<>> /\ e.lifecycleErrors = 0
  BY DEF NewEntry, Entry
<1>2. ASSUME NEW v PROVE Having(e, v) = 0
  <2>1. {i \in DOMAIN e.tests : e.tests[i].status = v} = {}
    BY <1>1
  <2> QED
    BY <2>1, FS_EmptySet DEF Having
<1>3. \A c \in CountName : SuiteCounts(e)[c] = 0
  BY <1>1, <1>2 DEF SuiteCounts, CountName
<1> HIDE DEF e
<1>4. /\ qs \in Seq(Entry) /\ n \in Nat /\ DOMAIN rs = 1..n /\ DOMAIN qs = 1..(n + 1)
      /\ qs[n + 1] = e /\ \A i \in 1..n : qs[i] = rs[i]
  BY <1>1
<1> HIDE DEF n, qs
<1>5. ASSUME NEW c \in CountName PROVE Whole(qs, c) = Whole(rs, c)
  <2>1. IsFiniteSet(DOMAIN qs) /\ \A i \in DOMAIN qs : PerSuite(qs, c)[i] \in Int
    BY <1>4, EntriesFinite, SuiteCountsType DEF PerSuite
  <2>2. n + 1 \in DOMAIN qs /\ (DOMAIN qs) \ {n + 1} = DOMAIN rs /\ IsFiniteSet(DOMAIN rs)
    BY <1>4, EntriesFinite
  <2>3. Whole(qs, c) = PerSuite(qs, c)[n + 1] + SumFunctionOnSet(PerSuite(qs, c), DOMAIN rs)
    BY <2>1, <2>2, SumSplits DEF Whole
  <2>4. PerSuite(qs, c)[n + 1] = 0
    BY <1>3, <1>4, <2>2 DEF PerSuite
  <2>5. SumFunctionOnSet(PerSuite(qs, c), DOMAIN rs) = Whole(rs, c)
    <3>1. \A i \in DOMAIN rs : PerSuite(qs, c)[i] = PerSuite(rs, c)[i]
      BY <1>4 DEF PerSuite
    <3> QED
      BY <2>2, <3>1, SumOfSame DEF Whole
  <2>6. Whole(rs, c) \in Nat
    BY WholeIsSum
  <2> QED
    BY <2>3, <2>4, <2>5, <2>6
<1> QED
  BY <1>4, <1>5 DEF qs, e

(* A change of the last entry changes the whole by as much.                *)
LEMMA LastEntryCounts ==
  ASSUME NEW rs \in Seq(Entry), rs # <<>>, NEW e \in Entry,
         NEW qs, qs = [rs EXCEPT ![Len(rs)] = e], NEW c \in CountName
  PROVE  /\ qs \in Seq(Entry) /\ Len(qs) = Len(rs)
         /\ Whole(qs, c) = Whole(rs, c) - SuiteCounts(Last(rs))[c] + SuiteCounts(e)[c]
<1> DEFINE n == Len(rs)
<1>1. /\ n \in Nat /\ n \in DOMAIN rs /\ DOMAIN rs = 1..n /\ DOMAIN qs = DOMAIN rs
      /\ qs \in Seq(Entry) /\ Len(qs) = n
      /\ qs[n] = e /\ \A i \in (DOMAIN rs) \ {n} : qs[i] = rs[i]
      /\ Last(rs) = rs[n]
  BY DEF Last
<1> HIDE DEF n
<1>2. /\ IsFiniteSet(DOMAIN rs)
      /\ \A i \in DOMAIN rs : PerSuite(rs, c)[i] \in Int /\ PerSuite(qs, c)[i] \in Int
  BY <1>1, EntriesFinite, SuiteCountsType DEF PerSuite
<1>3. \A i \in (DOMAIN rs) \ {n} : PerSuite(qs, c)[i] = PerSuite(rs, c)[i]
  BY <1>1 DEF PerSuite
<1>4. Whole(qs, c) = Whole(rs, c) - PerSuite(rs, c)[n] + PerSuite(qs, c)[n]
  <2> DEFINE f == PerSuite(rs, c)
             h == PerSuite(qs, c)
             D == DOMAIN rs
  <2>1. /\ IsFiniteSet(D) /\ n \in D
        /\ \A i \in D : f[i] \in Int /\ h[i] \in Int
        /\ \A i \in D \ {n} : h[i] = f[i]
    BY <1>1, <1>2, <1>3
  <2>2. Whole(rs, c) = SumFunctionOnSet(f, D) /\ Whole(qs, c) = SumFunctionOnSet(h, D)
    BY <1>1 DEF Whole
  <2> HIDE DEF f, h, D
  <2>3. (\A i \in D : f[i] \in Int /\ h[i] \in Int) /\ (\A i \in D \ {n} : h[i] = f[i])
    BY <2>1
  <2>4. SumFunctionOnSet(h, D) = SumFunctionOnSet(f, D) - f[n] + h[n]
    BY <2>1, <2>3, SumChanges
  <2> QED
    BY <2>2, <2>4 DEF f, h
<1>5. PerSuite(rs, c)[n] = SuiteCounts(Last(rs))[c] /\ PerSuite(qs, c)[n] = SuiteCounts(e)[c]
  BY <1>1 DEF PerSuite
<1> QED
  BY <1>1, <1>4, <1>5 DEF n

LEMMA HavingOneMore ==
  ASSUME NEW e \in Entry, NEW r \in [test : Test, status : Status],
         NEW d \in Entry, d.tests = Append(e.tests, r), NEW s
  PROVE  Having(d, s) = Having(e, s) + IF r.status = s THEN 1 ELSE 0
<1> DEFINE With(q) == {i \in DOMAIN q : q[i].status = s}
           n == Len(e.tests)
<1>1. /\ n \in Nat /\ DOMAIN e.tests = 1..n /\ DOMAIN d.tests = 1..(n + 1)
      /\ d.tests[n + 1] = r /\ \A i \in 1..n : d.tests[i] = e.tests[i]
  BY DEF Entry
<1>2. IsFiniteSet(With(e.tests)) /\ Having(e, s) = Cardinality(With(e.tests))
      /\ Having(d, s) = Cardinality(With(d.tests)) /\ Having(e, s) \in Nat
  BY HavingType DEF Having
<1> HIDE DEF n
<1>3. CASE r.status = s
  <2>1. With(d.tests) = With(e.tests) \cup {n + 1} /\ n + 1 \notin With(e.tests)
    BY <1>1, <1>3
  <2> HIDE DEF With
  <2> QED
    BY <1>2, <1>3, <2>1, FS_AddElement
<1>4. CASE r.status # s
  <2>1. With(d.tests) = With(e.tests)
    BY <1>1, <1>4
  <2> HIDE DEF With
  <2> QED
    BY <1>2, <1>4, <2>1
<1> QED
  BY <1>3, <1>4

-----------------------------------------------------------------------------
(* The invariant. *)

Wanted == outputPath # "none"

ContractTypes ==
    /\ open \in BOOLEAN /\ aborted \in BOOLEAN
    /\ outcome \in [Test -> Outcome]
    /\ running \subseteq {t \in Test : outcome[t] = "NotRun"}
    /\ info \in [Counter -> Nat]
    /\ lines \in [Verdict -> Nat] /\ allLines \in [Verdict -> Nat] /\ abortLines \in Nat

(* The suite that reports is one of this run's, and its numbers are those  *)
(* of its results and of its lines on the console.                         *)
Reports ==
    open => /\ pc = "report" /\ current \in Suite \ finished
            /\ info = Tally(outcome) /\ info = Summed(lines)

(* What the Runner has added up, and the suite will add, is on the console. *)
Printed ==
    pc = "report" =>
        /\ \A c \in Counter : Summed(allLines)[c] = totals[c] + IF open THEN info[c] ELSE 0
        /\ abortLines = aborts

(* The reporter has one entry per suite, and the last is that of the suite *)
(* that reports.                                                           *)
Names(rs) == {rs[i].name : i \in DOMAIN rs}
Distinct(rs) == \A i, j \in DOMAIN rs : rs[i].name = rs[j].name => i = j

EntryFollows(e) ==
    /\ e.name = current
    /\ e.lifecycleErrors = IF aborted THEN 1 ELSE 0
    /\ Len(e.tests) = Cardinality(Contract!Reported)
    /\ \A t \in Contract!Reported : \E i \in DOMAIN e.tests :
          e.tests[i] = [test |-> t, status |-> StatusOf(outcome[t])]

Follows ==
    Wanted /\ pc = "report" =>
        /\ Names(suiteResults) = finished \cup IF open THEN {current} ELSE {}
        /\ Distinct(suiteResults)
        /\ Len(suiteResults) = Cardinality(finished) + IF open THEN 1 ELSE 0
        /\ open => EntryFollows(Last(suiteResults))

(* Its sums are those of the lines on the console.                         *)
LineSum == allLines["Passed"] + allLines["Failed"] + allLines["Skipped"]
             + allLines["LifecycleError"]

PrintedCount(c) ==
    CASE c = "tests"    -> abortLines + LineSum
      [] c = "failures" -> allLines["Failed"]
      [] c = "errors"   -> abortLines + allLines["LifecycleError"]
      [] c = "skipped"  -> allLines["Skipped"]

SumsFollow ==
    Wanted /\ pc = "report" =>
        \A c \in CountName : Whole(suiteResults, c) = PrintedCount(c)

(* Until the end of a report its file is not written, and no error known.  *)
Unwritten ==
    /\ ~Wanted => ~reportWritten /\ ~writeError
    /\ pc = "report" => /\ ~reportWritten /\ ~writeError
                        /\ \A p \in Path : file[p] \in {"absent", "earlier"}

(* ReportAgreesWithRun, its sum over the suites of the report spelled out. *)
SuitesSum(r, c) == SumFunctionOnSet([i \in DOMAIN r.suites |-> r.suites[i][c]], DOMAIN r.suites)

WrittenAgrees ==
    pc = "done" /\ Wanted /\ reportWritten =>
        /\ report.whole.skipped = totals["skipped"]
        /\ report.whole.failures + report.whole.errors = totals["failed"] + aborts
        /\ report.whole.tests = totals["passed"] + totals["failed"] + totals["skipped"] + aborts
        /\ Len(report.suites) = Cardinality(finished)
        /\ \A c \in CountName : report.whole[c] = SuitesSum(report, c)

Inv ==
    /\ TypeOK /\ ContractTypes
    /\ Reports /\ Printed /\ Follows /\ SumsFollow /\ Unwritten
    /\ WrittenAgrees /\ LossIsReported /\ ConsoleAgrees

-----------------------------------------------------------------------------
(* What the contract's callbacks do, in the vocabulary of the reporter.    *)

LEMMA SameVocabulary ==
  /\ \A o : Contract!Tally(o) = Tally(o)
  /\ Contract!NothingRun = NothingRun
  /\ Contract!Verdict = Verdict
  /\ Contract!Reported = {t \in Test : outcome[t] # "NotRun"}
<1>1. \A S : Contract!Cardinality(S) = Cardinality(S)
  BY DEF Contract!Cardinality, Cardinality
<1>2. \A o, c : Contract!Counted(o, c) = Counted(o, c)
  BY DEF Contract!Counted, Counted, Contract!CounterOf, CounterOf
<1>3. \A o : Contract!Tally(o) = Tally(o)
  BY <1>1, <1>2 DEF Contract!Tally, Tally, Contract!Counter, Counter
<1> QED
  BY <1>3 DEF Contract!NothingRun, NothingRun, Contract!Verdict, Verdict, Contract!Reported

LEMMA SuiteStarts ==
  ASSUME Contract!OnSuiteStart
  PROVE  /\ ~open /\ open' = TRUE /\ aborted' = FALSE /\ running' = {}
         /\ outcome' = NothingRun /\ info' = NoResults
  BY SameVocabulary, TallyNothing DEF Contract!OnSuiteStart

LEMMA ResultArrives ==
  ASSUME ContractTypes, NEW t \in Test, NEW v \in Verdict,
         IF v = "Skipped" THEN Contract!OnTestSkipped(t) ELSE Contract!OnTestResult(t, v)
  PROVE  /\ open /\ ~aborted /\ UNCHANGED <<open, aborted>>
         /\ outcome[t] = "NotRun" /\ outcome' = [outcome EXCEPT ![t] = v]
         /\ running' = {} /\ info' = Tally(outcome')
<1>1. outcome[t] = "NotRun" /\ Contract!Report(t, v)
  BY SameVocabulary DEF ContractTypes, Contract!OnTestSkipped, Contract!OnTestResult
<1> QED
  BY <1>1, SameVocabulary DEF Contract!Report

(* One more result in the tally of the suite, and on the console.          *)
LEMMA OneMoreResult ==
  ASSUME ContractTypes, NEW t \in Test, NEW v \in Verdict, outcome[t] = "NotRun",
         outcome' = [outcome EXCEPT ![t] = v], info' = Tally(outcome'), info = Tally(outcome)
  PROVE  /\ outcome' \in [Test -> Outcome]
         /\ info' \in [Counter -> Nat]
         /\ \A c \in Counter : info'[c] = info[c] + IF c = CounterOf(v) THEN 1 ELSE 0
         /\ IsFiniteSet(Contract!Reported) /\ t \notin Contract!Reported
         /\ Contract!Reported' = Contract!Reported \cup {t}
         /\ Cardinality(Contract!Reported') = Cardinality(Contract!Reported) + 1
<1>1. outcome \in [Test -> Outcome] /\ v # "NotRun" /\ v \in Outcome
  BY DEF ContractTypes, Outcome, Verdict
<1>2. info' = [info EXCEPT ![CounterOf(v)] = @ + 1]
  BY <1>1, TestAssumption, TallyReport
<1>3. info' \in [Counter -> Nat]
  BY <1>1, TestAssumption, TallyType
<1>4. Contract!Reported' = {u \in Test : outcome'[u] # "NotRun"}
  BY DEF Contract!Reported
<1>5. Contract!Reported' = Contract!Reported \cup {t} /\ t \notin Contract!Reported
  BY <1>1, <1>4, SameVocabulary
<1>6. IsFiniteSet(Contract!Reported)
  <2>1. Contract!Reported \in SUBSET Test
    BY SameVocabulary
  <2> QED
    BY <2>1, TestAssumption, FS_Subset
<1>7. Cardinality(Contract!Reported') = Cardinality(Contract!Reported) + 1
  BY <1>5, <1>6, FS_AddElement
<1>8. \A c \in Counter : info'[c] = info[c] + IF c = CounterOf(v) THEN 1 ELSE 0
  <2> SUFFICES ASSUME NEW c \in Counter
               PROVE  info'[c] = info[c] + IF c = CounterOf(v) THEN 1 ELSE 0
    OBVIOUS
  <2>1. info \in [Counter -> Nat] /\ info[c] \in Nat
    BY DEF ContractTypes
  <2>2. info'[c] = IF c = CounterOf(v) THEN info[c] + 1 ELSE info[c]
    BY <1>2, <2>1
  <2> QED
    BY <2>1, <2>2
<1> QED
  BY <1>1, <1>3, <1>5, <1>6, <1>7, <1>8

LEMMA SummedLines ==
  ASSUME NEW printed \in [Verdict -> Nat], NEW v \in Verdict, NEW c \in Counter
  PROVE  Summed([printed EXCEPT ![v] = @ + 1])[c]
           = Summed(printed)[c] + IF c = CounterOf(v) THEN 1 ELSE 0
<1> DEFINE more == [printed EXCEPT ![v] = @ + 1]
<1>1. \A w \in Verdict : more[w] = printed[w] + (IF w = v THEN 1 ELSE 0) /\ printed[w] \in Nat
  OBVIOUS
<1> HIDE DEF more
<1> QED
  BY <1>1 DEF Summed, Counter, CounterOf, Verdict, more

LEMMA SummedType ==
  ASSUME NEW printed \in [Verdict -> Nat]
  PROVE  Summed(printed) \in [Counter -> Nat]
<1>1. \A w \in Verdict : printed[w] \in Nat
  OBVIOUS
<1> QED
  BY <1>1 DEF Summed, Counter, Verdict

LEMMA NothingPrinted == NoLines \in [Verdict -> Nat] /\ Summed(NoLines) = NoResults
<1>1. NoLines \in [Verdict -> Nat]
  BY DEF NoLines
<1>2. \A c \in Counter : Summed(NoLines)[c] = 0
  BY DEF NoLines, Summed, Counter, Verdict
<1>3. Summed(NoLines) \in [Counter -> Nat]
  BY <1>1, SummedType
<1>4. NoResults \in [Counter -> Nat] /\ \A c \in Counter : NoResults[c] = 0
  BY DEF NoResults
<1> QED
  BY <1>1, <1>2, <1>3, <1>4

(* The number of lines is the sum of those of each kind.                   *)
LEMMA LinesAddUp ==
  ASSUME NEW printed \in [Verdict -> Nat]
  PROVE  SumFunction(printed) = printed["Passed"] + printed["Failed"] + printed["Skipped"]
                                  + printed["LifecycleError"]
<1> DEFINE F(S) == SumFunctionOnSet(printed, S)
<1>1. \A w \in Verdict : printed[w] \in Int
  OBVIOUS
<1>2. ASSUME NEW S \in SUBSET Verdict, IsFiniteSet(S), NEW w \in S
      PROVE  F(S) = printed[w] + F(S \ {w}) /\ F(S \ {w}) \in Int /\ IsFiniteSet(S \ {w})
  <2>1. \A x \in S : printed[x] \in Int
    BY <1>1
  <2>2. IsFiniteSet(S \ {w})
    BY <1>2, FS_RemoveElement
  <2>3. /\ SumFunctionOnSet(printed, S \ {w}) \in Int
        /\ SumFunctionOnSet(printed, S) = printed[w] + SumFunctionOnSet(printed, S \ {w})
    BY <1>2, <2>1, SumSplits
  <2> QED
    BY <2>2, <2>3
<1>3. IsFiniteSet({"LifecycleError"})
  BY FS_Singleton
<1>4. IsFiniteSet({"Skipped", "LifecycleError"})
  <2>1. {"Skipped", "LifecycleError"} = {"LifecycleError"} \cup {"Skipped"}
    OBVIOUS
  <2> QED
    BY <1>3, <2>1, FS_AddElement
<1>5. IsFiniteSet({"Failed", "Skipped", "LifecycleError"})
  <2>1. {"Failed", "Skipped", "LifecycleError"} = {"Skipped", "LifecycleError"} \cup {"Failed"}
    OBVIOUS
  <2> QED
    BY <1>4, <2>1, FS_AddElement
<1>6. IsFiniteSet(Verdict)
  <2>1. Verdict = {"Failed", "Skipped", "LifecycleError"} \cup {"Passed"}
    BY DEF Verdict
  <2> QED
    BY <1>5, <2>1, FS_AddElement
<1> HIDE DEF F
<1>7. F({"LifecycleError"}) = printed["LifecycleError"] + F({})
  <2>1. {"LifecycleError"} \ {"LifecycleError"} = {} /\ {"LifecycleError"} \in SUBSET Verdict
    BY DEF Verdict
  <2> QED
    BY <1>2, <1>3, <2>1
<1>8. F({"Skipped", "LifecycleError"}) = printed["Skipped"] + F({"LifecycleError"})
  <2>1. /\ {"Skipped", "LifecycleError"} \ {"Skipped"} = {"LifecycleError"}
        /\ {"Skipped", "LifecycleError"} \in SUBSET Verdict
    BY DEF Verdict
  <2> QED
    BY <1>2, <1>4, <2>1
<1>9. F({"Failed", "Skipped", "LifecycleError"})
        = printed["Failed"] + F({"Skipped", "LifecycleError"})
  <2>1. /\ {"Failed", "Skipped", "LifecycleError"} \ {"Failed"} = {"Skipped", "LifecycleError"}
        /\ {"Failed", "Skipped", "LifecycleError"} \in SUBSET Verdict
    BY DEF Verdict
  <2> QED
    BY <1>2, <1>5, <2>1
<1>10. F(Verdict) = printed["Passed"] + F({"Failed", "Skipped", "LifecycleError"})
  <2>1. Verdict \ {"Passed"} = {"Failed", "Skipped", "LifecycleError"} /\ "Passed" \in Verdict
    BY DEF Verdict
  <2> QED
    BY <1>2, <1>6, <2>1
<1>11. F({}) = 0
  BY SumOfNothing DEF F
<1>12. SumFunction(printed) = F(Verdict)
  BY DEF SumFunction, F
<1>13. /\ printed["Passed"] \in Int /\ printed["Failed"] \in Int
       /\ printed["Skipped"] \in Int /\ printed["LifecycleError"] \in Int
  BY <1>1 DEF Verdict
<1> QED
  BY <1>7, <1>8, <1>9, <1>10, <1>11, <1>12, <1>13

-----------------------------------------------------------------------------
(* Initial states, and steps outside of a report.                          *)

LEMMA SuitesFinite ==
  /\ Cardinality(Suite) \in Nat /\ Cardinality({}) = 0
  /\ \A S \in SUBSET Suite : /\ IsFiniteSet(S) /\ Cardinality(S) \in Nat
                             /\ Cardinality(S) <= Cardinality(Suite)
                             /\ \A s \in Suite \ S : Cardinality(S \cup {s}) = Cardinality(S) + 1
<1>1. IsFiniteSet(Suite)
  BY SuiteAssumption
<1>2. Cardinality(Suite) \in Nat /\ Cardinality({}) = 0
  BY <1>1, FS_CardinalityType, FS_EmptySet
<1>3. ASSUME NEW S \in SUBSET Suite
      PROVE  /\ IsFiniteSet(S) /\ Cardinality(S) \in Nat
             /\ Cardinality(S) <= Cardinality(Suite)
             /\ \A s \in Suite \ S : Cardinality(S \cup {s}) = Cardinality(S) + 1
  <2>1. IsFiniteSet(S) /\ Cardinality(S) <= Cardinality(Suite)
    BY <1>1, FS_Subset
  <2>2. Cardinality(S) \in Nat
    BY <2>1, FS_CardinalityType
  <2>3. \A s \in Suite \ S : Cardinality(S \cup {s}) = Cardinality(S) + 1
    BY <2>1, FS_AddElement
  <2> QED
    BY <2>1, <2>2, <2>3
<1> QED
  BY <1>2, <1>3

(* Outside of a report only types and what an unwanted report is matter.   *)
LEMMA IdleStep ==
  ASSUME TypeOK', ContractTypes', ~open', pc' \in {"idle", "configured"},
         (~Wanted => ~reportWritten /\ ~writeError)'
  PROVE  Inv'
<1>1. pc' # "report" /\ pc' # "done"
  OBVIOUS
<1>2. Reports' /\ Printed' /\ Follows' /\ SumsFollow' /\ Unwritten'
  BY <1>1 DEF Reports, Printed, Follows, SumsFollow, Unwritten
<1>3. WrittenAgrees' /\ LossIsReported' /\ ConsoleAgrees'
  BY <1>1 DEF WrittenAgrees, LossIsReported, ConsoleAgrees
<1> QED
  BY <1>2, <1>3 DEF Inv

LEMMA InvInit == BothInit => Inv
<1> SUFFICES ASSUME BothInit PROVE Inv
  OBVIOUS
<1>1. NoResults \in [Counter -> Nat] /\ NoLines \in [Verdict -> Nat]
      /\ NothingRun \in [Test -> Outcome] /\ <<>> \in Seq(Entry) /\ Len(<<>>) = 0
  BY NothingPrinted DEF NoResults, NothingRun, Outcome
<1>2. TypeOK
  BY <1>1, PathAssumption, SuitesFinite DEF BothInit, Init, TypeOK
<1>3. /\ open = FALSE /\ aborted = FALSE /\ outcome = NothingRun /\ running = {} /\ info = NoResults
  BY SameVocabulary, TallyNothing DEF BothInit, Init, Contract!Init
<1>4. ContractTypes
  BY <1>1, <1>3 DEF BothInit, ContractTypes
<1>5. pc # "report" /\ pc # "done"
  BY DEF BothInit, Init
<1>6. Reports /\ Printed /\ Follows /\ SumsFollow /\ Unwritten
  BY <1>3, <1>5 DEF Reports, Printed, Follows, SumsFollow, Unwritten, BothInit, Init
<1>7. WrittenAgrees /\ LossIsReported /\ ConsoleAgrees
  BY <1>5 DEF WrittenAgrees, LossIsReported, ConsoleAgrees
<1> QED
  BY <1>2, <1>4, <1>6, <1>7 DEF Inv

LEMMA ConfigureStep ==
  ASSUME Inv, NEW path \in Path \cup {"none"}, NEW wellFormed \in BOOLEAN,
         Configure(path, wellFormed), PrintsNothing
  PROVE  Inv'
<1>1. ~open /\ TypeOK /\ ContractTypes
  BY DEF Inv, Reports, Configure
<1>2. UNCHANGED <<open, aborted, outcome, running, info, lines, allLines, abortLines>>
  BY DEF Configure, suiteVars, PrintsNothing, consoleVars
<1>3. pc' \in {"idle", "configured"}
  BY DEF Configure
<1>4. TypeOK'
  <2>1. <<>> \in Seq(Entry) /\ Len(<<>>) <= Cardinality(Suite)
    BY SuitesFinite
  <2> QED
    BY <1>1, <1>3, <2>1 DEF TypeOK, Configure, reporterVars, worldVars
<1>5. ContractTypes'
  BY <1>1, <1>2 DEF ContractTypes
<1>6. (~Wanted => ~reportWritten /\ ~writeError)'
  BY DEF Inv, Unwritten, Wanted, Configure, reporterVars
<1> QED
  BY <1>1, <1>2, <1>3, <1>4, <1>5, <1>6, IdleStep

LEMMA OutsideStep ==
  ASSUME Inv, (Reject /\ PrintsNothing) \/ (Return /\ PrintsNothing)
  PROVE  Inv'
<1>1. ~open /\ TypeOK /\ ContractTypes
  BY DEF Inv, Reports, Reject, Return
<1>2. /\ UNCHANGED <<open, aborted, outcome, running, info, lines, allLines, abortLines>>
      /\ UNCHANGED <<reporterVars, worldVars, current, finished, totals, aborts>>
      /\ pc' \in {"idle", "configured"}
  BY DEF Reject, Return, suiteVars, PrintsNothing, consoleVars
<1>3. TypeOK'
  BY <1>1, <1>2 DEF TypeOK, reporterVars, worldVars
<1>4. ContractTypes'
  BY <1>1, <1>2 DEF ContractTypes
<1>5. (~Wanted => ~reportWritten /\ ~writeError)'
  BY <1>2 DEF Inv, Unwritten, Wanted, reporterVars
<1> QED
  BY <1>1, <1>2, <1>3, <1>4, <1>5, IdleStep

(* A step that changes only what the next tests are.                       *)
LEMMA QuietStep ==
  ASSUME Inv,
         UNCHANGED <<reporterVars, worldVars, pc, current, finished, totals, aborts>>,
         UNCHANGED <<open, aborted, outcome, info, lines, allLines, abortLines, summary>>,
         running' \subseteq {t \in Test : outcome[t] = "NotRun"}
  PROVE  Inv'
<1> USE DEF reporterVars, worldVars
<1>1. TypeOK' /\ ContractTypes'
  BY DEF Inv, TypeOK, ContractTypes
<1>2. Reports' /\ Printed' /\ Unwritten'
  BY DEF Inv, Reports, Printed, Unwritten, Wanted
<1>3. Follows'
  <2>1. Contract!Reported' = Contract!Reported
    BY DEF Contract!Reported
  <2>2. \A e : EntryFollows(e)' <=> EntryFollows(e)
    BY <2>1 DEF EntryFollows
  <2>3. Follows
    BY DEF Inv
  <2>4. Last(suiteResults)' = Last(suiteResults)
    BY DEF Last
  <2>5. EntryFollows(Last(suiteResults))' <=> EntryFollows(Last(suiteResults))
    BY <2>1, <2>4 DEF EntryFollows
  <2> QED
    BY <2>3, <2>5 DEF Follows, Wanted
<1>4. SumsFollow'
  BY DEF Inv, SumsFollow, Wanted, PrintedCount, LineSum
<1>5. WrittenAgrees'
  BY DEF Inv, WrittenAgrees, Wanted
<1>6. LossIsReported'
  BY DEF Inv, LossIsReported
<1>7. ConsoleAgrees'
  <2>1. SumFunction(allLines)' = SumFunction(allLines)
    BY DEF SumFunction
  <2> QED
    BY <2>1 DEF Inv, ConsoleAgrees, Summed
<1> QED
  BY <1>1, <1>2, <1>3, <1>4, <1>5, <1>6, <1>7 DEF Inv

LEMMA TestStartStep ==
  ASSUME Inv,
         \/ \E S \in SUBSET Test : Select(S) /\ PrintsNothing
         \/ \E t \in Test : OnTestStart(t) /\ PrintsNothing
         \/ UNCHANGED <<vars, consoleVars>>
  PROVE  Inv'
<1>1. ContractTypes
  BY DEF Inv
<1>2. CASE \E S \in SUBSET Test : Select(S) /\ PrintsNothing
  BY <1>1, <1>2, QuietStep DEF Select, PrintsNothing, consoleVars, runVars, Contract!Select,
                               ContractTypes
<1>3. CASE \E t \in Test : OnTestStart(t) /\ PrintsNothing
  <2>1. PICK t \in Test : OnTestStart(t) /\ PrintsNothing
    BY <1>3
  <2>2. running' \subseteq {u \in Test : outcome[u] = "NotRun"}
    BY <1>1, <2>1, SameVocabulary DEF OnTestStart, Contract!OnTestStart
  <2> QED
    BY <2>1, <2>2, QuietStep DEF OnTestStart, PrintsNothing, consoleVars, runVars,
                                 Contract!OnTestStart
<1>4. CASE UNCHANGED <<vars, consoleVars>>
  BY <1>1, <1>4, QuietStep DEF vars, consoleVars, runVars, suiteVars, ContractTypes
<1> QED
  BY <1>2, <1>3, <1>4

LEMMA StartReportStep ==
  ASSUME Inv, OnStartReport, PrintsReportHeader
  PROVE  Inv'
<1>1. /\ TypeOK /\ ContractTypes /\ ~open
  BY DEF Inv, Reports, OnStartReport
<1>2. /\ pc' = "report" /\ report' = NoReport /\ finished' = {} /\ totals' = NoResults
      /\ aborts' = 0 /\ allLines' = NoLines /\ abortLines' = 0
      /\ UNCHANGED <<outputPath, outputPathIsFixed, current, lines, summary>>
      /\ UNCHANGED <<open, aborted, outcome, running, info>>
  BY DEF OnStartReport, PrintsReportHeader, suiteVars
<1>3. NoResults \in [Counter -> Nat] /\ \A c \in Counter : NoResults[c] = 0
  BY DEF NoResults
<1>4. Wanted' <=> Wanted
  BY <1>2 DEF Wanted
<1>5. /\ Wanted => suiteResults' = <<>>
      /\ suiteResults' = <<>> \/ suiteResults' = suiteResults
      /\ reportWritten' = FALSE /\ writeError' = FALSE
      /\ \A p \in Path : file'[p] \in {"absent", "earlier"}
      /\ file' \in [Path -> {"absent", "earlier"}]
  BY <1>4 DEF OnStartReport, Cleared, Wanted, Inv, Unwritten, TypeOK
<1>6. TypeOK'
  <2>1. <<>> \in Seq(Entry) /\ Len(<<>>) <= Cardinality(Suite)
    BY SuitesFinite
  <2> QED
    BY <1>1, <1>2, <1>3, <1>5, <2>1 DEF TypeOK
<1>7. ContractTypes'
  BY <1>1, <1>2, NothingPrinted DEF ContractTypes
<1>8. Reports' /\ Unwritten'
  BY <1>1, <1>2, <1>5 DEF Reports, Unwritten
<1>9. Printed'
  <2>1. \A c \in Counter : NoResults[c] = 0 /\ Summed(NoLines) = NoResults
    BY <1>3, NothingPrinted
  <2>2. Summed(allLines)' = Summed(NoLines)
    BY <1>2 DEF Summed
  <2> QED
    BY <1>1, <1>2, <2>1, <2>2 DEF Printed
<1>10. Follows'
  <2>1. Wanted => Names(suiteResults)' = {} /\ Distinct(suiteResults)' /\ Len(suiteResults)' = 0
    BY <1>5 DEF Names, Distinct
  <2> QED
    BY <1>1, <1>2, <1>4, <2>1, SuitesFinite DEF Follows
<1>11. SumsFollow'
  <2>1. ASSUME Wanted, NEW c \in CountName PROVE Whole(suiteResults, c)' = 0
    BY <1>5, <2>1, SumOfNothing DEF Whole
  <2>2. \A v \in Verdict : allLines'[v] = 0
    BY <1>2 DEF NoLines
  <2>3. \A c \in CountName : PrintedCount(c)' = 0
    BY <1>2, <2>2 DEF PrintedCount, LineSum, CountName, Verdict
  <2> QED
    BY <1>4, <2>1, <2>3 DEF SumsFollow
<1>12. WrittenAgrees' /\ LossIsReported' /\ ConsoleAgrees'
  BY <1>2 DEF WrittenAgrees, LossIsReported, ConsoleAgrees
<1> QED
  BY <1>6, <1>7, <1>8, <1>9, <1>10, <1>11, <1>12 DEF Inv

-----------------------------------------------------------------------------
(* Steps of a suite. *)

(* The properties of a report that is done say nothing of one that is not. *)
LEMMA NotDone ==
  ASSUME (pc # "done")', (pc = "report" /\ ~open /\ finished # {} => summary = Summed(lines))'
  PROVE  WrittenAgrees' /\ LossIsReported' /\ ConsoleAgrees'
<1>1. WrittenAgrees' /\ LossIsReported'
  BY DEF WrittenAgrees, LossIsReported
<1>2. ConsoleAgrees'
  BY DEF ConsoleAgrees
<1> QED
  BY <1>1, <1>2

LEMMA SuiteStartStep ==
  ASSUME Inv, NEW s \in Suite, OnSuiteStart(s), PrintsSuiteHeader
  PROVE  Inv'
<1>1. /\ TypeOK /\ ContractTypes /\ pc = "report" /\ s \in Suite \ finished /\ finished \subseteq Suite
  BY DEF Inv, OnSuiteStart, TypeOK
<1>2. /\ open = FALSE /\ open' = TRUE /\ aborted' = FALSE /\ running' = {}
      /\ outcome' = NothingRun /\ info' = NoResults /\ current' = s /\ lines' = NoLines
      /\ UNCHANGED <<outputPath, outputPathIsFixed, reportWritten, writeError>>
      /\ UNCHANGED <<worldVars, pc, finished, totals, aborts, allLines, abortLines, summary>>
  BY <1>1, SuiteStarts DEF OnSuiteStart, PrintsSuiteHeader, ContractTypes
<1>3. Wanted' <=> Wanted
  BY <1>2 DEF Wanted
<1>4. suiteResults' = IF Wanted THEN Append(suiteResults, NewEntry(s)) ELSE suiteResults
  BY DEF OnSuiteStart, Wanted
<1>5. /\ suiteResults \in Seq(Entry) /\ Append(suiteResults, NewEntry(s)) \in Seq(Entry)
      /\ \A c \in CountName : Whole(Append(suiteResults, NewEntry(s)), c) = Whole(suiteResults, c)
  BY <1>1, NewEntryCounts DEF TypeOK
<1>6. NoResults \in [Counter -> Nat] /\ \A c \in Counter : NoResults[c] = 0
  BY DEF NoResults
<1>7. Wanted => Len(suiteResults) = Cardinality(finished)
                /\ Names(suiteResults) = finished /\ Distinct(suiteResults)
  <2> SUFFICES ASSUME Wanted
               PROVE  /\ Len(suiteResults) = Cardinality(finished)
                      /\ Names(suiteResults) = finished /\ Distinct(suiteResults)
    OBVIOUS
  <2>1. /\ Names(suiteResults) = finished \cup IF open THEN {current} ELSE {}
        /\ Distinct(suiteResults)
        /\ Len(suiteResults) = Cardinality(finished) + IF open THEN 1 ELSE 0
    BY <1>1 DEF Inv, Follows
  <2>2. Cardinality(finished) \in Nat
    BY <1>1, SuitesFinite
  <2>3. Names(suiteResults) = finished
    BY <1>2, <2>1, Zenon
  <2> QED
    BY <1>2, <2>1, <2>2, <2>3
<1>8. TypeOK'
  <2>1. suiteResults' \in Seq(Entry) /\ Len(suiteResults') <= Cardinality(Suite)
    <3>1. CASE Wanted
      <4>1. Len(suiteResults') = Cardinality(finished) + 1
        BY <1>4, <1>5, <1>7, <3>1
      <4>2. Cardinality(finished) + 1 = Cardinality(finished \cup {s})
            /\ finished \cup {s} \in SUBSET Suite
        BY <1>1, SuitesFinite
      <4> QED
        BY <1>4, <1>5, <3>1, <4>1, <4>2, SuitesFinite
    <3>2. CASE ~Wanted
      BY <1>1, <1>4, <3>2 DEF TypeOK
    <3> QED
      BY <3>1, <3>2
  <2> QED
    BY <1>1, <1>2, <2>1 DEF TypeOK, worldVars
<1>9. ContractTypes'
  <2>1. NothingRun \in [Test -> Outcome]
    BY DEF NothingRun, Outcome
  <2> QED
    BY <1>1, <1>2, <1>6, <2>1, NothingPrinted DEF ContractTypes
<1>10. Reports'
  <2>1. Tally(outcome)' = Tally(NothingRun) /\ Summed(lines)' = Summed(NoLines)
    BY <1>2 DEF Tally, Counted, Summed
  <2> QED
    BY <1>1, <1>2, <2>1, TallyNothing, NothingPrinted DEF Reports
<1>11. Printed'
  <2>1. \A c \in Counter : totals[c] \in Nat
    BY <1>1 DEF TypeOK
  <2>2. Summed(allLines)' = Summed(allLines)
    BY <1>2 DEF Summed
  <2> QED
    BY <1>1, <1>2, <1>6, <2>1, <2>2 DEF Inv, Printed
<1>12. Follows'
  <2> SUFFICES ASSUME Wanted
               PROVE  /\ Names(suiteResults)' = finished \cup {s}
                      /\ Distinct(suiteResults)'
                      /\ Len(suiteResults)' = Cardinality(finished) + 1
                      /\ EntryFollows(Last(suiteResults))'
    BY <1>1, <1>2, <1>3 DEF Follows
  <2> DEFINE n == Len(suiteResults)
  <2>1. /\ n \in Nat /\ DOMAIN suiteResults = 1..n /\ DOMAIN suiteResults' = 1..(n + 1)
        /\ Len(suiteResults') = n + 1 /\ suiteResults'[n + 1] = NewEntry(s)
        /\ \A i \in 1..n : suiteResults'[i] = suiteResults[i]
    BY <1>4, <1>5
  <2>2. n = Cardinality(finished) /\ Names(suiteResults) = finished /\ Distinct(suiteResults)
    BY <1>7
  <2> HIDE DEF n
  <2>3. NewEntry(s).name = s
    BY DEF NewEntry
  <2>4. Names(suiteResults)' = Names(suiteResults) \cup {s}
    <3>1. \A i \in 1..(n + 1) : i = n + 1 \/ i \in 1..n
      BY <2>1
    <3>2. n + 1 \in 1..(n + 1) /\ \A i \in 1..n : i \in 1..(n + 1)
      BY <2>1
    <3> QED
      BY <2>1, <2>3, <3>1, <3>2 DEF Names
  <2>5. Distinct(suiteResults)'
    <3>1. \A i \in 1..n : suiteResults[i].name # s
      BY <1>1, <2>1, <2>2 DEF Names
    <3>2. \A i \in 1..(n + 1) : i = n + 1 \/ i \in 1..n
      BY <2>1
    <3> QED
      BY <2>1, <2>2, <2>3, <3>1, <3>2 DEF Distinct
  <2>6. EntryFollows(Last(suiteResults))'
    <3>1. Contract!Reported' = {}
      BY <1>2 DEF Contract!Reported, NothingRun
    <3>2. Last(suiteResults)' = NewEntry(s)
      BY <2>1 DEF Last
    <3>3. /\ NewEntry(s).name = s /\ NewEntry(s).lifecycleErrors = 0
          /\ NewEntry(s).tests = <<>> /\ Len(<<>>) = 0
      BY DEF NewEntry
    <3> QED
      BY <1>2, <3>1, <3>2, <3>3, SuitesFinite DEF EntryFollows
  <2> QED
    BY <2>1, <2>2, <2>4, <2>5, <2>6
<1>13. SumsFollow'
  <2>1. \A c \in CountName : PrintedCount(c)' = PrintedCount(c)
    BY <1>2 DEF PrintedCount, LineSum
  <2>2. ASSUME Wanted, NEW c \in CountName PROVE Whole(suiteResults, c)' = Whole(suiteResults, c)
    <3>1. suiteResults' = Append(suiteResults, NewEntry(s))
      BY <1>4, <2>2
    <3>2. Whole(suiteResults, c)' = Whole(Append(suiteResults, NewEntry(s)), c)
      BY <3>1 DEF Whole, PerSuite
    <3> QED
      BY <1>5, <3>2
  <2> QED
    BY <1>1, <1>3, <2>1, <2>2 DEF Inv, SumsFollow
<1>14. Unwritten'
  BY <1>1, <1>2, <1>3 DEF Inv, Unwritten, worldVars
<1>15. WrittenAgrees' /\ LossIsReported' /\ ConsoleAgrees'
  BY <1>1, <1>2, NotDone
<1> QED
  BY <1>8, <1>9, <1>10, <1>11, <1>12, <1>13, <1>14, <1>15 DEF Inv

(* The last entry is changed, and remains that of its suite.               *)
LEMMA ChangedEntry ==
  ASSUME NEW rs \in Seq(Entry), rs # <<>>, NEW d \in Entry, d.name = Last(rs).name,
         NEW qs, qs = [rs EXCEPT ![Len(rs)] = d], Distinct(rs)
  PROVE  /\ qs \in Seq(Entry) /\ Len(qs) = Len(rs) /\ Last(qs) = d
         /\ Names(qs) = Names(rs) /\ Distinct(qs)
<1> DEFINE n == Len(rs)
<1>1. /\ n \in DOMAIN rs /\ DOMAIN qs = DOMAIN rs /\ qs \in Seq(Entry) /\ Len(qs) = n
      /\ qs[n] = d /\ \A i \in (DOMAIN rs) \ {n} : qs[i] = rs[i]
      /\ Last(rs) = rs[n] /\ Last(qs) = d
  BY DEF Last
<1> HIDE DEF n
<1>2. \A i \in DOMAIN rs : qs[i].name = rs[i].name
  BY <1>1
<1> QED
  BY <1>1, <1>2 DEF Names, Distinct, n

(* A suite that reports to a wanted report has its entry at the end.       *)
LEMMA HasEntry ==
  ASSUME Inv, Wanted, open
  PROVE  /\ pc = "report" /\ suiteResults \in Seq(Entry) /\ suiteResults # <<>>
         /\ Last(suiteResults) \in Entry /\ EntryFollows(Last(suiteResults))
         /\ Distinct(suiteResults)
         /\ WithEntry(suiteResults, current) = suiteResults
<1>1. pc = "report" /\ suiteResults \in Seq(Entry) /\ finished \in SUBSET Suite
  BY DEF Inv, Reports, TypeOK
<1>2. /\ Len(suiteResults) = Cardinality(finished) + 1
      /\ EntryFollows(Last(suiteResults)) /\ Distinct(suiteResults)
  BY <1>1 DEF Inv, Follows
<1>3. Len(suiteResults) # 0 /\ suiteResults # <<>>
  <2>1. Cardinality(finished) \in Nat
    BY <1>1, SuitesFinite
  <2> QED
    BY <1>2, <2>1
<1>4. Last(suiteResults) \in Entry
  BY <1>1, <1>3 DEF Last
<1> QED
  BY <1>1, <1>2, <1>3, <1>4 DEF WithEntry, EntryFollows

LEMMA ResultStep ==
  ASSUME Inv, NEW t \in Test, NEW v \in Verdict, OnTestResult(t, v), PrintsResult(v)
  PROVE  Inv'
<1> DEFINE r == [test |-> t, status |-> StatusOf(v)]
           e == Last(suiteResults)
           d == [e EXCEPT !.tests = Append(@, r)]
<1>1. TypeOK /\ ContractTypes
  BY DEF Inv
<1>2. /\ open = TRUE /\ open' = TRUE /\ aborted = FALSE /\ aborted' = FALSE /\ running' = {}
      /\ outcome[t] = "NotRun" /\ outcome' = [outcome EXCEPT ![t] = v] /\ info' = Tally(outcome')
  <2>1. IF v = "Skipped" THEN Contract!OnTestSkipped(t) ELSE Contract!OnTestResult(t, v)
    BY DEF OnTestResult
  <2> QED
    BY <1>1, <2>1, ResultArrives DEF ContractTypes
<1>3. /\ pc = "report" /\ current \in Suite \ finished
      /\ info = Tally(outcome) /\ info = Summed(lines)
  BY <1>2 DEF Inv, Reports
<1>4. /\ UNCHANGED <<outputPath, outputPathIsFixed, reportWritten, writeError>>
      /\ UNCHANGED <<file, report, pc, current, finished, totals, aborts, abortLines, summary>>
      /\ lines' = [lines EXCEPT ![v] = @ + 1] /\ allLines' = [allLines EXCEPT ![v] = @ + 1]
  BY DEF OnTestResult, worldVars, runVars, PrintsResult, LineOf
<1>5. /\ lines \in [Verdict -> Nat] /\ allLines \in [Verdict -> Nat] /\ abortLines \in Nat
      /\ lines' \in [Verdict -> Nat] /\ allLines' \in [Verdict -> Nat]
      /\ info \in [Counter -> Nat]
  BY <1>1, <1>4 DEF ContractTypes
<1>6. /\ outcome' \in [Test -> Outcome] /\ info' \in [Counter -> Nat]
      /\ \A c \in Counter : info'[c] = info[c] + IF c = CounterOf(v) THEN 1 ELSE 0
      /\ t \notin Contract!Reported
      /\ Contract!Reported' = Contract!Reported \cup {t}
      /\ Cardinality(Contract!Reported') = Cardinality(Contract!Reported) + 1
  BY <1>1, <1>2, <1>3, OneMoreResult
<1>7. Wanted' <=> Wanted
  BY <1>4 DEF Wanted
<1>8. ASSUME Wanted
      PROVE  /\ suiteResults \in Seq(Entry) /\ suiteResults # <<>> /\ Distinct(suiteResults)
             /\ EntryFollows(e) /\ e \in Entry /\ d \in Entry /\ d.name = e.name
             /\ d.lifecycleErrors = e.lifecycleErrors /\ d.tests = Append(e.tests, r)
             /\ r \in [test : Test, status : Status]
             /\ suiteResults' = [suiteResults EXCEPT ![Len(suiteResults)] = d]
  <2>1. /\ suiteResults \in Seq(Entry) /\ suiteResults # <<>> /\ Distinct(suiteResults)
        /\ EntryFollows(e) /\ e \in Entry
        /\ WithEntry(suiteResults, current) = suiteResults
    BY <1>2, <1>8, HasEntry
  <2>2. r \in [test : Test, status : Status]
    BY DEF StatusOf, Status, Verdict
  <2>3. /\ d \in Entry /\ d.name = e.name
        /\ d.lifecycleErrors = e.lifecycleErrors /\ d.tests = Append(e.tests, r)
    <3> HIDE DEF e, r
    <3>1. e.tests \in Seq([test : Test, status : Status])
      BY <2>1 DEF Entry
    <3>2. Append(e.tests, r) \in Seq([test : Test, status : Status])
      BY <2>2, <3>1
    <3> DEFINE more == Append(e.tests, r)
    <3>3. d = [e EXCEPT !.tests = more]
      OBVIOUS
    <3> HIDE DEF more, d
    <3>4. more \in Seq([test : Test, status : Status])
      BY <3>2 DEF more
    <3>5. d \in Entry /\ d.name = e.name
          /\ d.lifecycleErrors = e.lifecycleErrors /\ d.tests = more
      BY <2>1, <3>3, <3>4 DEF Entry
    <3> QED
      BY <3>5 DEF more, d
  <2>4. suiteResults' = [suiteResults EXCEPT ![Len(suiteResults)].tests = Append(@, r)]
    BY <1>8, <2>1 DEF OnTestResult, AddResult, Wanted
  <2>5. Len(suiteResults) \in DOMAIN suiteResults /\ e = suiteResults[Len(suiteResults)]
    BY <2>1 DEF Last
  <2>6. suiteResults' = [suiteResults EXCEPT ![Len(suiteResults)] = d]
    BY <2>4, <2>5
  <2> QED
    BY <2>1, <2>2, <2>3, <2>6
<1>9. ~Wanted => suiteResults' = suiteResults
  BY DEF OnTestResult, Wanted
<1> HIDE DEF e, d
<1>10. ASSUME Wanted
       PROVE  /\ suiteResults' \in Seq(Entry) /\ Len(suiteResults') = Len(suiteResults)
              /\ Last(suiteResults)' = d /\ Names(suiteResults)' = Names(suiteResults)
              /\ Distinct(suiteResults)'
  <2>1. d.name = Last(suiteResults).name
    BY <1>8, <1>10 DEF e
  <2>2. /\ suiteResults' \in Seq(Entry) /\ Len(suiteResults') = Len(suiteResults)
        /\ Last(suiteResults') = d /\ Names(suiteResults') = Names(suiteResults)
        /\ Distinct(suiteResults')
    BY <1>8, <1>10, <2>1, ChangedEntry
  <2> QED
    BY <2>2 DEF Last, Names, Distinct
<1>11. TypeOK'
  <2>1. suiteResults' \in Seq(Entry) /\ Len(suiteResults') <= Cardinality(Suite)
    BY <1>1, <1>9, <1>10 DEF TypeOK
  <2> QED
    BY <1>1, <1>4, <2>1 DEF TypeOK
<1>12. ContractTypes'
  BY <1>1, <1>2, <1>4, <1>5, <1>6 DEF ContractTypes
<1>13. ASSUME NEW c \in Counter
       PROVE  /\ Summed(lines)'[c] = Summed(lines)[c] + IF c = CounterOf(v) THEN 1 ELSE 0
              /\ Summed(allLines)'[c] = Summed(allLines)[c] + IF c = CounterOf(v) THEN 1 ELSE 0
  <2>1. Summed(lines')[c] = Summed(lines)[c] + IF c = CounterOf(v) THEN 1 ELSE 0
    <3>1. lines \in [Verdict -> Nat]
      BY <1>5
    <3>2. Summed([lines EXCEPT ![v] = @ + 1])[c]
             = Summed(lines)[c] + IF c = CounterOf(v) THEN 1 ELSE 0
      BY <3>1, SummedLines
    <3> QED
      BY <1>4, <3>2
  <2>2. Summed(allLines')[c] = Summed(allLines)[c] + IF c = CounterOf(v) THEN 1 ELSE 0
    <3>1. allLines \in [Verdict -> Nat]
      BY <1>5
    <3>2. Summed([allLines EXCEPT ![v] = @ + 1])[c]
             = Summed(allLines)[c] + IF c = CounterOf(v) THEN 1 ELSE 0
      BY <3>1, SummedLines
    <3> QED
      BY <1>4, <3>2
  <2> QED
    BY <2>1, <2>2 DEF Summed
<1>14. Reports'
  <2>1. info' \in [Counter -> Nat] /\ Summed(lines)' \in [Counter -> Nat]
    <3>1. Summed(lines') \in [Counter -> Nat]
      BY <1>5, SummedType
    <3> QED
      BY <1>6, <3>1 DEF Summed
  <2>2. \A c \in Counter : info'[c] = Summed(lines)'[c]
    BY <1>3, <1>6, <1>13
  <2>3. info' = Summed(lines)'
    BY <2>1, <2>2
  <2>4. Tally(outcome)' = Tally(outcome')
    BY DEF Tally, Counted
  <2> QED
    BY <1>2, <1>3, <1>4, <2>3, <2>4 DEF Reports
<1>15. Printed'
  <2>1. ASSUME NEW c \in Counter PROVE Summed(allLines)'[c] = totals'[c] + info'[c]
    <3>1. Summed(allLines)[c] = totals[c] + info[c]
      BY <1>2, <1>3 DEF Inv, Printed
    <3>2. totals[c] \in Nat /\ info[c] \in Nat /\ totals'[c] = totals[c]
      BY <1>1, <1>4, <1>5 DEF TypeOK
    <3> DEFINE one == IF c = CounterOf(v) THEN 1 ELSE 0
    <3>3. info'[c] = info[c] + one /\ Summed(allLines)'[c] = Summed(allLines)[c] + one
      BY <1>6, <1>13
    <3>4. one \in Nat
      OBVIOUS
    <3> HIDE DEF one
    <3> QED
      BY <3>1, <3>2, <3>3, <3>4
  <2>2. abortLines' = aborts'
    BY <1>3, <1>4 DEF Inv, Printed
  <2> QED
    BY <1>2, <2>1, <2>2, Zenon DEF Printed
<1>16. Follows'
  <2> SUFFICES ASSUME Wanted PROVE Follows'
    BY <1>7 DEF Follows
  <2>1. /\ Names(suiteResults) = finished \cup IF open THEN {current} ELSE {}
        /\ Len(suiteResults) = Cardinality(finished) + IF open THEN 1 ELSE 0
    BY <1>3 DEF Inv, Follows
  <2>2. EntryFollows(Last(suiteResults))'
    <3>1. /\ e.name = current /\ e.lifecycleErrors = 0 /\ e \in Entry
          /\ Len(e.tests) = Cardinality(Contract!Reported)
          /\ \A u \in Contract!Reported : \E i \in DOMAIN e.tests :
                e.tests[i] = [test |-> u, status |-> StatusOf(outcome[u])]
      BY <1>2, <1>8 DEF EntryFollows
    <3>2. /\ d.name = e.name /\ d.lifecycleErrors = e.lifecycleErrors
          /\ d.tests = Append(e.tests, r) /\ e.tests \in Seq([test : Test, status : Status])
          /\ r \in [test : Test, status : Status]
      BY <1>8 DEF Entry
    <3>3. \A u \in Contract!Reported : outcome'[u] = outcome[u]
      BY <1>1, <1>2, <1>6, SameVocabulary DEF ContractTypes
    <3>4. outcome'[t] = v
      BY <1>1, <1>2 DEF ContractTypes
    <3> DEFINE n == Len(e.tests)
    <3>5. /\ Len(d.tests) = n + 1 /\ n \in Nat /\ n + 1 \in DOMAIN d.tests /\ d.tests[n + 1] = r
          /\ \A i \in DOMAIN e.tests : i \in DOMAIN d.tests /\ d.tests[i] = e.tests[i]
      <4> HIDE DEF r
      <4> QED
        BY <3>2
    <3>6. \A u \in Contract!Reported : \E i \in DOMAIN d.tests :
             d.tests[i] = [test |-> u, status |-> StatusOf(outcome'[u])]
      BY <3>1, <3>3, <3>5, Zenon
    <3>7. \E i \in DOMAIN d.tests : d.tests[i] = [test |-> t, status |-> StatusOf(outcome'[t])]
      BY <3>4, <3>5, Zenon DEF r
    <3>8. \A u \in Contract!Reported' : \E i \in DOMAIN d.tests :
             d.tests[i] = [test |-> u, status |-> StatusOf(outcome'[u])]
      <4>1. \A u \in Contract!Reported' : u \in Contract!Reported \/ u = t
        BY <1>6
      <4> QED
        BY <3>6, <3>7, <4>1, Zenon
    <3>9. Len(d.tests) = Cardinality(Contract!Reported')
      BY <1>6, <3>1, <3>5
    <3>10. d.name = current' /\ d.lifecycleErrors = 0
      BY <1>4, <3>1, <3>2
    <3> DEFINE Told(x) == /\ x.name = current'
                          /\ x.lifecycleErrors = IF aborted' THEN 1 ELSE 0
                          /\ Len(x.tests) = Cardinality(Contract!Reported')
                          /\ \A u \in Contract!Reported' : \E i \in DOMAIN x.tests :
                                x.tests[i] = [test |-> u, status |-> StatusOf(outcome'[u])]
    <3>11. Told(d)
      BY <1>2, <3>8, <3>9, <3>10
    <3>12. Told(Last(suiteResults)')
      <4> HIDE DEF Told
      <4> QED
        BY <1>10, <3>11
    <3> QED
      BY <3>12 DEF EntryFollows
  <2> QED
    BY <1>2, <1>4, <1>10, <2>1, <2>2 DEF Follows
<1>17. SumsFollow'
  <2> SUFFICES ASSUME Wanted, NEW c \in CountName PROVE Whole(suiteResults, c)' = PrintedCount(c)'
    BY <1>7 DEF SumsFollow
  <2>1. Whole(suiteResults, c) = PrintedCount(c)
    BY <1>3 DEF Inv, SumsFollow
  <2> DEFINE more == IF \/ c = "tests"
                        \/ c = "failures" /\ v = "Failed"
                        \/ c = "errors" /\ v = "LifecycleError"
                        \/ c = "skipped" /\ v = "Skipped"
                     THEN 1 ELSE 0
  <2>2. SuiteCounts(d)[c] = SuiteCounts(e)[c] + more /\ SuiteCounts(e)[c] \in Nat
    <3>1. \A s : Having(d, s) = Having(e, s) + IF r.status = s THEN 1 ELSE 0
      <4> HIDE DEF r
      <4> QED
        BY <1>8, HavingOneMore
    <3>2. /\ Having(e, "Failed") \in Nat /\ Having(e, "Error") \in Nat
          /\ Having(e, "Skipped") \in Nat /\ e.lifecycleErrors \in Nat /\ Len(e.tests) \in Nat
      <4>1. e \in Entry
        BY <1>8
      <4>2. \A s : Having(e, s) \in Nat
        BY <4>1, HavingType
      <4> QED
        BY <4>1, <4>2 DEF Entry
    <3>3. Len(d.tests) = Len(e.tests) + 1 /\ d.lifecycleErrors = e.lifecycleErrors
      <4>1. e.tests \in Seq([test : Test, status : Status])
        BY <1>8 DEF Entry
      <4> QED
        BY <1>8, <4>1
    <3>4. /\ (r.status = "Failed" <=> v = "Failed") /\ (r.status = "Skipped" <=> v = "Skipped")
          /\ (r.status = "Error" <=> v = "LifecycleError")
      BY DEF StatusOf, Verdict
    <3>5. /\ Having(d, "Failed") = Having(e, "Failed") + IF v = "Failed" THEN 1 ELSE 0
          /\ Having(d, "Skipped") = Having(e, "Skipped") + IF v = "Skipped" THEN 1 ELSE 0
          /\ Having(d, "Error") = Having(e, "Error") + IF v = "LifecycleError" THEN 1 ELSE 0
      <4> HIDE DEF r
      <4> QED
        BY <3>1, <3>4
    <3> DEFINE a == Len(e.tests)
               b == e.lifecycleErrors
    <3>6. CASE c = "tests"
      <4>1. SuiteCounts(d)[c] = Len(d.tests) + d.lifecycleErrors /\ SuiteCounts(e)[c] = a + b
        BY <3>6 DEF SuiteCounts
      <4>2. more = 1
        BY <3>6
      <4>3. a \in Nat /\ b \in Nat /\ Len(d.tests) = a + 1 /\ d.lifecycleErrors = b
        BY <3>2, <3>3
      <4> HIDE DEF a, b
      <4>4. (a + 1) + b = (a + b) + 1 /\ a + b \in Nat
        BY <4>3
      <4> HIDE DEF more
      <4> QED
        BY <4>1, <4>2, <4>3, <4>4
    <3>7. CASE c = "failures"
      <4>1. SuiteCounts(d)[c] = Having(d, "Failed") /\ SuiteCounts(e)[c] = Having(e, "Failed")
        BY <3>7 DEF SuiteCounts
      <4>2. more = IF v = "Failed" THEN 1 ELSE 0
        BY <3>7
      <4> QED
        BY <3>2, <3>5, <4>1, <4>2
    <3>8. CASE c = "errors"
      <4>1. /\ SuiteCounts(d)[c] = Having(d, "Error") + d.lifecycleErrors
            /\ SuiteCounts(e)[c] = Having(e, "Error") + b
        BY <3>8 DEF SuiteCounts
      <4>2. more = IF v = "LifecycleError" THEN 1 ELSE 0
        BY <3>8
      <4>3. more \in Nat /\ Having(d, "Error") = Having(e, "Error") + more
        BY <3>5, <4>2
      <4> DEFINE f == Having(e, "Error")
      <4>4. f \in Nat /\ b \in Nat /\ d.lifecycleErrors = b /\ Having(d, "Error") = f + more
        BY <3>2, <3>3, <4>3
      <4> HIDE DEF more, f, b
      <4>5. (f + more) + b = (f + b) + more /\ f + b \in Nat
        BY <4>3, <4>4
      <4> QED
        BY <4>1, <4>4, <4>5 DEF f
    <3>9. CASE c = "skipped"
      <4>1. SuiteCounts(d)[c] = Having(d, "Skipped") /\ SuiteCounts(e)[c] = Having(e, "Skipped")
        BY <3>9 DEF SuiteCounts
      <4>2. more = IF v = "Skipped" THEN 1 ELSE 0
        BY <3>9
      <4> QED
        BY <3>2, <3>5, <4>1, <4>2
    <3> HIDE DEF more, r
    <3> QED
      BY <3>6, <3>7, <3>8, <3>9 DEF CountName
  <2>3. Whole(suiteResults, c)' = Whole(suiteResults, c) - SuiteCounts(e)[c] + SuiteCounts(d)[c]
    <3>1. Whole(suiteResults', c) = Whole(suiteResults, c) - SuiteCounts(Last(suiteResults))[c]
                                      + SuiteCounts(d)[c]
      BY <1>8, LastEntryCounts
    <3> QED
      BY <3>1 DEF Whole, PerSuite, e
  <2>4. PrintedCount(c)' = PrintedCount(c) + more /\ PrintedCount(c) \in Nat
    <3>1. \A w \in Verdict : allLines'[w] = allLines[w] + (IF w = v THEN 1 ELSE 0)
                               /\ allLines[w] \in Nat
      BY <1>4, <1>5
    <3>2. /\ allLines["Passed"] \in Nat /\ allLines["Failed"] \in Nat
          /\ allLines["Skipped"] \in Nat /\ allLines["LifecycleError"] \in Nat
          /\ abortLines \in Nat /\ abortLines' = abortLines
      BY <1>4, <1>5, <3>1 DEF Verdict
    <3>3. /\ allLines'["Passed"] = allLines["Passed"] + IF v = "Passed" THEN 1 ELSE 0
          /\ allLines'["Failed"] = allLines["Failed"] + IF v = "Failed" THEN 1 ELSE 0
          /\ allLines'["Skipped"] = allLines["Skipped"] + IF v = "Skipped" THEN 1 ELSE 0
          /\ allLines'["LifecycleError"]
                = allLines["LifecycleError"] + IF v = "LifecycleError" THEN 1 ELSE 0
      BY <3>1 DEF Verdict
    <3>4. CASE c = "tests"
      <4>1. PrintedCount(c)' = (abortLines + LineSum)' /\ PrintedCount(c) = abortLines + LineSum
        BY <3>4 DEF PrintedCount
      <4>2. LineSum' = LineSum + 1 /\ LineSum \in Nat
        BY <3>2, <3>3 DEF LineSum, Verdict
      <4> QED
        BY <3>2, <3>4, <4>1, <4>2
    <3>5. CASE c = "failures"
      <4>1. PrintedCount(c)' = allLines'["Failed"] /\ PrintedCount(c) = allLines["Failed"]
        BY <3>5 DEF PrintedCount
      <4> QED
        BY <3>2, <3>3, <3>5, <4>1
    <3>6. CASE c = "errors"
      <4>1. /\ PrintedCount(c)' = abortLines' + allLines'["LifecycleError"]
            /\ PrintedCount(c) = abortLines + allLines["LifecycleError"]
        BY <3>6 DEF PrintedCount
      <4> QED
        BY <3>2, <3>3, <3>6, <4>1
    <3>7. CASE c = "skipped"
      <4>1. PrintedCount(c)' = allLines'["Skipped"] /\ PrintedCount(c) = allLines["Skipped"]
        BY <3>7 DEF PrintedCount
      <4> QED
        BY <3>2, <3>3, <3>7, <4>1
    <3> HIDE DEF more
    <3> QED
      BY <3>4, <3>5, <3>6, <3>7 DEF CountName
  <2> HIDE DEF more
  <2>5. more \in Nat
    BY DEF more
  <2> QED
    BY <2>1, <2>2, <2>3, <2>4, <2>5
<1>18. Unwritten'
  BY <1>3, <1>4, <1>7 DEF Inv, Unwritten
<1>19. WrittenAgrees' /\ LossIsReported' /\ ConsoleAgrees'
  BY <1>2, <1>3, <1>4, NotDone
<1> QED
  BY <1>11, <1>12, <1>14, <1>15, <1>16, <1>17, <1>18, <1>19 DEF Inv

LEMMA AbortStep ==
  ASSUME Inv, OnSuiteAbort, PrintsAbort
  PROVE  Inv'
<1> DEFINE e == Last(suiteResults)
           d == [e EXCEPT !.lifecycleErrors = @ + 1]
<1>1. TypeOK /\ ContractTypes
  BY DEF Inv
<1>2. /\ open = TRUE /\ open' = TRUE /\ aborted = FALSE /\ aborted' = TRUE
      /\ UNCHANGED <<running, outcome, info>>
  BY <1>1 DEF OnSuiteAbort, Contract!OnSuiteAbort, ContractTypes
<1>3. /\ pc = "report" /\ current \in Suite \ finished
      /\ info = Tally(outcome) /\ info = Summed(lines)
  BY <1>2 DEF Inv, Reports
<1>4. /\ UNCHANGED <<outputPath, outputPathIsFixed, reportWritten, writeError>>
      /\ UNCHANGED <<file, report, pc, current, finished, totals, lines, allLines, summary>>
      /\ aborts' = aborts + 1 /\ abortLines' = abortLines + 1
  BY DEF OnSuiteAbort, worldVars, PrintsAbort
<1>5. aborts \in Nat /\ abortLines \in Nat
  BY <1>1 DEF TypeOK, ContractTypes
<1>6. Contract!Reported' = Contract!Reported
  BY <1>2 DEF Contract!Reported
<1>7. Wanted' <=> Wanted
  BY <1>4 DEF Wanted
<1>8. ASSUME Wanted
      PROVE  /\ suiteResults \in Seq(Entry) /\ suiteResults # <<>> /\ Distinct(suiteResults)
             /\ EntryFollows(e) /\ e \in Entry /\ d \in Entry /\ d.name = e.name
             /\ d.lifecycleErrors = e.lifecycleErrors + 1 /\ d.tests = e.tests
             /\ suiteResults' = [suiteResults EXCEPT ![Len(suiteResults)] = d]
  <2>1. /\ suiteResults \in Seq(Entry) /\ suiteResults # <<>> /\ Distinct(suiteResults)
        /\ EntryFollows(e) /\ e \in Entry
        /\ WithEntry(suiteResults, current) = suiteResults
    BY <1>2, <1>8, HasEntry
  <2>2. /\ d \in Entry /\ d.name = e.name
        /\ d.lifecycleErrors = e.lifecycleErrors + 1 /\ d.tests = e.tests
    <3> DEFINE more == e.lifecycleErrors + 1
    <3>1. more \in Nat
      BY <2>1 DEF Entry
    <3>2. d = [e EXCEPT !.lifecycleErrors = more]
      OBVIOUS
    <3> HIDE DEF e, d, more
    <3>3. /\ d \in Entry /\ d.name = e.name
          /\ d.lifecycleErrors = more /\ d.tests = e.tests
      BY <2>1, <3>1, <3>2 DEF Entry
    <3> QED
      BY <3>3 DEF more
  <2>3. suiteResults' = [suiteResults EXCEPT ![Len(suiteResults)].lifecycleErrors = @ + 1]
    BY <1>8, <2>1 DEF OnSuiteAbort, AddError, Wanted
  <2>4. Len(suiteResults) \in DOMAIN suiteResults /\ e = suiteResults[Len(suiteResults)]
    BY <2>1 DEF Last
  <2>5. suiteResults' = [suiteResults EXCEPT ![Len(suiteResults)] = d]
    BY <2>3, <2>4
  <2> QED
    BY <2>1, <2>2, <2>5
<1>9. ~Wanted => suiteResults' = suiteResults
  BY DEF OnSuiteAbort, Wanted
<1> HIDE DEF e, d
<1>10. ASSUME Wanted
       PROVE  /\ suiteResults' \in Seq(Entry) /\ Len(suiteResults') = Len(suiteResults)
              /\ Last(suiteResults)' = d /\ Names(suiteResults)' = Names(suiteResults)
              /\ Distinct(suiteResults)'
  <2>1. d.name = Last(suiteResults).name
    BY <1>8, <1>10 DEF e
  <2>2. /\ suiteResults' \in Seq(Entry) /\ Len(suiteResults') = Len(suiteResults)
        /\ Last(suiteResults') = d /\ Names(suiteResults') = Names(suiteResults)
        /\ Distinct(suiteResults')
    BY <1>8, <1>10, <2>1, ChangedEntry
  <2> QED
    BY <2>2 DEF Last, Names, Distinct
<1>11. TypeOK'
  <2>1. suiteResults' \in Seq(Entry) /\ Len(suiteResults') <= Cardinality(Suite)
    BY <1>1, <1>9, <1>10 DEF TypeOK
  <2> QED
    BY <1>1, <1>4, <2>1 DEF TypeOK
<1>12. ContractTypes'
  BY <1>1, <1>2, <1>4 DEF ContractTypes
<1>13. Reports'
  <2>1. Tally(outcome)' = Tally(outcome) /\ Summed(lines)' = Summed(lines)
    BY <1>2, <1>4 DEF Tally, Counted, Summed
  <2> QED
    BY <1>2, <1>3, <1>4, <2>1 DEF Reports
<1>14. Printed'
  <2>1. Summed(allLines)' = Summed(allLines)
    BY <1>4 DEF Summed
  <2> QED
    BY <1>2, <1>3, <1>4, <2>1 DEF Inv, Printed
<1>15. Follows'
  <2> SUFFICES ASSUME Wanted PROVE Follows'
    BY <1>7 DEF Follows
  <2>1. /\ Names(suiteResults) = finished \cup IF open THEN {current} ELSE {}
        /\ Len(suiteResults) = Cardinality(finished) + IF open THEN 1 ELSE 0
    BY <1>3 DEF Inv, Follows
  <2> DEFINE Told(x) == /\ x.name = current'
                        /\ x.lifecycleErrors = IF aborted' THEN 1 ELSE 0
                        /\ Len(x.tests) = Cardinality(Contract!Reported')
                        /\ \A u \in Contract!Reported' : \E i \in DOMAIN x.tests :
                              x.tests[i] = [test |-> u, status |-> StatusOf(outcome'[u])]
  <2>2. Told(d)
    <3>1. /\ e.name = current /\ e.lifecycleErrors = 0
          /\ Len(e.tests) = Cardinality(Contract!Reported)
          /\ \A u \in Contract!Reported : \E i \in DOMAIN e.tests :
                e.tests[i] = [test |-> u, status |-> StatusOf(outcome[u])]
      BY <1>2, <1>8 DEF EntryFollows
    <3>2. d.name = e.name /\ d.lifecycleErrors = e.lifecycleErrors + 1 /\ d.tests = e.tests
      BY <1>8
    <3> QED
      BY <1>2, <1>4, <1>6, <3>1, <3>2
  <2>3. Told(Last(suiteResults)')
    <3> HIDE DEF Told
    <3> QED
      BY <1>10, <2>2
  <2>4. EntryFollows(Last(suiteResults))'
    BY <2>3 DEF EntryFollows
  <2> QED
    BY <1>2, <1>4, <1>10, <2>1, <2>4 DEF Follows
<1>16. SumsFollow'
  <2> SUFFICES ASSUME Wanted, NEW c \in CountName PROVE Whole(suiteResults, c)' = PrintedCount(c)'
    BY <1>7 DEF SumsFollow
  <2>1. Whole(suiteResults, c) = PrintedCount(c)
    BY <1>3 DEF Inv, SumsFollow
  <2> DEFINE more == IF c \in {"tests", "errors"} THEN 1 ELSE 0
  <2>2. SuiteCounts(d)[c] = SuiteCounts(e)[c] + more /\ SuiteCounts(e)[c] \in Nat
    <3>1. e \in Entry /\ d.tests = e.tests /\ d.lifecycleErrors = e.lifecycleErrors + 1
      BY <1>8
    <3>2. \A s : Having(d, s) = Having(e, s) /\ Having(e, s) \in Nat
      <4>1. \A s : Having(e, s) \in Nat
        BY <3>1, HavingType
      <4> QED
        BY <3>1, <4>1 DEF Having
    <3>3. e.lifecycleErrors \in Nat /\ Len(e.tests) \in Nat
      BY <3>1 DEF Entry
    <3>4. CASE c = "tests"
      <4>1. /\ SuiteCounts(d)[c] = Len(d.tests) + d.lifecycleErrors
            /\ SuiteCounts(e)[c] = Len(e.tests) + e.lifecycleErrors
        BY <3>4 DEF SuiteCounts
      <4> QED
        BY <3>1, <3>3, <3>4, <4>1
    <3>5. CASE c = "failures"
      BY <3>2, <3>5 DEF SuiteCounts
    <3>6. CASE c = "errors"
      <4>1. /\ SuiteCounts(d)[c] = Having(d, "Error") + d.lifecycleErrors
            /\ SuiteCounts(e)[c] = Having(e, "Error") + e.lifecycleErrors
        BY <3>6 DEF SuiteCounts
      <4> QED
        BY <3>1, <3>2, <3>3, <3>6, <4>1
    <3>7. CASE c = "skipped"
      BY <3>2, <3>7 DEF SuiteCounts
    <3> QED
      BY <3>4, <3>5, <3>6, <3>7 DEF CountName
  <2>3. Whole(suiteResults, c)' = Whole(suiteResults, c) - SuiteCounts(e)[c] + SuiteCounts(d)[c]
    <3>1. Whole(suiteResults', c) = Whole(suiteResults, c) - SuiteCounts(Last(suiteResults))[c]
                                      + SuiteCounts(d)[c]
      BY <1>8, LastEntryCounts
    <3> QED
      BY <3>1 DEF Whole, PerSuite, e
  <2>4. PrintedCount(c)' = PrintedCount(c) + more /\ PrintedCount(c) \in Nat
    <3>1. /\ allLines["Passed"] \in Nat /\ allLines["Failed"] \in Nat
          /\ allLines["Skipped"] \in Nat /\ allLines["LifecycleError"] \in Nat
      BY <1>1 DEF ContractTypes, Verdict
    <3>2. LineSum' = LineSum /\ LineSum \in Nat
      BY <1>4, <3>1 DEF LineSum
    <3>3. allLines' = allLines /\ abortLines' = abortLines + 1
      BY <1>4
    <3>4. CASE c = "tests"
      <4>1. PrintedCount(c)' = (abortLines + LineSum)' /\ PrintedCount(c) = abortLines + LineSum
        BY <3>4 DEF PrintedCount
      <4> QED
        BY <1>5, <3>2, <3>3, <3>4, <4>1
    <3>5. CASE c = "failures"
      BY <3>1, <3>3, <3>5 DEF PrintedCount
    <3>6. CASE c = "errors"
      <4>1. /\ PrintedCount(c)' = abortLines' + allLines'["LifecycleError"]
            /\ PrintedCount(c) = abortLines + allLines["LifecycleError"]
        BY <3>6 DEF PrintedCount
      <4> QED
        BY <1>5, <3>1, <3>3, <3>6, <4>1
    <3>7. CASE c = "skipped"
      BY <3>1, <3>3, <3>7 DEF PrintedCount
    <3> QED
      BY <3>4, <3>5, <3>6, <3>7 DEF CountName
  <2> HIDE DEF more
  <2>5. more \in Nat
    BY DEF more
  <2> QED
    BY <2>1, <2>2, <2>3, <2>4, <2>5
<1>17. Unwritten'
  BY <1>3, <1>4, <1>7 DEF Inv, Unwritten
<1>18. WrittenAgrees' /\ LossIsReported' /\ ConsoleAgrees'
  BY <1>2, <1>3, <1>4, NotDone
<1> QED
  BY <1>11, <1>12, <1>13, <1>14, <1>15, <1>16, <1>17, <1>18 DEF Inv

LEMMA SuiteEndStep ==
  ASSUME Inv, OnSuiteEnd, PrintsSummary(info)
  PROVE  Inv'
<1>1. TypeOK /\ ContractTypes
  BY DEF Inv
<1>2. open = TRUE /\ open' = FALSE /\ UNCHANGED <<aborted, running, outcome, info>>
  BY <1>1 DEF OnSuiteEnd, Contract!OnSuiteEnd, ContractTypes
<1>3. /\ pc = "report" /\ current \in Suite \ finished /\ finished \in SUBSET Suite
      /\ info = Summed(lines)
  BY <1>1, <1>2 DEF Inv, Reports, TypeOK
<1>4. /\ UNCHANGED <<outputPath, outputPathIsFixed, suiteResults, reportWritten, writeError>>
      /\ UNCHANGED <<file, report, pc, current, aborts, lines, allLines, abortLines>>
      /\ finished' = finished \cup {current} /\ summary' = info
      /\ totals' = [c \in Counter |-> totals[c] + info[c]]
  BY DEF OnSuiteEnd, worldVars, reporterVars, PrintsSummary
<1>5. \A c \in Counter : totals[c] \in Nat /\ info[c] \in Nat
  BY <1>1 DEF TypeOK, ContractTypes
<1>6. Wanted' <=> Wanted
  BY <1>4 DEF Wanted
<1>7. TypeOK'
  <2>1. totals' \in [Counter -> Nat]
    BY <1>4, <1>5
  <2> QED
    BY <1>1, <1>3, <1>4, <2>1 DEF TypeOK
<1>8. ContractTypes'
  BY <1>1, <1>2, <1>4 DEF ContractTypes
<1>9. Reports' /\ Unwritten'
  BY <1>2, <1>4, <1>6 DEF Inv, Reports, Unwritten
<1>10. Printed'
  <2>1. ASSUME NEW c \in Counter PROVE Summed(allLines)'[c] = totals'[c] + 0
    <3>1. Summed(allLines)[c] = totals[c] + info[c]
      BY <1>2, <1>3 DEF Inv, Printed
    <3>2. Summed(allLines)' = Summed(allLines)
      BY <1>4 DEF Summed
    <3> QED
      BY <1>4, <1>5, <3>1, <3>2
  <2>2. abortLines' = aborts'
    BY <1>3, <1>4 DEF Inv, Printed
  <2> QED
    BY <1>2, <2>1, <2>2 DEF Printed
<1>11. Follows'
  <2> SUFFICES ASSUME Wanted
               PROVE  /\ Names(suiteResults)' = finished'
                      /\ Distinct(suiteResults)'
                      /\ Len(suiteResults)' = Cardinality(finished')
    <3>1. Cardinality(finished') \in Nat
      BY <1>3, <1>4, SuitesFinite
    <3> QED
      BY <1>2, <1>6, <3>1 DEF Follows
  <2>1. /\ Names(suiteResults) = finished \cup {current} /\ Distinct(suiteResults)
        /\ Len(suiteResults) = Cardinality(finished) + 1
    BY <1>2, <1>3 DEF Inv, Follows
  <2>2. Cardinality(finished \cup {current}) = Cardinality(finished) + 1
    BY <1>3, SuitesFinite
  <2> QED
    BY <1>4, <2>1, <2>2 DEF Names, Distinct
<1>12. SumsFollow'
  <2>1. \A c \in CountName : PrintedCount(c)' = PrintedCount(c)
                             /\ Whole(suiteResults, c)' = Whole(suiteResults, c)
    BY <1>4 DEF PrintedCount, LineSum, Whole, PerSuite
  <2> QED
    BY <1>3, <1>6, <2>1 DEF Inv, SumsFollow
<1>13. WrittenAgrees' /\ LossIsReported' /\ ConsoleAgrees'
  <2>1. Summed(lines)' = Summed(lines)
    BY <1>4 DEF Summed
  <2> QED
    BY <1>3, <1>4, <2>1, NotDone
<1> QED
  BY <1>7, <1>8, <1>9, <1>10, <1>11, <1>12, <1>13 DEF Inv

(* The report that is written is what the reporter holds.                  *)
LEMMA ReportWritten ==
  ASSUME NEW rs \in Seq(Entry), NEW r, r = ReportOf(rs)
  PROVE  /\ r \in [whole : Counts, suites : Seq(Counts)]
         /\ r.whole = WholeCounts(rs) /\ Len(r.suites) = Len(rs)
         /\ \A c \in CountName : r.whole[c] = Whole(rs, c) /\ SuitesSum(r, c) = Whole(rs, c)
<1> DEFINE n == Len(rs)
           shown == [i \in DOMAIN rs |-> SuiteCounts(rs[i])]
<1>1. n \in Nat /\ DOMAIN rs = 1..n /\ \A i \in 1..n : SuiteCounts(rs[i]) \in Counts
  BY EntriesFinite, SuiteCountsType
<1>2. shown \in Seq(Counts) /\ Len(shown) = n
  <2>1. shown = [i \in 1..n |-> SuiteCounts(rs[i])]
    BY <1>1
  <2> HIDE DEF n, shown
  <2> QED
    BY <1>1, <2>1
<1>3. r.whole = WholeCounts(rs) /\ r.suites = shown
  BY DEF ReportOf
<1>4. WholeCounts(rs) \in Counts
  BY WholeIsSum
<1>5. ASSUME NEW c \in CountName
      PROVE  r.whole[c] = Whole(rs, c) /\ SuitesSum(r, c) = Whole(rs, c)
  <2>1. r.whole[c] = Whole(rs, c)
    BY <1>3, WholeIsSum
  <2>2. [i \in DOMAIN r.suites |-> r.suites[i][c]] = PerSuite(rs, c) /\ DOMAIN r.suites = DOMAIN rs
    BY <1>3 DEF PerSuite
  <2> QED
    BY <2>1, <2>2 DEF SuitesSum, Whole
<1>6. r = [whole |-> WholeCounts(rs), suites |-> shown]
  BY DEF ReportOf
<1> QED
  <2> HIDE DEF shown, n
  <2>1. r \in [whole : Counts, suites : Seq(Counts)]
    BY <1>2, <1>4, <1>6
  <2>2. Len(r.suites) = Len(rs)
    BY <1>2, <1>3 DEF n
  <2> QED
    BY <1>3, <1>5, <2>1, <2>2

LEMMA FinalReportStep ==
  ASSUME Inv, NEW result \in Outcomes, OnFinalReport(result), PrintsSummary(totals)
  PROVE  Inv'
<1>1. /\ TypeOK /\ ContractTypes /\ pc = "report" /\ pc' = "done" /\ open = FALSE
  BY DEF Inv, OnFinalReport, ContractTypes
<1>2. /\ UNCHANGED <<outputPath, outputPathIsFixed, suiteResults>>
      /\ UNCHANGED <<open, aborted, running, outcome, info, current, finished, totals, aborts>>
      /\ UNCHANGED <<lines, allLines, abortLines>> /\ summary' = totals
  BY DEF OnFinalReport, suiteVars, PrintsSummary
<1>3. Wanted' <=> Wanted
  BY <1>2 DEF Wanted
<1>4. ~Wanted => UNCHANGED <<file, report, writeError, reportWritten>>
  BY DEF OnFinalReport, Wanted
<1>5. Wanted => WriteReport(result) /\ outputPath \in Path
  BY <1>1 DEF OnFinalReport, Wanted, TypeOK
<1>6. /\ suiteResults \in Seq(Entry) /\ file \in [Path -> {"absent", "earlier", "partial", "current"}]
      /\ allLines \in [Verdict -> Nat] /\ totals \in [Counter -> Nat] /\ aborts \in Nat
  BY <1>1 DEF TypeOK, ContractTypes
<1>7. /\ reportWritten = FALSE /\ writeError = FALSE
      /\ \A p \in Path : file[p] \in {"absent", "earlier"}
  BY <1>1 DEF Inv, Unwritten, TypeOK
<1>8. ASSUME NEW r, r = ReportOf(suiteResults)
      PROVE  /\ r \in [whole : Counts, suites : Seq(Counts)]
             /\ r.whole = WholeCounts(suiteResults) /\ Len(r.suites) = Len(suiteResults)
             /\ \A c \in CountName : r.whole[c] = Whole(suiteResults, c)
                                     /\ SuitesSum(r, c) = Whole(suiteResults, c)
  BY <1>6, <1>8, ReportWritten
<1>9. ASSUME Wanted
      PROVE  /\ reportWritten' = (result = "written") /\ writeError' = (result # "written")
             /\ result = "written" => report' = ReportOf(suiteResults)
             /\ report' = report \/ report' = ReportOf(suiteResults)
             /\ file'[outputPath] = "current" <=> result = "written"
             /\ \A p \in Path \ {outputPath} : file'[p] = file[p]
             /\ file' \in [Path -> {"absent", "earlier", "partial", "current"}]
  <2>1. WriteReport(result) /\ outputPath \in Path
    BY <1>5, <1>9
  <2>2. reportWritten' = (result = "written") /\ writeError' = (result # "written")
    BY <1>7, <2>1 DEF WriteReport, IsError
  <2>3. /\ result = "written" => report' = ReportOf(suiteResults)
        /\ report' = report \/ report' = ReportOf(suiteResults)
    BY <2>1 DEF WriteReport
  <2> DEFINE content == CASE result = "written" -> "current"
                          [] result = "write"   -> "partial"
                          [] OTHER              -> file[outputPath]
  <2>4. file' = [file EXCEPT ![outputPath] = content]
    BY <2>1 DEF WriteReport
  <2>5. /\ content \in {"absent", "earlier", "partial", "current"}
        /\ content = "current" <=> result = "written"
    BY <1>7, <2>1 DEF Outcomes
  <2> HIDE DEF content
  <2>6. /\ file'[outputPath] = content
        /\ \A p \in Path \ {outputPath} : file'[p] = file[p]
        /\ file' \in [Path -> {"absent", "earlier", "partial", "current"}]
    BY <1>6, <2>1, <2>4, <2>5
  <2> QED
    BY <2>2, <2>3, <2>5, <2>6
<1>10. TypeOK'
  <2>1. report' = NoReport \/ report' \in [whole : Counts, suites : Seq(Counts)]
    BY <1>1, <1>4, <1>8, <1>9 DEF TypeOK
  <2>2. reportWritten' \in BOOLEAN /\ writeError' \in BOOLEAN
    BY <1>4, <1>7, <1>9
  <2>3. file' \in [Path -> {"absent", "earlier", "partial", "current"}]
    BY <1>4, <1>6, <1>9
  <2> QED
    BY <1>1, <1>2, <2>1, <2>2, <2>3 DEF TypeOK
<1>11. ContractTypes'
  BY <1>1, <1>2 DEF ContractTypes
<1>12. Reports' /\ Printed' /\ Follows' /\ SumsFollow'
  BY <1>1, <1>2 DEF Reports, Printed, Follows, SumsFollow
<1>13. Unwritten'
  BY <1>1, <1>3, <1>4, <1>7 DEF Unwritten
<1>14. /\ \A c \in Counter : Summed(allLines)[c] = totals[c]
       /\ abortLines = aborts
  BY <1>1, <1>6 DEF Inv, Printed
<1>15. /\ allLines["Passed"] = totals["passed"] /\ allLines["Skipped"] = totals["skipped"]
       /\ allLines["Failed"] + allLines["LifecycleError"] = totals["failed"]
       /\ allLines["Passed"] \in Nat /\ allLines["Failed"] \in Nat
       /\ allLines["Skipped"] \in Nat /\ allLines["LifecycleError"] \in Nat
  BY <1>6, <1>14 DEF Summed, Counter, Verdict
<1>16. ASSUME Wanted, result = "written"
       PROVE  /\ report'.whole.tests = aborts + LineSum
              /\ report'.whole.failures = allLines["Failed"]
              /\ report'.whole.errors = aborts + allLines["LifecycleError"]
              /\ report'.whole.skipped = allLines["Skipped"]
              /\ report'.whole \in Counts
              /\ Len(report'.suites) = Cardinality(finished)
              /\ \A c \in CountName : report'.whole[c] = SuitesSum(report', c)
  <2>1. report' = ReportOf(suiteResults)
    BY <1>9, <1>16
  <2>2. /\ report'.whole = WholeCounts(suiteResults) /\ Len(report'.suites) = Len(suiteResults)
        /\ \A c \in CountName : report'.whole[c] = Whole(suiteResults, c)
                                /\ SuitesSum(report', c) = Whole(suiteResults, c)
    BY <1>8, <2>1
  <2>3. \A c \in CountName : Whole(suiteResults, c) = PrintedCount(c)
    BY <1>1, <1>16 DEF Inv, SumsFollow
  <2>4. /\ PrintedCount("tests") = aborts + LineSum
        /\ PrintedCount("failures") = allLines["Failed"]
        /\ PrintedCount("errors") = aborts + allLines["LifecycleError"]
        /\ PrintedCount("skipped") = allLines["Skipped"]
    BY <1>14 DEF PrintedCount
  <2>5. Len(suiteResults) = Cardinality(finished)
    <3>1. Len(suiteResults) = Cardinality(finished) + 0
      BY <1>1, <1>16 DEF Inv, Follows
    <3>2. Cardinality(finished) \in Nat
      BY <1>1, SuitesFinite DEF TypeOK
    <3> QED
      BY <3>1, <3>2
  <2>6. report'.whole \in Counts
    BY <1>6, <2>2, WholeIsSum
  <2>7. \A c \in CountName : report'.whole[c] = PrintedCount(c)
    BY <2>2, <2>3
  <2> QED
    BY <2>2, <2>4, <2>5, <2>6, <2>7 DEF CountName
<1>17. WrittenAgrees'
  <2> SUFFICES ASSUME Wanted, reportWritten' PROVE WrittenAgrees'
    BY <1>3 DEF WrittenAgrees
  <2>1. result = "written"
    BY <1>9
  <2>2. /\ report'.whole.tests = aborts + LineSum
        /\ report'.whole.failures = allLines["Failed"]
        /\ report'.whole.errors = aborts + allLines["LifecycleError"]
        /\ report'.whole.skipped = allLines["Skipped"]
    BY <1>16, <2>1
  <2>3. report'.whole.failures + report'.whole.errors = totals["failed"] + aborts
    BY <1>6, <1>15, <2>2
  <2>4. report'.whole.tests = totals["passed"] + totals["failed"] + totals["skipped"] + aborts
    <3> DEFINE p == allLines["Passed"]
               f == allLines["Failed"]
               s == allLines["Skipped"]
               l == allLines["LifecycleError"]
    <3>1. p \in Nat /\ f \in Nat /\ s \in Nat /\ l \in Nat /\ aborts \in Nat
      BY <1>6, <1>15
    <3>2. report'.whole.tests = aborts + (p + f + s + l)
      BY <2>2 DEF LineSum
    <3>3. totals["passed"] = p /\ totals["skipped"] = s /\ totals["failed"] = f + l
      BY <1>15
    <3> HIDE DEF p, f, s, l
    <3> QED
      BY <3>1, <3>2, <3>3
  <2>5. /\ Len(report'.suites) = Cardinality(finished)
        /\ \A c \in CountName : report'.whole[c] = SuitesSum(report', c)
    BY <1>16, <2>1
  <2>6. \A c : SuitesSum(report, c)' = SuitesSum(report', c)
    BY DEF SuitesSum
  <2>7. \A c \in CountName : (report.whole[c] = SuitesSum(report, c))'
    BY <2>5, <2>6
  <2> QED
    BY <1>2, <1>15, <2>2, <2>3, <2>4, <2>5, <2>7 DEF WrittenAgrees
<1>18. LossIsReported'
  BY <1>2, <1>3, <1>4, <1>7, <1>9 DEF LossIsReported, Wanted
<1>19. ConsoleAgrees'
  <2>1. summary' = Summed(allLines)'
    <3>1. Summed(allLines) \in [Counter -> Nat]
      BY <1>6, SummedType
    <3>2. summary' = Summed(allLines)
      BY <1>2, <1>6, <1>14, <3>1
    <3> QED
      BY <1>2, <3>2 DEF Summed
  <2>2. ASSUME Wanted, reportWritten'
        PROVE  report'.whole = [tests |-> abortLines + SumFunction(allLines),
                                failures |-> allLines["Failed"],
                                errors |-> abortLines + allLines["LifecycleError"],
                                skipped |-> allLines["Skipped"]]
    <3>1. result = "written"
      BY <1>9, <2>2
    <3>2. /\ report'.whole.tests = aborts + LineSum
          /\ report'.whole.failures = allLines["Failed"]
          /\ report'.whole.errors = aborts + allLines["LifecycleError"]
          /\ report'.whole.skipped = allLines["Skipped"]
          /\ report'.whole \in Counts
      BY <1>16, <2>2, <3>1
    <3>3. SumFunction(allLines) = LineSum
      BY <1>6, LinesAddUp DEF LineSum
    <3> DEFINE w == report'.whole
    <3>4. w \in Counts
      BY <3>2
    <3> HIDE DEF w
    <3>5. w = [tests |-> w.tests, failures |-> w.failures, errors |-> w.errors, skipped |-> w.skipped]
      BY <3>4 DEF Counts
    <3> QED
      BY <1>14, <3>2, <3>3, <3>5 DEF w
  <2>3. SumFunction(allLines)' = SumFunction(allLines)
    BY <1>2 DEF SumFunction
  <2> QED
    BY <1>1, <1>2, <2>1, <2>2, <2>3 DEF ConsoleAgrees, Wanted
<1> QED
  BY <1>10, <1>11, <1>12, <1>13, <1>17, <1>18, <1>19 DEF Inv

-----------------------------------------------------------------------------
(* Theorems. *)

LEMMA InvNext == Inv /\ [BothNext]_<<vars, consoleVars>> => Inv'
<1> SUFFICES ASSUME Inv, [BothNext]_<<vars, consoleVars>> PROVE Inv'
  OBVIOUS
<1>1. CASE \E path \in Path \cup {"none"}, wellFormed \in BOOLEAN :
              Configure(path, wellFormed) /\ PrintsNothing
  BY <1>1, ConfigureStep
<1>2. CASE (Reject /\ PrintsNothing) \/ (Return /\ PrintsNothing)
  BY <1>2, OutsideStep
<1>3. CASE OnStartReport /\ PrintsReportHeader
  BY <1>3, StartReportStep
<1>4. CASE \/ \E S \in SUBSET Test : Select(S) /\ PrintsNothing
           \/ \E t \in Test : OnTestStart(t) /\ PrintsNothing
           \/ UNCHANGED <<vars, consoleVars>>
  BY <1>4, TestStartStep
<1>5. CASE \E s \in Suite : OnSuiteStart(s) /\ PrintsSuiteHeader
  BY <1>5, SuiteStartStep
<1>6. CASE \E t \in Test, v \in Verdict : OnTestResult(t, v) /\ PrintsResult(v)
  BY <1>6, ResultStep
<1>7. CASE OnSuiteAbort /\ PrintsAbort
  BY <1>7, AbortStep
<1>8. CASE OnSuiteEnd /\ PrintsSummary(info)
  BY <1>8, SuiteEndStep
<1>9. CASE \E result \in Outcomes : OnFinalReport(result) /\ PrintsSummary(totals)
  BY <1>9, FinalReportStep
<1> QED
  BY <1>1, <1>2, <1>3, <1>4, <1>5, <1>6, <1>7, <1>8, <1>9 DEF BothNext

LEMMA Invariant == BothSpec => []Inv
<1>1. BothInit => Inv
  BY InvInit
<1>2. Inv /\ [BothNext]_<<vars, consoleVars>> => Inv'
  BY InvNext
<1> QED
  BY <1>1, <1>2, PTL DEF BothSpec

(* Every variable stays in its range, and the results of a report fit the  *)
(* space that onStartReport reserves: one entry for each suite.            *)
THEOREM TypeCorrect == BothSpec => []TypeOK
<1>1. Inv => TypeOK
  BY DEF Inv
<1> QED
  BY <1>1, Invariant, PTL

(* What the JUnit reporter holds is what it was told in this run: an entry *)
(* per suite that started, and in the last each result once.               *)
THEOREM ResultsFollowTheRun == BothSpec => []FollowsTheRun
<1>1. Inv => FollowsTheRun
  <2> SUFFICES ASSUME Inv, outputPath # "none", pc = "report" PROVE FollowsTheRun
    BY DEF FollowsTheRun
  <2>1. /\ Names(suiteResults) = finished \cup IF open THEN {current} ELSE {}
        /\ Distinct(suiteResults)
        /\ open => EntryFollows(Last(suiteResults))
    BY DEF Inv, Follows, Wanted
  <2> QED
    BY <2>1 DEF FollowsTheRun, Names, Distinct, EntryFollows, StatusOf
<1> QED
  BY <1>1, Invariant, PTL

(* The counts of a written report are those of the Runner's statistics, as *)
(* a whole and summed over its suites.                                     *)
THEOREM ReportIsTheRuns == BothSpec => []ReportAgreesWithRun
<1>1. Inv => ReportAgreesWithRun
  <2>1. Inv => WrittenAgrees
    BY DEF Inv
  <2>2. \A c : SumOver(report.suites, LAMBDA counts : counts[c]) = SuitesSum(report, c)
    BY DEF SumOver, SumFunction, SuitesSum
  <2> QED
    BY <2>1, <2>2 DEF WrittenAgrees, ReportAgreesWithRun, Wanted, CountName
<1> QED
  BY <1>1, Invariant, PTL

(* A report that was wanted and is not completely written is an error when *)
(* run() asks for one, and nothing else is.                                *)
THEOREM LossIsAnError == BothSpec => []LossIsReported
<1>1. Inv => LossIsReported
  BY DEF Inv
<1> QED
  BY <1>1, Invariant, PTL

(* The lines of the console, its summaries and the file of the other       *)
(* handler show the same numbers.                                          *)
THEOREM HandlersAgree == BothSpec => []ConsoleAgrees
<1>1. Inv => ConsoleAgrees
  BY DEF Inv
<1> QED
  BY <1>1, Invariant, PTL

-----------------------------------------------------------------------------
(* Bytes and code points. *)

Bytes == 0 .. 255
Continuation == 128 .. 191
LeadOfTwo == 192 .. 223
LeadOfThree == 224 .. 239
LeadOfFour == 240 .. 247

(* What the masks of the code say of a byte.                               *)
LEMMA ByteKinds ==
  ASSUME NEW b \in 0 .. 255
  PROVE  /\ b \div 32 = 6 <=> b \in 192 .. 223
         /\ b \div 16 = 14 <=> b \in 224 .. 239
         /\ b \div 8 = 30 <=> b \in 240 .. 247
         /\ b \div 64 = 2 <=> b \in 128 .. 191
         /\ b \in 192 .. 223 => b % 32 = b - 192
         /\ b \in 224 .. 239 => b % 16 = b - 224
         /\ b \in 240 .. 247 => b % 8 = b - 240
         /\ b \in 128 .. 191 => b % 64 = b - 128
<1>1. (b \div 32 = 6 <=> b \in 192 .. 223) /\ (b \in 192 .. 223 => b % 32 = b - 192)
  BY SMT
<1>2. (b \div 16 = 14 <=> b \in 224 .. 239) /\ (b \in 224 .. 239 => b % 16 = b - 224)
  BY SMT
<1>3. (b \div 8 = 30 <=> b \in 240 .. 247) /\ (b \in 240 .. 247 => b % 8 = b - 240)
  BY SMT
<1>4. (b \div 64 = 2 <=> b \in 128 .. 191) /\ (b \in 128 .. 191 => b % 64 = b - 128)
  BY SMT
<1> QED
  BY <1>1, <1>2, <1>3, <1>4, SMT

LEMMA ContinuationIs ==
  ASSUME NEW b \in Bytes
  PROVE  /\ IsContinuation(b) <=> b \in Continuation
         /\ b \in Continuation => b % 64 = b - 128
  BY ByteKinds, SMT DEF Bytes, Continuation, IsContinuation

(* Which bytes may lead, and what the code takes of them.                  *)
LEMMA LeadKinds ==
  ASSUME NEW b \in Bytes
  PROVE  IsLead(b) <=> b \in LeadOfTwo \/ b \in LeadOfThree \/ b \in LeadOfFour
<1>1. b \in 0 .. 255
  BY DEF Bytes
<1> QED
  BY <1>1, ByteKinds, SMT DEF IsLead, LeadOfTwo, LeadOfThree, LeadOfFour

LEMMA ClassIs ==
  ASSUME NEW b \in Bytes
  PROVE  /\ b \in LeadOfTwo =>
              Class(b).length = 2 /\ Class(b).bits = b - 192 /\ Class(b).minimum = 128
         /\ b \in LeadOfThree =>
              Class(b).length = 3 /\ Class(b).bits = b - 224 /\ Class(b).minimum = 2048
         /\ b \in LeadOfFour =>
              Class(b).length = 4 /\ Class(b).bits = b - 240 /\ Class(b).minimum = 65536
<1>1. b \in 0 .. 255
  BY DEF Bytes
<1>2. ASSUME b \in LeadOfTwo
      PROVE  Class(b).length = 2 /\ Class(b).bits = b - 192 /\ Class(b).minimum = 128
  <2>1. b \div 32 = 6 /\ b \div 16 # 14 /\ b \div 8 # 30 /\ b % 32 = b - 192
    BY <1>1, <1>2, ByteKinds, SMT DEF LeadOfTwo
  <2> QED
    BY <2>1, SMT DEF Class
<1>3. ASSUME b \in LeadOfThree
      PROVE  Class(b).length = 3 /\ Class(b).bits = b - 224 /\ Class(b).minimum = 2048
  <2>1. b \div 32 # 6 /\ b \div 16 = 14 /\ b \div 8 # 30 /\ b % 16 = b - 224
    BY <1>1, <1>3, ByteKinds, SMT DEF LeadOfThree
  <2> QED
    BY <2>1, SMT DEF Class
<1>4. ASSUME b \in LeadOfFour
      PROVE  Class(b).length = 4 /\ Class(b).bits = b - 240 /\ Class(b).minimum = 65536
  <2>1. b \div 32 # 6 /\ b \div 16 # 14 /\ b \div 8 = 30 /\ b % 8 = b - 240
    BY <1>1, <1>4, ByteKinds, SMT DEF LeadOfFour
  <2> QED
    BY <2>1, SMT DEF Class
<1> QED
  BY <1>2, <1>3, <1>4, SMT

(* The loop over the continuation bytes, unrolled: n is at most 4.         *)
LEMMA CodePointIs ==
  ASSUME NEW bytes, NEW at, NEW class, class.length \in {2, 3, 4}
  PROVE  LET c1 == class.bits
             c2 == (c1 * 64) + (bytes[at + 2] % 64)
             c3 == (c2 * 64) + (bytes[at + 3] % 64)
             c4 == (c3 * 64) + (bytes[at + 4] % 64)
         IN  CodePoint(bytes, at, class) =
               CASE class.length = 2 -> c2 [] class.length = 3 -> c3 [] class.length = 4 -> c4
<1> DEFINE c1 == class.bits
           c2 == (c1 * 64) + (bytes[at + 2] % 64)
           c3 == (c2 * 64) + (bytes[at + 3] % 64)
           c4 == (c3 * 64) + (bytes[at + 4] % 64)
           n == class.length
           Is(f) == f = [k \in 1 .. n |->
                           IF k = 1 THEN class.bits ELSE (f[k - 1] * 64) + (bytes[at + k] % 64)]
           g == [k \in 1 .. n |-> CASE k = 1 -> c1 [] k = 2 -> c2 [] k = 3 -> c3 [] k = 4 -> c4]
           code == CHOOSE f : Is(f)
<1>1. Is(g)
  <2>1. n \in {2, 3, 4}
    OBVIOUS
  <2>2. ASSUME NEW k \in 1 .. n
        PROVE  g[k] = IF k = 1 THEN class.bits ELSE (g[k - 1] * 64) + (bytes[at + k] % 64)
    <3>1. k \in {1, 2, 3, 4} /\ (k # 1 => k - 1 \in 1 .. n)
      BY <2>1, SMT
    <3>2. CASE k = 1
      BY <3>2, SMT
    <3>3. CASE k = 2
      BY <3>1, <3>3, SMT
    <3>4. CASE k = 3
      BY <3>1, <3>4, SMT
    <3>5. CASE k = 4
      BY <3>1, <3>5, SMT
    <3> QED
      BY <3>1, <3>2, <3>3, <3>4, <3>5, Zenon
  <2> QED
    <3> DEFINE h == [k \in 1 .. n |->
                       IF k = 1 THEN class.bits ELSE (g[k - 1] * 64) + (bytes[at + k] % 64)]
    <3>1. g = [k \in 1 .. n |-> g[k]] /\ h = [k \in 1 .. n |-> h[k]]
      OBVIOUS
    <3>2. \A k \in 1 .. n : g[k] = h[k]
      <4> HIDE DEF g
      <4> QED
        BY <2>2, Zenon
    <3>3. g = h
      <4> HIDE DEF g, h
      <4> QED
        BY <3>1, <3>2
    <3> QED
      BY <3>3, Zenon
<1>2. Is(code)
  BY <1>1, Zenon
<1>3. CodePoint(bytes, at, class) = code[n]
  BY Zenon DEF CodePoint
<1>4. /\ code[1] = c1
      /\ 2 \in 1 .. n => code[2] = (code[1] * 64) + (bytes[at + 2] % 64)
      /\ 3 \in 1 .. n => code[3] = (code[2] * 64) + (bytes[at + 3] % 64)
      /\ 4 \in 1 .. n => code[4] = (code[3] * 64) + (bytes[at + 4] % 64)
  <2> HIDE DEF code
  <2>1. \A k \in 1 .. n : code[k] =
           IF k = 1 THEN class.bits ELSE (code[k - 1] * 64) + (bytes[at + k] % 64)
    BY <1>2, Zenon
  <2>2. 1 \in 1 .. n
    BY SMT
  <2> QED
    BY <2>1, <2>2, SMT
<1> HIDE DEF code
<1>5. CASE n = 2
  BY <1>3, <1>4, <1>5, SMT
<1>6. CASE n = 3
  BY <1>3, <1>4, <1>6, SMT
<1>7. CASE n = 4
  BY <1>3, <1>4, <1>7, SMT
<1> QED
  BY <1>5, <1>6, <1>7, Zenon

(* What the division by 64, again and again, leaves.                       *)
LEMMA Digits ==
  ASSUME NEW c \in Nat
  PROVE  LET q1 == c \div 64  q2 == q1 \div 64  q3 == q2 \div 64
         IN  /\ q1 \in Nat /\ q2 \in Nat /\ q3 \in Nat
             /\ c % 64 \in 0 .. 63 /\ q1 % 64 \in 0 .. 63 /\ q2 % 64 \in 0 .. 63
             /\ c = (q1 * 64) + (c % 64) /\ q1 = (q2 * 64) + (q1 % 64)
             /\ q2 = (q3 * 64) + (q2 % 64)
             /\ c \div 4096 = q2 /\ c \div 262144 = q3
<1>1. \A n \in Nat : n \div 64 \in Nat /\ n % 64 \in 0 .. 63 /\ n = ((n \div 64) * 64) + (n % 64)
  BY SMT
<1> DEFINE q1 == c \div 64  q2 == q1 \div 64  q3 == q2 \div 64
<1>2. q1 \in Nat /\ c % 64 \in 0 .. 63 /\ c = (q1 * 64) + (c % 64)
  BY <1>1, SMT
<1> HIDE DEF q1
<1>3. q2 \in Nat /\ q1 % 64 \in 0 .. 63 /\ q1 = (q2 * 64) + (q1 % 64)
  BY <1>1, <1>2, SMT
<1> HIDE DEF q2
<1>4. q3 \in Nat /\ q2 % 64 \in 0 .. 63 /\ q2 = (q3 * 64) + (q2 % 64)
  BY <1>1, <1>3, SMT
<1> HIDE DEF q3
<1>5. c \div 4096 = q2
  <2>1. \A n, q \in Nat : n >= q * 4096 /\ n < (q + 1) * 4096 => n \div 4096 = q
    BY SMT
  <2>2. c >= q2 * 4096 /\ c < (q2 + 1) * 4096
    BY <1>2, <1>3, SMT
  <2> QED
    BY <1>3, <2>1, <2>2, SMT
<1>6. c \div 262144 = q3
  <2>1. \A n, q \in Nat : n >= q * 262144 /\ n < (q + 1) * 262144 => n \div 262144 = q
    BY SMT
  <2>2. c >= q3 * 262144 /\ c < (q3 + 1) * 262144
    BY <1>2, <1>3, <1>4, SMT
  <2> QED
    BY <1>4, <2>1, <2>2, SMT
<1> QED
  BY <1>2, <1>3, <1>4, <1>5, <1>6, SMT DEF q1, q2, q3

(* The code point that a lead byte and its continuation bytes stand for.   *)
OfTwo(b, x) == ((b - 192) * 64) + (x - 128)
OfThree(b, x, y) == ((((b - 224) * 64) + (x - 128)) * 64) + (y - 128)
OfFour(b, x, y, z) == ((((((b - 240) * 64) + (x - 128)) * 64) + (y - 128)) * 64) + (z - 128)

Two(c, b, x) == b \in 194 .. 223 /\ x \in 128 .. 191 /\ c = OfTwo(b, x)
Three(c, b, x, y) ==
    b \in 224 .. 239 /\ x \in 128 .. 191 /\ y \in 128 .. 191 /\ c = OfThree(b, x, y)
Four(c, b, x, y, z) ==
    /\ b \in 240 .. 244 /\ x \in 128 .. 191 /\ y \in 128 .. 191 /\ z \in 128 .. 191
    /\ c = OfFour(b, x, y, z)

(* The digits of an encoding make up the code point.                       *)
LEMMA EncodingIs ==
  ASSUME NEW c \in Nat, c <= MaxCodePoint
  PROVE  /\ c < 128 => Encoding(c) = <<c>>
         /\ 128 <= c /\ c < 2048 => \E b, x : Two(c, b, x) /\ Encoding(c) = <<b, x>>
         /\ 2048 <= c /\ c < 65536 =>
              \E b, x, y : Three(c, b, x, y) /\ Encoding(c) = <<b, x, y>>
         /\ 65536 <= c =>
              \E b, x, y, z : Four(c, b, x, y, z) /\ Encoding(c) = <<b, x, y, z>>
<1> DEFINE q1 == c \div 64  q2 == c \div 4096  q3 == c \div 262144
           r0 == c % 64     r1 == q1 % 64      r2 == q2 % 64
<1>1. /\ q1 \in Nat /\ q2 \in Nat /\ q3 \in Nat
      /\ r0 \in 0 .. 63 /\ r1 \in 0 .. 63 /\ r2 \in 0 .. 63
      /\ c = (q1 * 64) + r0 /\ q1 = (q2 * 64) + r1 /\ q2 = (q3 * 64) + r2
  BY Digits, SMT
<1>2. /\ c < 128 => Encoding(c) = <<c>>
      /\ 128 <= c /\ c < 2048 => Encoding(c) = <<192 + q1, 128 + r0>>
      /\ 2048 <= c /\ c < 65536 => Encoding(c) = <<224 + q2, 128 + r1, 128 + r0>>
      /\ 65536 <= c => Encoding(c) = <<240 + q3, 128 + r2, 128 + r1, 128 + r0>>
  BY SMT DEF Encoding
<1> HIDE DEF q1, q2, q3, r0, r1, r2
<1>3. CASE c < 128
  BY <1>2, <1>3, SMT
<1>4. CASE 128 <= c /\ c < 2048
  <2>1. Two(c, 192 + q1, 128 + r0)
    BY <1>1, <1>4, SMT DEF Two, OfTwo
  <2> QED
    BY <1>2, <1>4, <2>1, SMT
<1>5. CASE 2048 <= c /\ c < 65536
  <2>1. Three(c, 224 + q2, 128 + r1, 128 + r0)
    BY <1>1, <1>5, SMT DEF Three, OfThree
  <2> QED
    BY <1>2, <1>5, <2>1, SMT
<1>6. CASE 65536 <= c
  <2>1. Four(c, 240 + q3, 128 + r2, 128 + r1, 128 + r0)
    BY <1>1, <1>6, SMT DEF Four, OfFour, MaxCodePoint
  <2> QED
    BY <1>2, <1>6, <2>1, SMT
<1> QED
  BY <1>3, <1>4, <1>5, <1>6, SMT

(* Bytes that make up a code point of their length are its encoding.       *)
LEMMA EncodingTwo ==
  ASSUME NEW c \in Nat, c <= MaxCodePoint, NEW b, NEW x, Two(c, b, x)
  PROVE  Encoding(c) = <<b, x>>
<1>1. 128 <= c /\ c < 2048
  BY SMT DEF Two, OfTwo
<1>2. PICK p, q : Two(c, p, q) /\ Encoding(c) = <<p, q>>
  BY <1>1, EncodingIs, SMT
<1>3. p = b /\ q = x
  BY <1>2, SMT DEF Two, OfTwo
<1> QED
  BY <1>2, <1>3, SMT

LEMMA EncodingThree ==
  ASSUME NEW c \in Nat, c <= MaxCodePoint, c >= 2048, NEW b, NEW x, NEW y, Three(c, b, x, y)
  PROVE  Encoding(c) = <<b, x, y>>
<1>1. 2048 <= c /\ c < 65536
  BY SMT DEF Three, OfThree
<1>2. PICK p, q, r : Three(c, p, q, r) /\ Encoding(c) = <<p, q, r>>
  BY <1>1, EncodingIs, SMT
<1>3. p = b /\ q = x /\ r = y
  BY <1>2, SMT DEF Three, OfThree
<1> QED
  BY <1>2, <1>3, SMT

LEMMA EncodingFour ==
  ASSUME NEW c \in Nat, c <= MaxCodePoint, c >= 65536, NEW b, NEW x, NEW y, NEW z,
         Four(c, b, x, y, z)
  PROVE  Encoding(c) = <<b, x, y, z>>
<1>1. PICK p, q, r, s : Four(c, p, q, r, s) /\ Encoding(c) = <<p, q, r, s>>
  BY EncodingIs, SMT
<1>2. p = b /\ q = x /\ r = y /\ s = z
  BY <1>1, SMT DEF Four, OfFour
<1> QED
  BY <1>1, <1>2, SMT

-----------------------------------------------------------------------------
(* decodeUtf8 and the table. *)

(* The table as a relation between the first two bytes and the length.     *)
Begins(n, b, x) ==
    \/ n = 1 /\ b \in 0 .. 127
    \/ n = 2 /\ b \in 194 .. 223 /\ x \in 128 .. 191
    \/ n = 3 /\ \/ b = 224 /\ x \in 160 .. 191
                \/ b \in 225 .. 236 /\ x \in 128 .. 191
                \/ b = 237 /\ x \in 128 .. 159
                \/ b \in 238 .. 239 /\ x \in 128 .. 191
    \/ n = 4 /\ \/ b = 240 /\ x \in 144 .. 191
                \/ b \in 241 .. 243 /\ x \in 128 .. 191
                \/ b = 244 /\ x \in 128 .. 143

StartsLong(bytes, i, n) ==
    /\ i + n <= Len(bytes) + 1
    /\ Begins(n, bytes[i], bytes[i + 1])
    /\ \A k \in 2 .. n - 1 : bytes[i + k] \in 128 .. 191

LEMMA RowBegins ==
  ASSUME NEW b, NEW x, NEW n
  PROVE  Begins(n, b, x) <=>
           \E row \in Row : row.length = n /\ b \in row.first /\ (n > 1 => x \in row.second)
<1>1. ASSUME NEW row \in Row, row.length = n, b \in row.first, n > 1 => x \in row.second
      PROVE  Begins(n, b, x)
  BY <1>1, SMT DEF Row, Begins
<1>2. ASSUME Begins(n, b, x)
      PROVE  \E row \in Row : row.length = n /\ b \in row.first /\ (n > 1 => x \in row.second)
  BY <1>2, SMT DEF Row, Begins
<1> QED
  BY <1>1, <1>2, SMT

LEMMA FittingIs ==
  ASSUME NEW bytes, NEW i
  PROVE  /\ \A row \in Fitting(bytes, i) : StartsLong(bytes, i, row.length)
         /\ \A n : StartsLong(bytes, i, n) => Fitting(bytes, i) # {}
<1>1. ASSUME NEW row \in Fitting(bytes, i) PROVE StartsLong(bytes, i, row.length)
  <2>1. row \in Row /\ Starts(bytes, i, row)
    BY <1>1, Zenon DEF Fitting
  <2>2. Begins(row.length, bytes[i], bytes[i + 1])
    BY <2>1, RowBegins, Zenon DEF Starts
  <2> QED
    BY <2>1, <2>2, Zenon DEF Starts, StartsLong
<1>2. ASSUME NEW n, StartsLong(bytes, i, n) PROVE Fitting(bytes, i) # {}
  <2>1. PICK row \in Row : /\ row.length = n /\ bytes[i] \in row.first
                           /\ n > 1 => bytes[i + 1] \in row.second
    BY <1>2, RowBegins, Zenon DEF StartsLong
  <2>2. Starts(bytes, i, row)
    BY <1>2, <2>1, Zenon DEF Starts, StartsLong
  <2> QED
    BY <2>2, Zenon DEF Fitting
<1> QED
  BY <1>1, <1>2, Zenon

(* A lead byte and its continuation bytes, against the limits of the code. *)
LEMMA SurrogateIs == \A n \in Nat : n \in Surrogate <=> n >= 55296 /\ n <= 57343
  BY SMT DEF Surrogate

LEMMA TwoAllowed ==
  ASSUME NEW b \in LeadOfTwo, NEW x \in Continuation, NEW m, m = 128,
         NEW c, c = OfTwo(b, x)
  PROVE  /\ c \in Nat
         /\ IsAllowed(c, m) <=> Begins(2, b, x)
         /\ IsAllowed(c, m) => c <= MaxCodePoint /\ Encoding(c) = <<b, x>>
<1>1. /\ c \in Nat /\ c <= MaxCodePoint
      /\ IsAllowed(c, m) <=> Begins(2, b, x)
      /\ IsAllowed(c, m) => Two(c, b, x)
  BY SurrogateIs, SMT DEF IsAllowed, Begins, Two, OfTwo, MaxCodePoint, LeadOfTwo, Continuation
<1> QED
  BY <1>1, EncodingTwo, SMT

LEMMA ThreeAllowed ==
  ASSUME NEW b \in LeadOfThree, NEW x \in Continuation, NEW y \in Continuation,
         NEW m, m = 2048, NEW c, c = OfThree(b, x, y)
  PROVE  /\ c \in Nat
         /\ IsAllowed(c, m) <=> Begins(3, b, x)
         /\ IsAllowed(c, m) => c <= MaxCodePoint /\ Encoding(c) = <<b, x, y>>
<1>1. /\ b \in 224 .. 239 /\ x \in 128 .. 191 /\ y \in 128 .. 191
      /\ c = ((((b - 224) * 64) + (x - 128)) * 64) + (y - 128)
  BY SMT DEF LeadOfThree, Continuation, OfThree
<1>2. c \in Nat /\ c <= MaxCodePoint /\ Three(c, b, x, y)
  BY <1>1, SMT DEF Three, OfThree, MaxCodePoint
<1>3. c \in Surrogate <=> b = 237 /\ x >= 160
  <2>1. c \in Surrogate <=> c >= 55296 /\ c <= 57343
    BY <1>2, SurrogateIs, SMT
  <2> QED
    BY <1>1, <2>1, SMT
<1>4. c >= m <=> b > 224 \/ x >= 160
  BY <1>1, SMT
<1>5. IsAllowed(c, m) <=> (b > 224 \/ x >= 160) /\ ~(b = 237 /\ x >= 160)
  BY <1>2, <1>3, <1>4, SMT DEF IsAllowed
<1>6. Begins(3, b, x) <=> (b > 224 \/ x >= 160) /\ ~(b = 237 /\ x >= 160)
  BY <1>1, SMT DEF Begins
<1>7. IsAllowed(c, m) => c >= 2048
  BY <1>2, SMT DEF IsAllowed
<1>8. c >= 2048 => Encoding(c) = <<b, x, y>>
  BY <1>2, EncodingThree, SMT
<1> QED
  BY <1>2, <1>5, <1>6, <1>7, <1>8, SMT

MinimumOfFour == 65536

LEMMA FourAllowed ==
  ASSUME NEW b \in LeadOfFour, NEW x \in Continuation, NEW y \in Continuation,
         NEW z \in Continuation
  PROVE  LET c == OfFour(b, x, y, z)
             m == MinimumOfFour
         IN
         /\ c \in Nat
         /\ IsAllowed(c, m) <=> Begins(4, b, x)
         /\ IsAllowed(c, m) => c <= MaxCodePoint /\ Encoding(c) = <<b, x, y, z>>
<1> DEFINE c == OfFour(b, x, y, z)
           m == MinimumOfFour
<1>1. /\ b \in 240 .. 247 /\ x \in 128 .. 191 /\ y \in 128 .. 191 /\ z \in 128 .. 191
      /\ c = ((((((b - 240) * 64) + (x - 128)) * 64) + (y - 128)) * 64) + (z - 128)
  BY SMT DEF LeadOfFour, Continuation, OfFour
<1> HIDE DEF c
<1>2. c \in Nat
  BY <1>1, SMT
<1>3. IsAllowed(c, m) <=> c >= 65536 /\ c <= MaxCodePoint
  <2>1. c \in Surrogate => c < 65536
    BY <1>2, SurrogateIs, SMT
  <2> QED
    BY <1>2, <2>1, SMT DEF IsAllowed, MinimumOfFour
<1>4. Begins(4, b, x) <=> (b > 240 \/ x >= 144) /\ (b < 244 \/ (b = 244 /\ x < 144))
  BY <1>1, SMT DEF Begins
<1>5. c >= 65536 <=> b > 240 \/ x >= 144
  BY <1>1, SMT
<1>6. c <= MaxCodePoint <=> b < 244 \/ (b = 244 /\ x < 144)
  BY <1>1, SMT DEF MaxCodePoint
<1>7. c >= 65536 /\ c <= MaxCodePoint => Encoding(c) = <<b, x, y, z>>
  <2> SUFFICES ASSUME c >= 65536, c <= MaxCodePoint PROVE Encoding(c) = <<b, x, y, z>>
    BY SMT
  <2>1. Four(c, b, x, y, z)
    BY <1>1, <1>6, SMT DEF Four, OfFour
  <2> QED
    BY <1>2, <2>1, EncodingFour, SMT
<1> HIDE DEF m
<1>8. /\ c \in Nat
      /\ IsAllowed(c, m) <=> Begins(4, b, x)
      /\ IsAllowed(c, m) => c <= MaxCodePoint /\ Encoding(c) = <<b, x, y, z>>
  BY <1>2, <1>3, <1>4, <1>5, <1>6, <1>7, SMT
<1> QED
  BY <1>8, Zenon DEF c, m

(* What the code decodes is what the table says: a code point of its       *)
(* length, whose encoding is the bytes that were read, or nothing.         *)
Decoded(bytes, at, d) ==
    \/ d = Invalid /\ Fitting(bytes, at + 1) = {}
    \/ /\ Fitting(bytes, at + 1) # {}
       /\ \A row \in Fitting(bytes, at + 1) : row.length = d.length
       /\ d.length \in 1 .. 4 /\ at + d.length <= Len(bytes)
       /\ d.codePoint \in Nat /\ d.codePoint <= MaxCodePoint /\ d.codePoint \notin Surrogate
       /\ Encoding(d.codePoint) = SubSeq(bytes, at + 1, at + d.length)

(* The first byte decides on the length.                                   *)
LEMMA BeginsLength ==
  ASSUME NEW n, NEW m, NEW b, NEW x, Begins(n, b, x), Begins(m, b, x)
  PROVE  n = m /\ n \in 1 .. 4
  BY SMT DEF Begins

(* A character of n bytes fits the table if its bytes do.                  *)
LEMMA FitsLength ==
  ASSUME NEW bytes, NEW i, NEW n, StartsLong(bytes, i, n)
  PROVE  /\ Fitting(bytes, i) # {}
         /\ \A row \in Fitting(bytes, i) : row.length = n
<1>1. Fitting(bytes, i) # {}
  BY FittingIs, Zenon
<1>2. ASSUME NEW row \in Fitting(bytes, i) PROVE row.length = n
  <2>1. Begins(row.length, bytes[i], bytes[i + 1]) /\ Begins(n, bytes[i], bytes[i + 1])
    BY FittingIs, Zenon DEF StartsLong
  <2> QED
    BY <2>1, BeginsLength, SMT
<1> QED
  BY <1>1, <1>2, Zenon

LEMMA FitsNothing ==
  ASSUME NEW bytes, NEW i, \A n \in 1 .. 4 : ~StartsLong(bytes, i, n)
  PROVE  Fitting(bytes, i) = {}
<1> SUFFICES ASSUME NEW row \in Fitting(bytes, i) PROVE FALSE
  OBVIOUS
<1>1. StartsLong(bytes, i, row.length)
  BY FittingIs, Zenon
<1>2. row.length \in 1 .. 4
  BY <1>1, BeginsLength, Zenon DEF StartsLong
<1> QED
  BY <1>1, <1>2, Zenon

(* A part of a sequence, by its elements.                                  *)
LEMMA SubSeqIs ==
  ASSUME NEW S, NEW s \in Seq(S), NEW i \in 1 .. Len(s), NEW q \in Seq(S), Len(q) # 0,
         i + Len(q) - 1 <= Len(s), \A k \in 1 .. Len(q) : q[k] = s[i + k - 1]
  PROVE  SubSeq(s, i, i + Len(q) - 1) = q
<1> DEFINE n == i + Len(q) - 1
           p == SubSeq(s, i, n)
<1>1. Len(q) \in Nat /\ Len(s) \in Nat /\ n \in Int /\ i <= n /\ n - i + 1 = Len(q)
  BY SMT
<1>2. \A k \in i .. n : s[k] \in S
  BY <1>1, SMT
<1>3. p \in Seq(S) /\ Len(p) = Len(q) /\ \A k \in 1 .. Len(q) : p[k] = s[i + k - 1]
  <2> HIDE DEF n
  <2>1. /\ p \in Seq(S) /\ Len(p) = IF i <= n THEN n - i + 1 ELSE 0
        /\ \A k \in 1 .. n - i + 1 : p[k] = s[i + k - 1]
    BY <1>1, <1>2, SubSeqProperties, SMT
  <2> QED
    BY <1>1, <2>1, SMT
<1> HIDE DEF p
<1>4. p = q
  BY <1>3, SeqEqual, Zenon
<1> QED
  BY <1>4, Zenon DEF p

(* The first bytes of a sequence from i on.                                *)
LEMMA FirstBytes ==
  ASSUME NEW s \in Seq(Bytes), NEW i \in 1 .. Len(s)
  PROVE  /\ SubSeq(s, i, i) = <<s[i]>>
         /\ i + 1 <= Len(s) => SubSeq(s, i, i + 1) = <<s[i], s[i + 1]>>
         /\ i + 2 <= Len(s) => SubSeq(s, i, i + 2) = <<s[i], s[i + 1], s[i + 2]>>
         /\ i + 3 <= Len(s) =>
              SubSeq(s, i, i + 3) = <<s[i], s[i + 1], s[i + 2], s[i + 3]>>
<1>1. \A k \in 0 .. 3 : i + k <= Len(s) => s[i + k] \in Bytes
  BY SMT
<1>2. s[i] \in Bytes
  OBVIOUS
<1>3. SubSeq(s, i, i) = <<s[i]>>
  <2> DEFINE q == <<s[i]>>
  <2>1. q \in Seq(Bytes) /\ Len(q) = 1 /\ q[1] = s[i]
    BY <1>2
  <2> HIDE DEF q
  <2>2. /\ Len(q) # 0 /\ i + Len(q) - 1 <= Len(s) /\ i + Len(q) - 1 = i
        /\ \A k \in 1 .. Len(q) : q[k] = s[i + k - 1]
    BY <2>1, SMT
  <2>3. SubSeq(s, i, i + Len(q) - 1) = q
    BY <2>1, <2>2, SubSeqIs, Zenon
  <2> QED
    BY <2>2, <2>3, Zenon DEF q
<1>4. ASSUME i + 1 <= Len(s) PROVE SubSeq(s, i, i + 1) = <<s[i], s[i + 1]>>
  <2> DEFINE q == <<s[i], s[i + 1]>>
  <2>1. q \in Seq(Bytes) /\ Len(q) = 2 /\ q[1] = s[i] /\ q[2] = s[i + 1]
    BY <1>1, <1>2, <1>4
  <2> HIDE DEF q
  <2>2. /\ Len(q) # 0 /\ i + Len(q) - 1 <= Len(s) /\ i + Len(q) - 1 = i + 1
        /\ \A k \in 1 .. Len(q) : q[k] = s[i + k - 1]
    BY <1>4, <2>1, SMT
  <2>3. SubSeq(s, i, i + Len(q) - 1) = q
    BY <2>1, <2>2, SubSeqIs, Zenon
  <2> QED
    BY <2>2, <2>3, Zenon DEF q
<1>5. ASSUME i + 2 <= Len(s) PROVE SubSeq(s, i, i + 2) = <<s[i], s[i + 1], s[i + 2]>>
  <2> DEFINE q == <<s[i], s[i + 1], s[i + 2]>>
  <2>1. /\ q \in Seq(Bytes) /\ Len(q) = 3
        /\ q[1] = s[i] /\ q[2] = s[i + 1] /\ q[3] = s[i + 2]
    BY <1>1, <1>2, <1>5
  <2> HIDE DEF q
  <2>2. /\ Len(q) # 0 /\ i + Len(q) - 1 <= Len(s) /\ i + Len(q) - 1 = i + 2
        /\ \A k \in 1 .. Len(q) : q[k] = s[i + k - 1]
    BY <1>5, <2>1, SMT
  <2>3. SubSeq(s, i, i + Len(q) - 1) = q
    BY <2>1, <2>2, SubSeqIs, Zenon
  <2> QED
    BY <2>2, <2>3, Zenon DEF q
<1>6. ASSUME i + 3 <= Len(s)
      PROVE  SubSeq(s, i, i + 3) = <<s[i], s[i + 1], s[i + 2], s[i + 3]>>
  <2> DEFINE q == <<s[i], s[i + 1], s[i + 2], s[i + 3]>>
  <2>1. /\ q \in Seq(Bytes) /\ Len(q) = 4
        /\ q[1] = s[i] /\ q[2] = s[i + 1] /\ q[3] = s[i + 2] /\ q[4] = s[i + 3]
    BY <1>1, <1>2, <1>6
  <2> HIDE DEF q
  <2>2. /\ Len(q) # 0 /\ i + Len(q) - 1 <= Len(s) /\ i + Len(q) - 1 = i + 3
        /\ \A k \in 1 .. Len(q) : q[k] = s[i + k - 1]
    BY <1>6, <2>1, SMT
  <2>3. SubSeq(s, i, i + Len(q) - 1) = q
    BY <2>1, <2>2, SubSeqIs, Zenon
  <2> QED
    BY <2>2, <2>3, Zenon DEF q
<1> QED
  BY <1>3, <1>4, <1>5, <1>6, Zenon

(* A byte of its own.                                                      *)
LEMMA DecodesAscii ==
  ASSUME NEW bytes \in Seq(Bytes), NEW at \in Nat, at < Len(bytes), bytes[at + 1] <= 127
  PROVE  Decoded(bytes, at, DecodeUtf8(bytes, at))
<1> DEFINE b == bytes[at + 1]
           d == DecodeUtf8(bytes, at)
<1>1. at + 1 \in 1 .. Len(bytes) /\ Len(bytes) \in Nat
  BY SMT
<1>2. b \in 0 .. 127
  <2>1. b \in Bytes
    BY <1>1, SMT
  <2> HIDE DEF b
  <2>2. b \in 0 .. 255
    BY <2>1, Zenon DEF Bytes
  <2>3. b <= 127
    BY DEF b
  <2> QED
    BY <2>2, <2>3, SMT
<1>3. d = [codePoint |-> b, length |-> 1]
  BY Zenon DEF DecodeUtf8
<1>4. StartsLong(bytes, at + 1, 1)
  BY <1>1, <1>2, SMT DEF StartsLong, Begins
<1>5. SubSeq(bytes, at + 1, at + 1) = <<b>>
  BY <1>1, FirstBytes, Zenon
<1> HIDE DEF d, b
<1>6. Encoding(b) = <<b>> /\ b \in Nat /\ b <= MaxCodePoint
  <2>1. b \in Nat /\ b <= MaxCodePoint /\ b < 128
    BY <1>2, SMT DEF MaxCodePoint
  <2> QED
    BY <2>1, EncodingIs, SMT
<1>7. d.codePoint = b /\ d.length = 1
  BY <1>3, SMT
<1>8. Fitting(bytes, at + 1) # {} /\ \A row \in Fitting(bytes, at + 1) : row.length = 1
  BY <1>4, FitsLength, Zenon
<1>9. 1 \in 1 .. 4 /\ at + 1 <= Len(bytes)
  BY <1>1, SMT
<1>10. b \notin Surrogate
  <2>1. ~(b >= 55296)
    BY <1>2, SMT
  <2> QED
    BY <1>6, <2>1, SurrogateIs, SMT
<1>11. Decoded(bytes, at, d)
  BY <1>5, <1>6, <1>7, <1>8, <1>9, <1>10, Zenon DEF Decoded
<1> QED
  BY <1>11, Zenon DEF d

(* The lead byte of a row tells its length.                                *)
LEMMA LeadLength ==
  ASSUME NEW n, NEW b, NEW x, Begins(n, b, x)
  PROVE  /\ b \in LeadOfTwo => n = 2
         /\ b \in LeadOfThree => n = 3
         /\ b \in LeadOfFour => n = 4
         /\ n # 1 => x \in Continuation
         /\ b \in 0 .. 127 \/ b \in LeadOfTwo \/ b \in LeadOfThree \/ b \in LeadOfFour
  BY SMT DEF Begins, LeadOfTwo, LeadOfThree, LeadOfFour, Continuation

(* The bytes of a character of n bytes are there and continue it.          *)
Continues(bytes, at, n) ==
    at + n <= Len(bytes) /\ \A k \in 2 .. n : bytes[at + k] \in Continuation

(* The row asks the same of the bytes after the second.                    *)
LEMMA ContinuesIs ==
  ASSUME NEW bytes \in Seq(Bytes), NEW at \in Nat, at < Len(bytes), NEW n \in {2, 3, 4}
  PROVE  StartsLong(bytes, at + 1, n) <=>
           Continues(bytes, at, n) /\ Begins(n, bytes[at + 1], bytes[at + 2])
<1>1. Len(bytes) \in Nat /\ (at + 1) + 1 = at + 2
  BY SMT
<1>2. Begins(n, bytes[at + 1], bytes[at + 2]) => bytes[at + 2] \in Continuation
  <2>1. n # 1
    BY SMT
  <2> QED
    BY <2>1, LeadLength, Zenon
<1>3. ASSUME bytes[at + 2] \in Continuation
      PROVE  (\A k \in 2 .. n : bytes[at + k] \in Continuation) <=>
               \A k \in 2 .. n - 1 : bytes[(at + 1) + k] \in Continuation
  <2>1. ASSUME \A k \in 2 .. n : bytes[at + k] \in Continuation, NEW k \in 2 .. n - 1
        PROVE  bytes[(at + 1) + k] \in Continuation
    <3>1. k + 1 \in 2 .. n /\ (at + 1) + k = at + (k + 1)
      BY SMT
    <3> QED
      BY <2>1, <3>1, Zenon
  <2>2. ASSUME \A k \in 2 .. n - 1 : bytes[(at + 1) + k] \in Continuation, NEW k \in 2 .. n
        PROVE  bytes[at + k] \in Continuation
    <3>1. k = 2 \/ (k - 1 \in 2 .. n - 1 /\ at + k = (at + 1) + (k - 1))
      BY SMT
    <3> QED
      BY <1>3, <2>2, <3>1, Zenon
  <2> QED
    BY <2>1, <2>2, Zenon
<1>4. at + 1 + n <= Len(bytes) + 1 <=> at + n <= Len(bytes)
  BY <1>1, SMT
<1> QED
  BY <1>1, <1>2, <1>3, <1>4, Zenon DEF StartsLong, Continues, Continuation

LEMMA LeadIs ==
  \A b : b \in LeadOfTwo \/ b \in LeadOfThree \/ b \in LeadOfFour =>
            b \in Bytes /\ ~(b <= 127) /\ IsLead(b)
<1>1. \A b \in LeadOfTwo : b \in Bytes /\ ~(b <= 127)
  BY SMT DEF LeadOfTwo, Bytes
<1>2. \A b \in LeadOfThree : b \in Bytes /\ ~(b <= 127)
  BY SMT DEF LeadOfThree, Bytes
<1>3. \A b \in LeadOfFour : b \in Bytes /\ ~(b <= 127)
  BY SMT DEF LeadOfFour, Bytes
<1>4. \A b \in Bytes : b \in LeadOfTwo \/ b \in LeadOfThree \/ b \in LeadOfFour => IsLead(b)
  BY LeadKinds, Zenon
<1> QED
  BY <1>1, <1>2, <1>3, <1>4, Zenon

(* What decodeUtf8 asks of a character of several bytes.                   *)
LEMMA DecodeLong ==
  ASSUME NEW bytes \in Seq(Bytes), NEW at \in Nat, at < Len(bytes), NEW b, NEW class, NEW c,
         b = bytes[at + 1], b \in LeadOfTwo \/ b \in LeadOfThree \/ b \in LeadOfFour,
         class = Class(b), class.length \in {2, 3, 4}, c = CodePoint(bytes, at, class)
  PROVE  DecodeUtf8(bytes, at) =
           IF Continues(bytes, at, class.length) /\ IsAllowed(c, class.minimum)
           THEN [codePoint |-> c, length |-> class.length]
           ELSE Invalid
<1>1. ~(b <= 127) /\ IsLead(b)
  BY LeadIs, Zenon
<1> DEFINE Continued == \A k \in 2 .. class.length : IsContinuation(bytes[at + k])
<1>3. at + class.length <= Len(bytes) /\ Continued <=> Continues(bytes, at, class.length)
  <2>1. ASSUME at + class.length <= Len(bytes), NEW k \in 2 .. class.length
        PROVE  IsContinuation(bytes[at + k]) <=> bytes[at + k] \in Continuation
    <3>1. at + k \in 1 .. Len(bytes)
      BY <2>1, SMT
    <3>2. bytes[at + k] \in Bytes
      BY <3>1, ElementOfSeq, Zenon
    <3> QED
      BY <3>2, ContinuationIs, Zenon
  <2> QED
    BY <2>1, Zenon DEF Continues
<1>4. DecodeUtf8(bytes, at) =
        IF at + class.length <= Len(bytes) /\ Continued /\ IsAllowed(c, class.minimum)
        THEN [codePoint |-> c, length |-> class.length]
        ELSE Invalid
  BY <1>1, Zenon DEF DecodeUtf8
<1> HIDE DEF Continued
<1> DEFINE A == at + class.length <= Len(bytes)
           B == Continues(bytes, at, class.length)
           U == IsAllowed(c, class.minimum)
<1>5. A /\ Continued <=> B
  BY <1>3, Zenon
<1>6. DecodeUtf8(bytes, at) =
        IF A /\ Continued /\ U THEN [codePoint |-> c, length |-> class.length] ELSE Invalid
  BY <1>4, Zenon
<1> HIDE DEF A, B, U
<1>7. CASE B /\ U
  <2>1. A /\ Continued /\ U
    BY <1>5, <1>7, Zenon
  <2> QED
    BY <1>6, <1>7, <2>1, Zenon DEF B, U
<1>8. CASE ~(B /\ U)
  <2>1. ~(A /\ Continued /\ U)
    BY <1>5, <1>8, Zenon
  <2> QED
    BY <1>6, <1>8, <2>1, Zenon DEF B, U
<1> QED
  BY <1>7, <1>8, Zenon

(* A character of several bytes is what the table says, if its arithmetic  *)
(* is right: of bytes that continue it, those the table has are allowed,   *)
(* and then they are the encoding.                                         *)
LEMMA LongDecoded ==
  ASSUME NEW bytes \in Seq(Bytes), NEW at \in Nat, at < Len(bytes), NEW b, NEW class, NEW c,
         b = bytes[at + 1], b \in LeadOfTwo \/ b \in LeadOfThree \/ b \in LeadOfFour,
         class = Class(b), class.length \in {2, 3, 4}, c = CodePoint(bytes, at, class),
         \A m, x : Begins(m, b, x) => m = class.length,
         Continues(bytes, at, class.length) =>
            /\ c \in Nat
            /\ IsAllowed(c, class.minimum) <=> Begins(class.length, b, bytes[at + 2])
            /\ IsAllowed(c, class.minimum) =>
                  /\ c <= MaxCodePoint
                  /\ Encoding(c) = SubSeq(bytes, at + 1, at + class.length)
  PROVE  Decoded(bytes, at, DecodeUtf8(bytes, at))
<1> DEFINE n == class.length
           d == DecodeUtf8(bytes, at)
           valid == Continues(bytes, at, n) /\ IsAllowed(c, class.minimum)
<1>1. d = IF valid THEN [codePoint |-> c, length |-> n] ELSE Invalid
  BY DecodeLong, Zenon
<1>2. valid <=> StartsLong(bytes, at + 1, n)
  BY ContinuesIs, Zenon
<1>3. CASE valid
  <2>1. d.codePoint = c /\ d.length = n
    <3> HIDE DEF valid, n, d
    <3> QED
      BY <1>1, <1>3, SMT
  <2>2. Fitting(bytes, at + 1) # {} /\ \A row \in Fitting(bytes, at + 1) : row.length = n
    BY <1>2, <1>3, FitsLength, Zenon
  <2>3. n \in 1 .. 4
    <3>1. n \in {2, 3, 4}
      BY Zenon
    <3> HIDE DEF n
    <3> QED
      BY <3>1, SMT
  <2>4. /\ at + n <= Len(bytes) /\ c \in Nat /\ c <= MaxCodePoint
        /\ Encoding(c) = SubSeq(bytes, at + 1, at + n)
    BY <1>3, Zenon DEF Continues
  <2>5. c \notin Surrogate
    <3>1. \A m : IsAllowed(c, m) => c \notin Surrogate
      BY Zenon DEF IsAllowed
    <3> QED
      BY <1>3, <3>1, Zenon
  <2> HIDE DEF n, d, valid
  <2>6. Decoded(bytes, at, d)
    BY <2>1, <2>2, <2>3, <2>4, <2>5, Zenon DEF Decoded
  <2> QED
    BY <2>6, Zenon DEF d
<1>4. CASE ~valid
  <2>1. d = Invalid
    <3> HIDE DEF valid, n, d
    <3> QED
      BY <1>1, <1>4, Zenon
  <2>2. \A m \in 1 .. 4 : ~StartsLong(bytes, at + 1, m)
    <3> SUFFICES ASSUME NEW m \in 1 .. 4, StartsLong(bytes, at + 1, m) PROVE FALSE
      BY Zenon
    <3>1. m = n
      BY Zenon DEF StartsLong
    <3> HIDE DEF n
    <3> QED
      BY <1>2, <1>4, <3>1, Zenon
  <2>3. Fitting(bytes, at + 1) = {}
    BY <2>2, FitsNothing, Zenon
  <2> HIDE DEF d
  <2>4. Decoded(bytes, at, d)
    BY <2>1, <2>3, Zenon DEF Decoded
  <2> QED
    BY <2>4, Zenon DEF d
<1> QED
  BY <1>3, <1>4, Zenon

(* Two, three and four bytes: the conditions of LongDecoded, from the bits.*)
LEMMA DecodesTwo ==
  ASSUME NEW bytes \in Seq(Bytes), NEW at \in Nat, at < Len(bytes), bytes[at + 1] \in LeadOfTwo
  PROVE  Decoded(bytes, at, DecodeUtf8(bytes, at))
<1> DEFINE b == bytes[at + 1]
           x == bytes[at + 2]
           class == Class(b)
           c == CodePoint(bytes, at, class)
<1>1. b \in Bytes /\ b \in LeadOfTwo
  BY LeadIs, Zenon
<1>2. class.length = 2 /\ class.bits = b - 192 /\ class.minimum = 128
  BY <1>1, ClassIs, SMT
<1>3. c = (class.bits * 64) + (x % 64)
  <2> HIDE DEF class
  <2> QED
    BY <1>2, CodePointIs, SMT
<1>4. \A m, p : Begins(m, b, p) => m = 2
  BY LeadLength, Zenon
<1>5. ASSUME Continues(bytes, at, 2)
      PROVE  /\ c \in Nat
             /\ IsAllowed(c, class.minimum) <=> Begins(2, b, x)
             /\ IsAllowed(c, class.minimum) =>
                  c <= MaxCodePoint /\ Encoding(c) = SubSeq(bytes, at + 1, at + 2)
  <2>1. 2 \in 2 .. 2 /\ Len(bytes) \in Nat
    BY SMT
  <2>2. x \in Continuation /\ at + 2 <= Len(bytes)
    BY <1>5, <2>1, Zenon DEF Continues
  <2>3. x \in Bytes
    BY <2>2, SMT DEF Continuation, Bytes
  <2>4. at + 1 \in 1 .. Len(bytes) /\ (at + 1) + 1 = at + 2
    BY <2>1, SMT
  <2>5. SubSeq(bytes, at + 1, at + 2) = <<b, x>>
    BY <2>2, <2>4, FirstBytes, SMT
  <2> HIDE DEF b, x, class, c
  <2>6. x % 64 = x - 128
    BY <2>2, <2>3, ContinuationIs, SMT
  <2>7. c = OfTwo(b, x)
    BY <1>2, <1>3, <2>6, SMT DEF OfTwo
  <2>8. /\ c \in Nat
        /\ IsAllowed(c, class.minimum) <=> Begins(2, b, x)
        /\ IsAllowed(c, class.minimum) => c <= MaxCodePoint /\ Encoding(c) = <<b, x>>
    <3>1. class.minimum = 128
      BY <1>2, Zenon
    <3>2. \A m : m = 128 =>
            /\ c \in Nat
            /\ IsAllowed(c, m) <=> Begins(2, b, x)
            /\ IsAllowed(c, m) => c <= MaxCodePoint /\ Encoding(c) = <<b, x>>
      BY <1>1, <2>2, <2>7, TwoAllowed, Zenon
    <3> QED
      BY <3>1, <3>2, Zenon
  <2> QED
    BY <2>5, <2>8, Zenon
<1>6. class.length \in {2, 3, 4}
  <2> HIDE DEF class
  <2> QED
    BY <1>2, SMT
<1>7. /\ \A m, p : Begins(m, b, p) => m = class.length
      /\ Continues(bytes, at, class.length) =>
            /\ c \in Nat
            /\ IsAllowed(c, class.minimum) <=> Begins(class.length, b, bytes[at + 2])
            /\ IsAllowed(c, class.minimum) =>
                 c <= MaxCodePoint /\ Encoding(c) = SubSeq(bytes, at + 1, at + class.length)
  <2> HIDE DEF class, c, b
  <2> QED
    BY <1>2, <1>4, <1>5, Zenon
<1> QED
  BY <1>1, <1>6, <1>7, LongDecoded, Zenon

LEMMA DecodesThree ==
  ASSUME NEW bytes \in Seq(Bytes), NEW at \in Nat, at < Len(bytes), bytes[at + 1] \in LeadOfThree
  PROVE  Decoded(bytes, at, DecodeUtf8(bytes, at))
<1> DEFINE b == bytes[at + 1]
           x == bytes[at + 2]
           y == bytes[at + 3]
           class == Class(b)
           c == CodePoint(bytes, at, class)
<1>1. b \in Bytes /\ b \in LeadOfThree
  BY LeadIs, Zenon
<1>2. class.length = 3 /\ class.bits = b - 224 /\ class.minimum = 2048
  BY <1>1, ClassIs, SMT
<1>3. c = (((class.bits * 64) + (x % 64)) * 64) + (y % 64)
  <2> HIDE DEF class
  <2> QED
    BY <1>2, CodePointIs, SMT
<1>4. \A m, p : Begins(m, b, p) => m = 3
  BY LeadLength, Zenon
<1>5. ASSUME Continues(bytes, at, 3)
      PROVE  /\ c \in Nat
             /\ IsAllowed(c, class.minimum) <=> Begins(3, b, x)
             /\ IsAllowed(c, class.minimum) =>
                  c <= MaxCodePoint /\ Encoding(c) = SubSeq(bytes, at + 1, at + 3)
  <2>1. Len(bytes) \in Nat /\ 2 \in 2 .. 3 /\ 3 \in 2 .. 3
    BY SMT
  <2>2. at + 3 <= Len(bytes) /\ x \in Continuation /\ y \in Continuation
    BY <1>5, <2>1, Zenon DEF Continues
  <2>3. x \in Bytes /\ y \in Bytes
    BY <2>2, SMT DEF Continuation, Bytes
  <2>4. /\ at + 1 \in 1 .. Len(bytes)
        /\ (at + 1) + 1 = at + 2 /\ (at + 1) + 2 = at + 3
    BY <2>1, SMT
  <2>5. SubSeq(bytes, at + 1, at + 3) = <<b, x, y>>
    BY <2>2, <2>4, FirstBytes, SMT
  <2> HIDE DEF b, x, y, class, c
  <2>6. x % 64 = x - 128 /\ y % 64 = y - 128
    BY <2>2, <2>3, ContinuationIs, SMT
  <2>7. c = OfThree(b, x, y)
    BY <1>2, <1>3, <2>6, SMT DEF OfThree
  <2>8. /\ c \in Nat
        /\ IsAllowed(c, class.minimum) <=> Begins(3, b, x)
        /\ IsAllowed(c, class.minimum) => c <= MaxCodePoint /\ Encoding(c) = <<b, x, y>>
    <3> DEFINE m == class.minimum
    <3>1. m = 2048
      BY <1>2, SMT
    <3> HIDE DEF m
    <3>2. /\ c \in Nat
          /\ IsAllowed(c, m) <=> Begins(3, b, x)
          /\ IsAllowed(c, m) => c <= MaxCodePoint /\ Encoding(c) = <<b, x, y>>
      BY <1>1, <2>2, <2>7, <3>1, ThreeAllowed, SMT
    <3> QED
      BY <3>2, Zenon DEF m
  <2> QED
    BY <2>5, <2>8, Zenon
<1>6. class.length \in {2, 3, 4}
  <2> HIDE DEF class
  <2> QED
    BY <1>2, SMT
<1>7. /\ \A m, p : Begins(m, b, p) => m = class.length
      /\ Continues(bytes, at, class.length) =>
            /\ c \in Nat
            /\ IsAllowed(c, class.minimum) <=> Begins(class.length, b, bytes[at + 2])
            /\ IsAllowed(c, class.minimum) =>
                 c <= MaxCodePoint /\ Encoding(c) = SubSeq(bytes, at + 1, at + class.length)
  <2>1. class.length = 3
    BY <1>2, SMT
  <2> HIDE DEF class, c, b
  <2> QED
    BY <2>1, <1>4, <1>5, Zenon
<1> QED
  BY <1>1, <1>6, <1>7, LongDecoded, Zenon

LEMMA DecodesFour ==
  ASSUME NEW bytes \in Seq(Bytes), NEW at \in Nat, at < Len(bytes), bytes[at + 1] \in LeadOfFour
  PROVE  Decoded(bytes, at, DecodeUtf8(bytes, at))
<1> DEFINE b == bytes[at + 1]
           x == bytes[at + 2]
           y == bytes[at + 3]
           z == bytes[at + 4]
           class == Class(b)
           c == CodePoint(bytes, at, class)
<1>1. b \in Bytes /\ b \in LeadOfFour
  BY LeadIs, Zenon
<1>2. class.length = 4 /\ class.bits = b - 240 /\ class.minimum = 65536
  BY <1>1, ClassIs, SMT
<1>3. c = (((((class.bits * 64) + (x % 64)) * 64) + (y % 64)) * 64) + (z % 64)
  <2> HIDE DEF class
  <2> QED
    BY <1>2, CodePointIs, SMT
<1>4. \A m, p : Begins(m, b, p) => m = 4
  BY LeadLength, Zenon
<1>5. ASSUME Continues(bytes, at, 4)
      PROVE  /\ c \in Nat
             /\ IsAllowed(c, class.minimum) <=> Begins(4, b, x)
             /\ IsAllowed(c, class.minimum) =>
                  c <= MaxCodePoint /\ Encoding(c) = SubSeq(bytes, at + 1, at + 4)
  <2>1. Len(bytes) \in Nat /\ 2 \in 2 .. 4 /\ 3 \in 2 .. 4 /\ 4 \in 2 .. 4
    BY SMT
  <2>2. at + 4 <= Len(bytes) /\ x \in Continuation /\ y \in Continuation /\ z \in Continuation
    BY <1>5, <2>1, Zenon DEF Continues
  <2>3. x \in Bytes /\ y \in Bytes /\ z \in Bytes
    BY <2>2, SMT DEF Continuation, Bytes
  <2>4. /\ at + 1 \in 1 .. Len(bytes)
        /\ (at + 1) + 1 = at + 2 /\ (at + 1) + 2 = at + 3 /\ (at + 1) + 3 = at + 4
    BY <2>1, SMT
  <2>5. SubSeq(bytes, at + 1, at + 4) = <<b, x, y, z>>
    BY <2>2, <2>4, FirstBytes, SMT
  <2> HIDE DEF b, x, y, z, class, c
  <2>6. x % 64 = x - 128 /\ y % 64 = y - 128 /\ z % 64 = z - 128
    BY <2>2, <2>3, ContinuationIs, SMT
  <2>7. c = OfFour(b, x, y, z)
    BY <1>2, <1>3, <2>6, SMT DEF OfFour
  <2>8. /\ c \in Nat
        /\ IsAllowed(c, class.minimum) <=> Begins(4, b, x)
        /\ IsAllowed(c, class.minimum) => c <= MaxCodePoint /\ Encoding(c) = <<b, x, y, z>>
    <3> DEFINE m == class.minimum
    <3>1. m = MinimumOfFour
      BY <1>2, SMT DEF MinimumOfFour
    <3> HIDE DEF m
    <3>2. /\ c \in Nat
          /\ IsAllowed(c, m) <=> Begins(4, b, x)
          /\ IsAllowed(c, m) => c <= MaxCodePoint /\ Encoding(c) = <<b, x, y, z>>
      BY <1>1, <2>2, <2>7, <3>1, FourAllowed, Zenon
    <3> QED
      BY <3>2, Zenon DEF m
  <2> QED
    BY <2>5, <2>8, Zenon
<1>6. class.length \in {2, 3, 4}
  <2> HIDE DEF class
  <2> QED
    BY <1>2, SMT
<1>7. /\ \A m, p : Begins(m, b, p) => m = class.length
      /\ Continues(bytes, at, class.length) =>
            /\ c \in Nat
            /\ IsAllowed(c, class.minimum) <=> Begins(class.length, b, bytes[at + 2])
            /\ IsAllowed(c, class.minimum) =>
                 c <= MaxCodePoint /\ Encoding(c) = SubSeq(bytes, at + 1, at + class.length)
  <2>1. class.length = 4
    BY <1>2, SMT
  <2> HIDE DEF class, c, b
  <2> QED
    BY <2>1, <1>4, <1>5, Zenon
<1> QED
  BY <1>1, <1>6, <1>7, LongDecoded, Zenon

(* A byte that no character starts with.                                   *)
LEMMA DecodesNothing ==
  ASSUME NEW bytes \in Seq(Bytes), NEW at \in Nat, at < Len(bytes),
         ~(bytes[at + 1] <= 127), ~IsLead(bytes[at + 1])
  PROVE  Decoded(bytes, at, DecodeUtf8(bytes, at))
<1> DEFINE b == bytes[at + 1]
           d == DecodeUtf8(bytes, at)
<1>1. b \in Bytes
  <2>1. at + 1 \in 1 .. Len(bytes)
    BY SMT
  <2> QED
    BY <2>1, ElementOfSeq, Zenon
<1>2. d = Invalid
  BY Zenon DEF DecodeUtf8
<1>3. ASSUME NEW n \in 1 .. 4, StartsLong(bytes, at + 1, n) PROVE FALSE
  <2>1. Begins(n, b, bytes[(at + 1) + 1])
    BY <1>3, Zenon DEF StartsLong
  <2>2. b \notin LeadOfTwo /\ b \notin LeadOfThree /\ b \notin LeadOfFour
    BY LeadIs, Zenon
  <2>3. b \in 0 .. 127
    BY <2>1, <2>2, LeadLength, Zenon
  <2>4. b <= 127
    <3> HIDE DEF b
    <3> QED
      BY <2>3, SMT
  <2> QED
    BY <2>4, Zenon
<1>4. Fitting(bytes, at + 1) = {}
  BY <1>3, FitsNothing, Zenon
<1> HIDE DEF d
<1>5. Decoded(bytes, at, d)
  BY <1>2, <1>4, Zenon DEF Decoded
<1> QED
  BY <1>5, Zenon DEF d

(* decodeUtf8 is right for every sequence of bytes at every offset: it     *)
(* finds a character exactly where the table of the standard has one, of   *)
(* the table's length, and the code point whose encoding the bytes are.    *)
THEOREM DecodeIs ==
  ASSUME NEW bytes \in Seq(Bytes), NEW at \in Nat, at < Len(bytes)
  PROVE  Decoded(bytes, at, DecodeUtf8(bytes, at))
<1> DEFINE b == bytes[at + 1]
<1>1. b \in Bytes
  <2>1. at + 1 \in 1 .. Len(bytes)
    BY SMT
  <2> QED
    BY <2>1, ElementOfSeq, Zenon
<1>2. IsLead(b) => b \in LeadOfTwo \/ b \in LeadOfThree \/ b \in LeadOfFour
  BY <1>1, LeadKinds, Zenon
<1> QED
  BY <1>2, DecodesAscii, DecodesTwo, DecodesThree, DecodesFour, DecodesNothing, Zenon

-----------------------------------------------------------------------------
(* Characters of XML and their bytes. *)

(* Every code point that is no surrogate has an encoding in the table.     *)
LEMMA EncodingFits ==
  ASSUME NEW c \in Nat, c <= MaxCodePoint, c \notin Surrogate
  PROVE  Fitting(Encoding(c), 1) # {}
<1> DEFINE e == Encoding(c)
<1> SUFFICES \E n : StartsLong(e, 1, n)
  BY FitsLength, Zenon
<1>1. CASE c < 128
  <2>1. e = <<c>>
    BY <1>1, EncodingIs, SMT
  <2> HIDE DEF e
  <2>2. Len(e) = 1 /\ e[1] = c
    BY <2>1, SMT
  <2>3. StartsLong(e, 1, 1)
    BY <1>1, <2>2, SMT DEF StartsLong, Begins
  <2> QED
    BY <2>3, Zenon
<1>2. CASE 128 <= c /\ c < 2048
  <2>1. PICK b, x : Two(c, b, x) /\ e = <<b, x>>
    BY <1>2, EncodingIs, SMT
  <2> HIDE DEF e
  <2>2. b \in LeadOfTwo /\ x \in Continuation /\ c = OfTwo(b, x)
    BY <2>1, SMT DEF Two, OfTwo, LeadOfTwo, Continuation
  <2>3. IsAllowed(c, 128)
    BY <1>2, SMT DEF IsAllowed
  <2>4. Begins(2, b, x)
    BY <2>2, <2>3, TwoAllowed, Zenon
  <2>5. Len(e) = 2 /\ e[1] = b /\ e[2] = x
    BY <2>1, SMT
  <2>6. 1 + 2 <= Len(e) + 1 /\ 1 + 1 = 2 /\ \A k \in 2 .. 2 - 1 : FALSE
    BY <2>5, SMT
  <2>7. StartsLong(e, 1, 2)
    BY <2>4, <2>5, <2>6, Zenon DEF StartsLong
  <2> QED
    BY <2>7, Zenon
<1>3. CASE 2048 <= c /\ c < 65536
  <2>1. PICK b, x, y : Three(c, b, x, y) /\ e = <<b, x, y>>
    BY <1>3, EncodingIs, SMT
  <2> HIDE DEF e
  <2>2. b \in LeadOfThree /\ x \in Continuation /\ y \in Continuation /\ c = OfThree(b, x, y)
    BY <2>1, SMT DEF Three, OfThree, LeadOfThree, Continuation
  <2>3. IsAllowed(c, 2048)
    BY <1>3, SMT DEF IsAllowed
  <2>4. Begins(3, b, x)
    <3> DEFINE m == 2048
    <3>1. m = 2048 /\ IsAllowed(c, m)
      BY <2>3, SMT
    <3> HIDE DEF m
    <3> QED
      BY <2>2, <3>1, ThreeAllowed, SMT
  <2>5. Len(e) = 3 /\ e[1] = b /\ e[2] = x /\ e[3] = y
    BY <2>1, SMT
  <2>6. 1 + 3 <= Len(e) + 1 /\ 1 + 1 = 2 /\ \A k \in 2 .. 3 - 1 : e[1 + k] = y
    BY <2>5, SMT
  <2>7. StartsLong(e, 1, 3)
    BY <2>2, <2>4, <2>5, <2>6, Zenon DEF StartsLong, Continuation
  <2> QED
    BY <2>7, Zenon
<1>4. CASE 65536 <= c
  <2>1. PICK b, x, y, z : Four(c, b, x, y, z) /\ e = <<b, x, y, z>>
    BY <1>4, EncodingIs, SMT
  <2> HIDE DEF e
  <2>2. /\ b \in LeadOfFour /\ x \in Continuation /\ y \in Continuation /\ z \in Continuation
        /\ c = OfFour(b, x, y, z)
    BY <2>1, SMT DEF Four, OfFour, LeadOfFour, Continuation
  <2>3. IsAllowed(c, MinimumOfFour)
    BY <1>4, SMT DEF IsAllowed, MinimumOfFour
  <2>4. Begins(4, b, x)
    BY <2>2, <2>3, FourAllowed, Zenon
  <2>5. Len(e) = 4 /\ e[1] = b /\ e[2] = x /\ e[3] = y /\ e[4] = z
    BY <2>1, SMT
  <2>6. 1 + 4 <= Len(e) + 1 /\ 1 + 1 = 2 /\ \A k \in 2 .. 4 - 1 : e[1 + k] = y \/ e[1 + k] = z
    BY <2>5, SMT
  <2>7. StartsLong(e, 1, 4)
    BY <2>2, <2>4, <2>5, <2>6, Zenon DEF StartsLong, Continuation
  <2> QED
    BY <2>7, Zenon
<1> QED
  BY <1>1, <1>2, <1>3, <1>4, SMT

(* The limits of isXmlCharacter, without the surrogates between them.      *)
LEMMA XmlCharacterIs ==
  ASSUME NEW c \in Nat, c <= MaxCodePoint, c \notin Surrogate
  PROVE  IsXmlCharacter(c) <=> (c < 32 => c \in {9, 10, 13}) /\ c # 65534 /\ c # 65535
<1>1. MaxCodePoint \in Nat
  BY SMT DEF MaxCodePoint
<1>2. c < 55296 \/ c > 57343
  BY SurrogateIs, SMT
<1>3. c \in {9, 10, 13} => c < 32
  BY SMT
<1> DEFINE low == c \in 32 .. 55295    middle == c \in 57344 .. 65533
           high == c \in 65536 .. MaxCodePoint    white == c \in {9, 10, 13}
<1>4. IsXmlCharacter(c) <=> white \/ low \/ middle \/ high
  BY <1>1, SMT DEF IsXmlCharacter
<1>5. low <=> c >= 32 /\ c < 55296
  BY SMT
<1>6. middle <=> c > 57343 /\ c < 65534
  BY SMT
<1>7. high <=> c > 65535
  BY <1>1, SMT
<1> HIDE DEF low, middle, high
<1> QED
  BY <1>2, <1>3, <1>4, <1>5, <1>6, <1>7, SMT

(* The characters the code passes are those whose bytes the reference does *)
(* not call a control or a non-character.                                  *)
LEMMA XmlBytes ==
  ASSUME NEW c \in Nat, c <= MaxCodePoint, c \notin Surrogate
  PROVE  IsXmlCharacter(c) <=> ~IsControl(Encoding(c)) /\ ~IsNonCharacter(Encoding(c))
<1> DEFINE e == Encoding(c)
<1>1. CASE c < 128
  <2>1. e = <<c>>
    BY <1>1, EncodingIs, SMT
  <2> HIDE DEF e
  <2>2. Len(e) = 1 /\ e[1] = c
    BY <2>1, SMT
  <2>3. IsControl(e) <=> c < 32 /\ c \notin {9, 10, 13}
    BY <2>2, Zenon DEF IsControl
  <2>4. ~IsNonCharacter(e)
    BY <2>2, SMT DEF IsNonCharacter
  <2> QED
    BY <1>1, <2>3, <2>4, XmlCharacterIs, SMT DEF e
<1>2. CASE 128 <= c /\ c < 2048
  <2>1. PICK b, x : Two(c, b, x) /\ e = <<b, x>>
    BY <1>2, EncodingIs, SMT
  <2> HIDE DEF e
  <2>2. Len(e) = 2
    BY <2>1, SMT
  <2>3. ~IsControl(e) /\ ~IsNonCharacter(e)
    BY <2>2, SMT DEF IsControl, IsNonCharacter
  <2> QED
    BY <1>2, <2>3, XmlCharacterIs, SMT DEF e
<1>3. CASE 2048 <= c /\ c < 65536
  <2>1. PICK b, x, y : Three(c, b, x, y) /\ e = <<b, x, y>>
    BY <1>3, EncodingIs, SMT
  <2> HIDE DEF e
  <2>2. Len(e) = 3 /\ e[1] = b /\ e[2] = x /\ e[3] = y
    BY <2>1, SMT
  <2>3. ~IsControl(e)
    BY <2>2, SMT DEF IsControl
  <2>4. IsNonCharacter(e) <=> b = 239 /\ x = 191 /\ y \in {190, 191}
    BY <2>1, SMT DEF IsNonCharacter
  <2>5. IsNonCharacter(e) <=> c \in {65534, 65535}
    BY <2>1, <2>4, SMT DEF Three, OfThree
  <2> QED
    BY <1>3, <2>3, <2>5, XmlCharacterIs, SMT DEF e
<1>4. CASE 65536 <= c
  <2>1. PICK b, x, y, z : Four(c, b, x, y, z) /\ e = <<b, x, y, z>>
    BY <1>4, EncodingIs, SMT
  <2> HIDE DEF e
  <2>2. Len(e) = 4
    BY <2>1, SMT
  <2>3. ~IsControl(e) /\ ~IsNonCharacter(e)
    BY <2>2, SMT DEF IsControl, IsNonCharacter
  <2> QED
    BY <1>4, <2>3, XmlCharacterIs, SMT DEF e
<1> QED
  BY <1>1, <1>2, <1>3, <1>4, SMT

(* U+FFFD may be written itself.                                           *)
LEMMA ReplacementIs ==
  /\ Replacement \in Nat /\ Replacement <= MaxCodePoint /\ Replacement \notin Surrogate
  /\ IsXmlCharacter(Replacement)
  /\ Encoding(Replacement) \in Seq(Bytes)
<1>1. /\ Replacement \in Nat /\ Replacement <= MaxCodePoint
      /\ Replacement > 57343 /\ Replacement < 65534
  BY SMT DEF Replacement, MaxCodePoint
<1>2. Replacement \notin Surrogate
  BY <1>1, SurrogateIs, SMT
<1>3. IsXmlCharacter(Replacement)
  BY <1>1, <1>2, XmlCharacterIs, SMT
<1>4. PICK b, x, y : Three(Replacement, b, x, y) /\ Encoding(Replacement) = <<b, x, y>>
  BY <1>1, EncodingIs, SMT
<1>5. b \in Bytes /\ x \in Bytes /\ y \in Bytes
  BY <1>4, SMT DEF Three, OfThree, Bytes
<1> QED
  BY <1>1, <1>2, <1>3, <1>4, <1>5

-----------------------------------------------------------------------------
(* The pieces of the reference: the recursive function in Pieces exists,   *)
(* by induction from the end of the value, and so satisfies its equation.  *)

LEMMA Descending ==
  ASSUME NEW n \in Nat, NEW S,
         \A i \in 1 .. n + 1 : (\A j \in 1 .. n + 1 : j > i => j \in S) => i \in S
  PROVE  \A i \in 1 .. n + 1 : i \in S
<1> SUFFICES ASSUME NEW i \in 1 .. n + 1, i \notin S PROVE FALSE
  BY Zenon
<1> DEFINE D == {d \in 0 .. n : n + 1 - d \notin S}
<1>1. n + 1 - i \in D
  <2>1. n + 1 - i \in 0 .. n /\ n + 1 - (n + 1 - i) = i
    BY SMT
  <2> QED
    BY <2>1, Zenon
<1>2. D \subseteq Nat
  BY SMT
<1>3. PICK d \in D : \A m \in D : d <= m
  <2> HIDE DEF D
  <2> QED
    BY <1>1, <1>2, LeastElement, Zenon
<1>4. d \in 0 .. n /\ n + 1 - d \notin S /\ n + 1 - d \in 1 .. n + 1
  BY <1>3, SMT
<1>5. ASSUME NEW j \in 1 .. n + 1, j > n + 1 - d PROVE j \in S
  <2>1. n + 1 - j \in 0 .. n /\ n + 1 - (n + 1 - j) = j /\ ~(d <= n + 1 - j)
    BY <1>4, <1>5, SMT
  <2>2. n + 1 - j \notin D
    <3> HIDE DEF D
    <3> QED
      BY <1>3, <2>1, Zenon
  <2> QED
    BY <2>1, <2>2, Zenon
<1> QED
  BY <1>4, <1>5, Zenon

Rest(bytes, f, i) ==
    IF i > Len(bytes) THEN <<>>
    ELSE IF Fitting(bytes, i) = {} THEN <<Encoding(Replacement)>> \o f[i + 1]
    ELSE LET n == (CHOOSE row \in Fitting(bytes, i) : TRUE).length
         IN  <<SubSeq(bytes, i, i + n - 1)>> \o f[i + n]

IsFrom(bytes, f) == f = [i \in 1 .. Len(bytes) + 1 |-> Rest(bytes, f, i)]
From(bytes) == CHOOSE f : IsFrom(bytes, f)

LEMMA PiecesFrom == \A bytes : Pieces(bytes) = From(bytes)[1]
  BY Zenon DEF Pieces, From, IsFrom, Rest

(* The piece at i, and where the one after it begins.                      *)
Fits(bytes, i) == (CHOOSE row \in Fitting(bytes, i) : TRUE).length
PieceAt(bytes, i) ==
    IF Fitting(bytes, i) = {} THEN Encoding(Replacement)
    ELSE SubSeq(bytes, i, i + Fits(bytes, i) - 1)
After(bytes, i) == IF Fitting(bytes, i) = {} THEN i + 1 ELSE i + Fits(bytes, i)

(* The row that the reference chooses.                                     *)
LEMMA FitsIs ==
  ASSUME NEW bytes, NEW i, Fitting(bytes, i) # {}
  PROVE  StartsLong(bytes, i, Fits(bytes, i)) /\ Fits(bytes, i) \in 1 .. 4
<1>1. StartsLong(bytes, i, Fits(bytes, i))
  BY FittingIs, Zenon DEF Fits
<1> QED
  BY <1>1, BeginsLength, Zenon DEF StartsLong

(* One step of the reference: a piece, and what comes after it.            *)
LEMMA RestIs ==
  ASSUME NEW bytes \in Seq(Bytes), NEW i \in 1 .. Len(bytes)
  PROVE  /\ \A f : Rest(bytes, f, i) = <<PieceAt(bytes, i)>> \o f[After(bytes, i)]
         /\ PieceAt(bytes, i) \in Seq(Bytes)
         /\ After(bytes, i) \in i + 1 .. Len(bytes) + 1
<1>1. ~(i > Len(bytes)) /\ Len(bytes) \in Nat
  BY SMT
<1>2. \A f : Rest(bytes, f, i) = <<PieceAt(bytes, i)>> \o f[After(bytes, i)]
  <2> SUFFICES ASSUME NEW f PROVE Rest(bytes, f, i) = <<PieceAt(bytes, i)>> \o f[After(bytes, i)]
    BY Zenon
  <2>1. CASE Fitting(bytes, i) = {}
    BY <1>1, <2>1, Zenon DEF Rest, PieceAt, After
  <2>2. CASE Fitting(bytes, i) # {}
    <3>1. Rest(bytes, f, i) =
            <<SubSeq(bytes, i, i + Fits(bytes, i) - 1)>> \o f[i + Fits(bytes, i)]
      BY <1>1, <2>2, Zenon DEF Rest, Fits
    <3>2. /\ PieceAt(bytes, i) = SubSeq(bytes, i, i + Fits(bytes, i) - 1)
          /\ After(bytes, i) = i + Fits(bytes, i)
      BY <2>2, Zenon DEF PieceAt, After
    <3> QED
      BY <3>1, <3>2, Zenon
  <2> QED
    BY <2>1, <2>2, Zenon
<1>3. CASE Fitting(bytes, i) = {}
  <2>1. PieceAt(bytes, i) = Encoding(Replacement) /\ After(bytes, i) = i + 1
    BY <1>3, Zenon DEF PieceAt, After
  <2>2. i + 1 \in i + 1 .. Len(bytes) + 1
    BY <1>1, SMT
  <2> QED
    BY <1>2, <2>1, <2>2, ReplacementIs, Zenon
<1>4. CASE Fitting(bytes, i) # {}
  <2> DEFINE n == Fits(bytes, i)
  <2>1. n \in 1 .. 4 /\ i + n <= Len(bytes) + 1
    BY <1>4, FitsIs, Zenon DEF StartsLong
  <2>2. PieceAt(bytes, i) = SubSeq(bytes, i, i + n - 1) /\ After(bytes, i) = i + n
    BY <1>4, Zenon DEF PieceAt, After
  <2> HIDE DEF n
  <2>3. /\ i + n \in i + 1 .. Len(bytes) + 1
        /\ i \in Int /\ i + n - 1 \in Int /\ \A k \in i .. i + n - 1 : k \in 1 .. Len(bytes)
    BY <1>1, <2>1, SMT
  <2>4. \A k \in i .. i + n - 1 : bytes[k] \in Bytes
    BY <2>3, ElementOfSeq, Zenon
  <2>5. SubSeq(bytes, i, i + n - 1) \in Seq(Bytes)
    BY <2>3, <2>4, SubSeqProperties, Zenon
  <2> QED
    BY <1>2, <2>2, <2>3, <2>5, Zenon
<1> QED
  BY <1>3, <1>4, Zenon

(* What follows decides on what the text becomes from i on.                *)
LEMMA RestSame ==
  ASSUME NEW bytes \in Seq(Bytes), NEW i \in 1 .. Len(bytes) + 1, NEW f, NEW g,
         \A k \in i + 1 .. Len(bytes) + 1 : f[k] = g[k]
  PROVE  Rest(bytes, f, i) = Rest(bytes, g, i)
<1>1. i > Len(bytes) \/ i \in 1 .. Len(bytes)
  BY SMT
<1>2. CASE i > Len(bytes)
  BY <1>2, Zenon DEF Rest
<1>3. CASE i \in 1 .. Len(bytes)
  BY <1>3, RestIs, Zenon
<1> QED
  BY <1>1, <1>2, <1>3, Zenon

LEMMA FromExists ==
  ASSUME NEW bytes \in Seq(Bytes)
  PROVE  \E f : IsFrom(bytes, f)
<1> DEFINE N == Len(bytes) + 1
           Part(f, i) == f = [j \in i .. N |-> Rest(bytes, f, j)]
           S == {i \in 1 .. N : \E f : Part(f, i)}
<1>1. Len(bytes) \in Nat /\ N \in Nat /\ 1 \in 1 .. N
  BY SMT
<1>2. ASSUME NEW i \in 1 .. N, \A j \in 1 .. N : j > i => j \in S
      PROVE  i \in S
  <2>1. PICK f : i < N => Part(f, i + 1)
    <3>1. i < N => i + 1 \in 1 .. N /\ i + 1 > i
      BY <1>1, SMT
    <3> HIDE DEF N
    <3> QED
      BY <1>2, <3>1, Zenon
  <2> DEFINE g == [j \in i .. N |-> IF j = i THEN Rest(bytes, f, i) ELSE f[j]]
             h == [j \in i .. N |-> Rest(bytes, g, j)]
  <2>2. ASSUME NEW j \in i .. N PROVE g[j] = Rest(bytes, g, j)
    <3>1. /\ \A k \in j + 1 .. N : k \in i .. N /\ k # i
          /\ j \in 1 .. N
          /\ j # i => i < N /\ j \in i + 1 .. N
      BY <1>1, SMT
    <3>2. \A k \in j + 1 .. N : f[k] = g[k]
      <4> HIDE DEF N
      <4> QED
        BY <3>1, Zenon
    <3>3. Rest(bytes, f, j) = Rest(bytes, g, j)
      <4> HIDE DEF g
      <4> QED
        BY <3>1, <3>2, RestSame, Zenon
    <3>4. g[j] = Rest(bytes, f, j)
      <4>1. CASE j = i
        BY <4>1, Zenon
      <4>2. CASE j # i
        <5>1. f[j] = Rest(bytes, f, j)
          <6> HIDE DEF N
          <6> QED
            BY <2>1, <3>1, <4>2, Zenon
        <5> QED
          BY <4>2, <5>1, Zenon
      <4> QED
        BY <4>1, <4>2, Zenon
    <3> QED
      BY <3>3, <3>4, Zenon
  <2>3. g = h
    <3>1. g = [j \in i .. N |-> g[j]] /\ h = [j \in i .. N |-> h[j]]
      BY Zenon
    <3>2. \A j \in i .. N : g[j] = h[j]
      <4> HIDE DEF g
      <4> QED
        BY <2>2, Zenon
    <3> HIDE DEF g, h
    <3> QED
      BY <3>1, <3>2
  <2>4. Part(g, i)
    BY <2>3, Zenon
  <2> HIDE DEF N, g
  <2> QED
    BY <2>4, Zenon
<1>3. 1 \in S
  <2> HIDE DEF S
  <2> QED
    BY <1>1, <1>2, Descending, Zenon
<1> QED
  BY <1>3, Zenon DEF IsFrom

(* At the end nothing is left; before it, one piece and what is after it.  *)
LEMMA FromIs ==
  ASSUME NEW bytes \in Seq(Bytes)
  PROVE  /\ From(bytes)[Len(bytes) + 1] = <<>>
         /\ \A i \in 1 .. Len(bytes) :
               From(bytes)[i] = <<PieceAt(bytes, i)>> \o From(bytes)[After(bytes, i)]
         /\ \A i \in 1 .. Len(bytes) + 1 : From(bytes)[i] \in Seq(Seq(Bytes))
<1> DEFINE N == Len(bytes) + 1
           f == From(bytes)
<1>1. /\ Len(bytes) \in Nat /\ N \in Nat /\ N \in 1 .. N /\ N > Len(bytes)
      /\ \A i \in 1 .. Len(bytes) : i \in 1 .. N
      /\ \A i \in 1 .. N : i \in 1 .. Len(bytes) \/ i = N
  BY SMT
<1>2. IsFrom(bytes, f)
  BY FromExists, Zenon DEF From
<1> HIDE DEF f
<1>3. \A i \in 1 .. N : f[i] = Rest(bytes, f, i)
  BY <1>2, Zenon DEF IsFrom
<1>4. f[N] = <<>>
  BY <1>1, <1>3, Zenon DEF Rest
<1>5. \A i \in 1 .. Len(bytes) : f[i] = <<PieceAt(bytes, i)>> \o f[After(bytes, i)]
  BY <1>1, <1>3, RestIs, Zenon
<1> DEFINE S == {i \in 1 .. N : f[i] \in Seq(Seq(Bytes))}
<1>6. ASSUME NEW i \in 1 .. N, \A j \in 1 .. N : j > i => j \in S
      PROVE  i \in S
  <2>1. CASE i = N
    <3>1. f[i] \in Seq(Seq(Bytes))
      BY <1>4, <2>1, EmptySeq, Zenon
    <3> QED
      BY <3>1, Zenon
  <2>2. CASE i \in 1 .. Len(bytes)
    <3> DEFINE a == After(bytes, i)
               p == PieceAt(bytes, i)
    <3>1. a \in i + 1 .. N /\ p \in Seq(Bytes)
      BY <2>2, RestIs, Zenon
    <3>2. f[i] = <<p>> \o f[a]
      BY <1>5, <2>2, Zenon
    <3> HIDE DEF a, p
    <3>3. a \in 1 .. N /\ a > i
      BY <1>1, <3>1, SMT
    <3>4. f[a] \in Seq(Seq(Bytes))
      BY <1>6, <3>3, Zenon
    <3> DEFINE P == Seq(Bytes)
    <3> HIDE DEF P
    <3>5. <<p>> \in Seq(P)
      <4>1. p \in P
        BY <3>1, Zenon DEF P
      <4> QED
        BY <4>1
    <3>6. f[i] \in Seq(P)
      BY <3>2, <3>4, <3>5, ConcatProperties, Zenon DEF P
    <3> QED
      BY <3>6, Zenon DEF P
  <2> QED
    BY <1>1, <2>1, <2>2, Zenon
<1>7. \A i \in 1 .. N : i \in S
  <2> HIDE DEF S
  <2> QED
    BY <1>1, <1>6, Descending, Zenon
<1> QED
  BY <1>4, <1>5, <1>7, Zenon DEF f

-----------------------------------------------------------------------------
(* The loop of escapeXml. *)

Writable(p) ==
    /\ p = Piece(p.char) /\ IsXmlCharacter(p.char)
    /\ p.char \in Nat /\ p.char <= MaxCodePoint /\ p.char \notin Surrogate

(* What becomes of a piece of the reference.                               *)
Shown(p) == IF IsControl(p) \/ IsNonCharacter(p) THEN Encoding(Replacement) ELSE p

LEMMA PieceIs == \A c : Piece(c).char = c /\ Piece(c).entity = (c \in Special)
  BY Zenon DEF Piece

LEMMA WritableIs ==
  ASSUME NEW c \in Nat, c <= MaxCodePoint, c \notin Surrogate, IsXmlCharacter(c)
  PROVE  Writable(Piece(c))
<1>1. Piece(c).char = c
  BY PieceIs, Zenon
<1> QED
  BY <1>1, Zenon DEF Writable

(* An iteration writes the next piece of the reference, and passes it.     *)
LEMMA WrittenIs ==
  ASSUME NEW bytes \in Seq(Bytes), NEW at \in Nat, at < Len(bytes),
         NEW d, d = DecodeUtf8(bytes, at),
         NEW w, w = IF d = Invalid \/ ~IsXmlCharacter(d.codePoint)
                    THEN Piece(Replacement) ELSE Piece(d.codePoint)
  PROVE  /\ Writable(w)
         /\ at + 1 + Advance(d) = After(bytes, at + 1)
         /\ Encoding(w.char) = Shown(PieceAt(bytes, at + 1))
<1> DEFINE i == at + 1
           c == d.codePoint
<1>1. Decoded(bytes, at, d)
  BY DecodeIs, Zenon
<1>2. ASSUME w = Piece(Replacement) PROVE Writable(w) /\ w.char = Replacement
  <2>1. Writable(Piece(Replacement))
    BY ReplacementIs, WritableIs, Zenon
  <2> QED
    BY <1>2, <2>1, PieceIs, Zenon
<1>3. CASE Fitting(bytes, i) = {}
  <2>1. d = Invalid
    BY <1>1, <1>3, Zenon DEF Decoded
  <2>2. Advance(d) = 1
    BY <2>1, Zenon DEF Advance
  <2>3. w = Piece(Replacement)
    BY <2>1, Zenon
  <2>4. Shown(PieceAt(bytes, i)) = Encoding(Replacement) /\ After(bytes, i) = i + 1
    BY <1>3, Zenon DEF PieceAt, After, Shown
  <2> QED
    BY <1>2, <2>2, <2>3, <2>4, Zenon
<1>4. CASE Fitting(bytes, i) # {}
  <2>1. /\ \A row \in Fitting(bytes, i) : row.length = d.length
        /\ d.length \in 1 .. 4 /\ i - 1 + d.length <= Len(bytes)
        /\ c \in Nat /\ c <= MaxCodePoint /\ c \notin Surrogate
        /\ Encoding(c) = SubSeq(bytes, i, at + d.length)
    <3>1. i - 1 = at
      BY SMT
    <3> QED
      BY <1>1, <1>4, <3>1, Zenon DEF Decoded
  <2>2. Fits(bytes, i) = d.length
    BY <1>4, <2>1, Zenon DEF Fits
  <2>3. d # Invalid
    <3>1. d.length # 0
      <4> HIDE DEF i, c
      <4> QED
        BY <2>1, SMT
    <3>2. Invalid.length = 0
      BY Zenon DEF Invalid
    <3> QED
      BY <3>1, <3>2, Zenon
  <2>4. Advance(d) = d.length
    BY <2>3, Zenon DEF Advance
  <2>5. PieceAt(bytes, i) = Encoding(c) /\ After(bytes, i) = i + d.length
    <3>1. i + d.length - 1 = at + d.length
      <4>1. d.length \in Int
        <5> HIDE DEF i, c
        <5> QED
          BY <2>1, SMT
      <4> QED
        BY <4>1, SMT
    <3> QED
      BY <1>4, <2>1, <2>2, <3>1, Zenon DEF PieceAt, After
  <2>6. CASE IsXmlCharacter(c)
    <3>1. w = Piece(c)
      BY <2>3, <2>6, Zenon
    <3>2. Writable(w) /\ w.char = c
      BY <2>1, <2>6, <3>1, PieceIs, WritableIs, Zenon
    <3>3. Shown(Encoding(c)) = Encoding(c)
      BY <2>1, <2>6, XmlBytes, Zenon DEF Shown
    <3> QED
      BY <2>4, <2>5, <3>2, <3>3, Zenon
  <2>7. CASE ~IsXmlCharacter(c)
    <3>1. w = Piece(Replacement)
      BY <2>7, Zenon
    <3>2. Shown(Encoding(c)) = Encoding(Replacement)
      BY <2>1, <2>7, XmlBytes, Zenon DEF Shown
    <3> QED
      BY <1>2, <2>4, <2>5, <3>1, <3>2, Zenon
  <2> QED
    BY <2>6, <2>7, Zenon
<1> QED
  BY <1>3, <1>4, Zenon

Character == [char : 0 .. MaxCodePoint, entity : BOOLEAN]

LEMMA WritableType == \A p : Writable(p) => p \in Character
<1> SUFFICES ASSUME NEW p, Writable(p) PROVE p \in Character
  BY Zenon
<1>1. p.char \in 0 .. MaxCodePoint
  <2>1. MaxCodePoint \in Nat /\ p.char \in Nat /\ p.char <= MaxCodePoint
    BY SMT DEF MaxCodePoint, Writable
  <2> QED
    BY <2>1, SMT
<1>2. p = [char |-> p.char, entity |-> p.char \in Special]
  BY Zenon DEF Writable, Piece
<1> DEFINE c == p.char
<1>3. /\ p = [char |-> c, entity |-> TRUE] \/ p = [char |-> c, entity |-> FALSE]
      /\ c \in 0 .. MaxCodePoint
  <2>1. CASE c \in Special
    BY <1>1, <1>2, <2>1
  <2>2. CASE c \notin Special
    BY <1>1, <1>2, <2>2
  <2> QED
    BY <2>1, <2>2, Zenon
<1> DEFINE chars == 0 .. MaxCodePoint
<1>4. c \in chars
  BY <1>3, Zenon
<1> HIDE DEF c, chars
<1>5. \A e \in BOOLEAN : [char |-> c, entity |-> e] \in [char : chars, entity : BOOLEAN]
  BY <1>4
<1> QED
  BY <1>3, <1>5, Zenon DEF Character, chars

(* The pieces that are written are the first of the reference's, and the   *)
(* others are what it makes of the text from the offset on.                *)
Kept ==
    \E pre \in Seq(Seq(Bytes)) :
        /\ From(value)[1] = pre \o From(value)[offset + 1]
        /\ Len(pre) = Len(escaped)
        /\ \A i \in 1 .. Len(escaped) : Encoding(escaped[i].char) = Shown(pre[i])

TextInv ==
    /\ value \in Seq(Bytes)
    /\ TextTypeOK
    /\ \A i \in 1 .. Len(escaped) : Writable(escaped[i])
    /\ Kept

(* What Append does, in one place.                                         *)
LEMMA AppendIs ==
  ASSUME NEW S, NEW s \in Seq(S), NEW e \in S
  PROVE  /\ Append(s, e) \in Seq(S) /\ Len(Append(s, e)) = Len(s) + 1
         /\ Append(s, e)[Len(s) + 1] = e
         /\ \A k \in 1 .. Len(s) : Append(s, e)[k] = s[k]
         /\ Append(s, e) = s \o <<e>> /\ <<e>> \in Seq(S)
<1>1. /\ Append(s, e) \in Seq(S) /\ Len(Append(s, e)) = Len(s) + 1
      /\ Append(s, e)[Len(s) + 1] = e
      /\ \A k \in 1 .. Len(s) : Append(s, e)[k] = s[k]
  BY AppendProperties, SMT
<1>2. <<e>> \in Seq(S)
  BY SMT
<1> QED
  BY <1>1, <1>2, AppendIsConcat, Zenon

LEMMA TextStarts ==
  ASSUME EscapeInit
  PROVE  TextInv
<1>1. value \in Seq(Bytes)
  <2>1. PICK n \in 0 .. MaxLength : value \in [1 .. n -> Byte]
    BY Zenon DEF EscapeInit
  <2>2. n \in Nat
    BY <2>1, LengthAssumption, SMT
  <2>3. \A k \in 1 .. n : value[k] \in Bytes
    BY <2>1, ByteAssumption, Zenon DEF Bytes
  <2>4. value = [k \in 1 .. n |-> value[k]]
    BY <2>1, Zenon
  <2> QED
    BY <2>2, <2>3, <2>4, SMT
<1>2. offset = 0 /\ escaped = <<>> /\ Len(escaped) = 0 /\ offset + 1 = 1
  BY SMT DEF EscapeInit
<1>3. escaped \in Seq(Character)
  BY <1>2, EmptySeq, Zenon
<1>4. offset \in Len(escaped) .. Len(value)
  BY <1>1, <1>2, SMT
<1>5. TextTypeOK
  BY <1>3, <1>4, Zenon DEF TextTypeOK, Character
<1>6. \A i \in 1 .. Len(escaped) : FALSE
  BY <1>2, SMT
<1>7. Kept
  <2> DEFINE P == Seq(Bytes)
  <2>1. From(value)[1] \in Seq(P)
    <3>1. 1 \in 1 .. Len(value) + 1
      BY <1>1, SMT
    <3> QED
      BY <1>1, <3>1, FromIs, Zenon
  <2>2. <<>> \in Seq(P) /\ Len(<<>>) = Len(escaped)
    BY <1>2, EmptySeq, Zenon
  <2>3. From(value)[1] = <<>> \o From(value)[offset + 1]
    BY <1>2, <2>1, ConcatEmptySeq, Zenon
  <2> QED
    BY <1>6, <2>2, <2>3, Zenon DEF Kept
<1> QED
  BY <1>1, <1>5, <1>6, <1>7, Zenon DEF TextInv

LEMMA TextStutters ==
  ASSUME TextInv, UNCHANGED textVars
  PROVE  TextInv'
<1>1. value' = value /\ offset' = offset /\ escaped' = escaped
  BY Zenon DEF textVars
<1> QED
  BY <1>1, Zenon DEF TextInv, TextTypeOK, Kept

LEMMA TextGoesOn ==
  ASSUME TextInv, EscapeNext
  PROVE  TextInv'
<1> DEFINE d == DecodeUtf8(value, offset)
           w == IF d = Invalid \/ ~IsXmlCharacter(d.codePoint)
                THEN Piece(Replacement) ELSE Piece(d.codePoint)
           n == Len(escaped)
           i == offset + 1
<1>1. /\ value \in Seq(Bytes) /\ offset \in n .. Len(value) /\ escaped \in Seq(Character)
      /\ \A k \in 1 .. n : Writable(escaped[k])
  BY Zenon DEF TextInv, TextTypeOK, Character
<1>2. /\ offset < Len(value) /\ value' = value
      /\ escaped' = Append(escaped, w) /\ offset' = offset + Advance(d)
  BY Zenon DEF EscapeNext
<1>3. n \in Nat /\ Len(value) \in Nat /\ offset \in Nat /\ i \in 1 .. Len(value)
  BY <1>1, <1>2, SMT
<1>4. /\ Writable(w)
      /\ i + Advance(d) = After(value, i)
      /\ Encoding(w.char) = Shown(PieceAt(value, i))
  BY <1>1, <1>2, <1>3, WrittenIs, Zenon
<1>5. w \in Character
  BY <1>4, WritableType, Zenon
<1>6. After(value, i) \in i + 1 .. Len(value) + 1 /\ PieceAt(value, i) \in Seq(Bytes)
  BY <1>1, <1>3, RestIs, Zenon
<1> HIDE DEF d, w
<1>7. /\ escaped' \in Seq(Character) /\ Len(escaped') = n + 1
      /\ \A k \in 1 .. n : escaped'[k] = escaped[k]
      /\ escaped'[n + 1] = w
  <2> DEFINE r == Append(escaped, w)
  <2>1. /\ r \in Seq(Character) /\ Len(r) = n + 1 /\ r[n + 1] = w
        /\ \A k \in 1 .. n : r[k] = escaped[k]
    BY <1>1, <1>5, AppendIs, SMT
  <2>2. escaped' = r
    BY <1>2, Zenon
  <2> HIDE DEF r
  <2> QED
    BY <2>1, <2>2, Zenon
<1>8. /\ offset' + 1 = After(value, i) /\ offset' \in n + 1 .. Len(value)
      /\ \A k \in 1 .. n + 1 : k \in 1 .. n \/ k = n + 1
  <2> DEFINE a == After(value, i)
  <2>1. a \in i + 1 .. Len(value) + 1 /\ i + Advance(d) = a
    BY <1>4, <1>6, Zenon
  <2>2. Advance(d) \in {0, 1} \cup Int
    <3>1. Advance(d) \in {1, d.length}
      BY Zenon DEF Advance
    <3>2. Decoded(value, offset, d)
      BY <1>1, <1>2, <1>3, DecodeIs, Zenon DEF d
    <3>3. d.length \in 1 .. 4 \/ d = Invalid
      BY <3>2, Zenon DEF Decoded
    <3> QED
      BY <3>1, <3>3, SMT DEF Invalid
  <2> HIDE DEF a
  <2> QED
    BY <1>1, <1>2, <1>3, <2>1, <2>2, SMT DEF a
<1>9. TextTypeOK'
  BY <1>2, <1>7, <1>8, Zenon DEF TextTypeOK, Character
<1>10. \A k \in 1 .. Len(escaped') : Writable(escaped'[k])
  <2> HIDE DEF n
  <2> QED
    BY <1>1, <1>4, <1>7, <1>8, Zenon
<1>11. Kept'
  <2> DEFINE P == Seq(Bytes)
             p == PieceAt(value, i)
             F == From(value)
             rest == F[After(value, i)]
  <2>1. PICK pre \in Seq(P) :
          /\ F[1] = pre \o F[i]
          /\ Len(pre) = n
          /\ \A k \in 1 .. n : Encoding(escaped[k].char) = Shown(pre[k])
    BY Zenon DEF TextInv, Kept
  <2>2. After(value, i) \in 1 .. Len(value) + 1
    <3> DEFINE a == After(value, i)
    <3>1. a \in i + 1 .. Len(value) + 1
      BY <1>6, Zenon
    <3> HIDE DEF a
    <3>2. a \in 1 .. Len(value) + 1
      BY <1>3, <3>1, SMT
    <3> QED
      BY <3>2, Zenon DEF a
  <2>3. F[i] = <<p>> \o rest /\ rest \in Seq(P)
    BY <1>1, <1>3, <2>2, FromIs, Zenon
  <2>4. p \in P
    BY <1>6, Zenon
  <2> DEFINE more == Append(pre, p)
  <2> HIDE DEF F, rest, p, P
  <2>5. <<p>> \in Seq(P) /\ more = pre \o <<p>>
    <3>1. <<p>> \in Seq(P)
      BY <2>4, SMT
    <3>2. \A e \in P : Append(pre, e) = pre \o <<e>>
      BY <2>1, AppendIsConcat, Zenon
    <3> QED
      BY <2>4, <3>1, <3>2, Zenon
  <2>6. F[1] = more \o rest
    <3> HIDE DEF more, i
    <3> DEFINE one == <<p>>
    <3>1. one \in Seq(P) /\ rest \in Seq(P) /\ pre \in Seq(P)
      BY <2>3, <2>5, Zenon
    <3>2. (pre \o one) \o rest = pre \o (one \o rest)
      <4> HIDE DEF one
      <4> QED
        BY <3>1, ConcatAssociative, SMT
    <3> QED
      BY <2>1, <2>3, <2>5, <3>2, Zenon
  <2>7. /\ more \in Seq(P) /\ Len(more) = Len(pre) + 1 /\ more[Len(pre) + 1] = p
        /\ \A k \in 1 .. Len(pre) : more[k] = pre[k]
    BY <2>1, <2>4, AppendIs, SMT
  <2>8. Encoding(w.char) = Shown(p)
    BY <1>4, Zenon DEF p
  <2> HIDE DEF more, n
  <2>9. \A k \in 1 .. n + 1 : Encoding(escaped'[k].char) = Shown(more[k])
    BY <1>7, <1>8, <2>1, <2>7, <2>8, Zenon
  <2>10. Seq(Seq(Bytes)) = Seq(P)
    BY Zenon DEF P
  <2>11. From(value')[1] = more \o From(value')[offset' + 1]
    BY <1>2, <1>8, <2>6, Zenon DEF F, rest
  <2> QED
    BY <1>7, <2>1, <2>7, <2>9, <2>10, <2>11, Zenon DEF Kept
<1> QED
  BY <1>1, <1>2, <1>9, <1>10, <1>11, Zenon DEF TextInv

LEMMA TextInvariant == EscapeSpec => []TextInv
<1>1. TextInv /\ [EscapeNext]_textVars => TextInv'
  BY TextStutters, TextGoesOn, Zenon
<1> QED
  BY <1>1, TextStarts, PTL DEF EscapeSpec

(* The loop of escapeXml ends and stays in the value, for every value of   *)
(* any length: each iteration consumes a byte at least and no byte that is *)
(* not there, and what it writes is code points.                           *)
THEOREM TextTypeCorrect == EscapeSpec => []TextTypeOK
<1>1. TextInv => TextTypeOK
  BY Zenon DEF TextInv
<1> QED
  BY <1>1, TextInvariant, PTL

(* Whatever the bytes of a name or message, what stands in the report is   *)
(* well-formed UTF-8 of characters that XML allows, with the markup        *)
(* characters as entities.                                                 *)
THEOREM OutputIsXml == EscapeSpec => []OutputIsXmlText
<1>1. TextInv => OutputIsXmlText
  <2> SUFFICES ASSUME TextInv, NEW i \in DOMAIN escaped
               PROVE  /\ Fitting(Encoding(escaped[i].char), 1) # {}
                      /\ ~IsControl(Encoding(escaped[i].char))
                      /\ ~IsNonCharacter(Encoding(escaped[i].char))
                      /\ escaped[i].entity <=> escaped[i].char \in Special
    BY Zenon DEF OutputIsXmlText, Special
  <2> DEFINE c == escaped[i].char
  <2>1. escaped \in Seq(Character)
    BY Zenon DEF TextInv, TextTypeOK, Character
  <2>2. i \in 1 .. Len(escaped)
    BY <2>1, LenProperties, Zenon
  <2>3. Writable(escaped[i])
    BY <2>2, Zenon DEF TextInv
  <2>4. c \in Nat /\ c <= MaxCodePoint /\ c \notin Surrogate /\ IsXmlCharacter(c)
    BY <2>3, Zenon DEF Writable
  <2>5. escaped[i].entity = (c \in Special)
    BY <2>3, PieceIs, Zenon DEF Writable
  <2> HIDE DEF c
  <2>6. Fitting(Encoding(c), 1) # {} /\ ~IsControl(Encoding(c)) /\ ~IsNonCharacter(Encoding(c))
    BY <2>4, EncodingFits, XmlBytes, Zenon
  <2> QED
    BY <2>5, <2>6, Zenon DEF c
<1> QED
  BY <1>1, TextInvariant, PTL

(* Every well-formed character of a name or message that XML allows is in  *)
(* the report, in its place, whatever bytes stand around it; each other    *)
(* one, and each byte that is part of none, is U+FFFD.                     *)
THEOREM TextIsKept == EscapeSpec => []KeepsEveryCharacter
<1>1. TextInv => KeepsEveryCharacter
  <2> DEFINE pieces == Pieces(value)
  <2> SUFFICES ASSUME TextInv, offset >= Len(value)
               PROVE  /\ Len(escaped) = Len(pieces)
                      /\ \A i \in DOMAIN pieces :
                            Encoding(escaped[i].char) = Shown(pieces[i])
    BY Zenon DEF KeepsEveryCharacter, Shown
  <2>1. value \in Seq(Bytes) /\ offset \in Len(escaped) .. Len(value) /\ Kept
    BY Zenon DEF TextInv, TextTypeOK
  <2>2. offset + 1 = Len(value) + 1
    BY <2>1, SMT
  <2>3. PICK pre \in Seq(Seq(Bytes)) :
          /\ From(value)[1] = pre \o From(value)[offset + 1]
          /\ Len(pre) = Len(escaped)
          /\ \A i \in 1 .. Len(escaped) : Encoding(escaped[i].char) = Shown(pre[i])
    BY <2>1, Zenon DEF Kept
  <2>4. From(value)[offset + 1] = <<>>
    BY <2>1, <2>2, FromIs, Zenon
  <2>5. pieces = pre
    <3>1. pre \o <<>> = pre
      BY <2>3, ConcatEmptySeq, Zenon
    <3> QED
      BY <2>3, <2>4, <3>1, PiecesFrom, Zenon
  <2>6. DOMAIN pre = 1 .. Len(pre)
    BY <2>3, LenProperties, Zenon
  <2> QED
    BY <2>3, <2>5, <2>6, Zenon
<1> QED
  BY <1>1, TextInvariant, PTL
=============================================================================
