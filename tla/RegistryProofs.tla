--------------------------- MODULE RegistryProofs ---------------------------
(* Proofs about Registry: names stay unique, suites are registered while     *)
(* they are owned, and who asked for suites was told the truth.              *)
EXTENDS Registry, FiniteSetTheorems, WellFoundedInduction, TLAPS

(* A set of natural numbers has a least element: what an induction over the *)
(* positions of a sequence rests on.                                       *)
LEMMA LeastElement ==
    ASSUME NEW S, S \subseteq Nat, S # {}
    PROVE  \E n \in S : \A m \in S : n <= m
<1>1. PICK n \in S : \A m \in S : <<m, n>> \notin OpToRel(<, Nat)
  BY NatLessThanWellFounded, WFMin, Zenon
<1>2. \A m \in S : ~(m < n)
  BY <1>1, Zenon DEF OpToRel
<1> QED
  BY <1>2

(* The recursion of Selected has a solution, and Selected is it.            *)
LEMMA SelectedUnfolds ==
    ASSUME NEW S, NEW s \in Seq(S), NEW T
    PROVE  /\ DOMAIN Selected(s, T) = 0 .. Len(s)
           /\ Selected(s, T)[0] = <<>>
           /\ \A i \in 1 .. Len(s) :
                 Selected(s, T)[i] = IF s[i] \in T THEN Append(Selected(s, T)[i - 1], s[i])
                                     ELSE Selected(s, T)[i - 1]
<1> DEFINE Step(f, i) == IF i = 0 THEN <<>>
                         ELSE IF s[i] \in T THEN Append(f[i - 1], s[i]) ELSE f[i - 1]
           Solves(f, n) == f = [i \in 0 .. n |-> Step(f, i)]
           Bad == {n \in Nat : ~\E f : Solves(f, n)}
<1>1. Bad = {}
  <2> SUFFICES ASSUME Bad # {} PROVE FALSE
    OBVIOUS
  <2>1. PICK n \in Bad : \A m \in Bad : n <= m
    <3>1. Bad \subseteq Nat
      OBVIOUS
    <3> HIDE DEF Bad
    <3> QED
      BY <3>1, LeastElement
  <2>2. CASE n = 0
    <3>1. Solves([i \in 0 .. 0 |-> <<>>], 0)
      OBVIOUS
    <3> QED
      BY <2>2, <3>1, <2>1
  <2>3. CASE n # 0
    <3>0. n \in Nat /\ Bad \subseteq Nat
      BY <2>1
    <3>1. n - 1 \in Nat /\ n - 1 \notin Bad
      <4> HIDE DEF Bad
      <4> QED BY <3>0, <2>1, <2>3
    <3>2. PICK f : Solves(f, n - 1)
      BY <3>1
    <3> DEFINE g == [i \in 0 .. n |-> IF i = n THEN Step(f, n) ELSE f[i]]
    <3>3. ASSUME NEW i \in 0 .. n PROVE g[i] = Step(g, i)
      <4>1. i # 0 => g[i - 1] = f[i - 1]
        BY <3>1
      <4>2. Step(g, i) = Step(f, i)
        BY <4>1
      <4>3. i # n => i \in 0 .. n - 1 
        BY <3>1
      <4>3a. i # n => f[i] = Step(f, i)
        <5> HIDE DEF Step
        <5> QED BY <4>3, <3>2
      <4> QED
        <5> HIDE DEF Step
        <5> QED BY <4>2, <4>3a
    <3>4. Solves(g, n)
      <4> HIDE DEF Step
      <4> QED BY <3>3
    <3> QED
      BY <3>4, <2>1
  <2> QED
    BY <2>2, <2>3
<1>2. Len(s) \in Nat /\ Len(s) \notin Bad
  BY <1>1
<1>3. Solves(Selected(s, T), Len(s))
  <2>1. \E f : Solves(f, Len(s))
    BY <1>2
  <2>2. Selected(s, T) = CHOOSE f : Solves(f, Len(s))
    BY DEF Selected
  <2> HIDE DEF Solves
  <2> QED
    BY <2>1, <2>2
<1> DEFINE kept == Selected(s, T)
<1>4. kept = [i \in 0 .. Len(s) |-> Step(kept, i)]
  BY <1>3
<1>5. \A i \in 0 .. Len(s) : kept[i] = Step(kept, i)
  <2> HIDE DEF Step, kept
  <2> QED
    BY <1>4
<1> HIDE DEF Bad, kept
<1>6. DOMAIN kept = 0 .. Len(s) /\ kept[0] = <<>>
  BY <1>2, <1>4, <1>5
<1>7. ASSUME NEW i \in 1 .. Len(s)
      PROVE  kept[i] = IF s[i] \in T THEN Append(kept[i - 1], s[i]) ELSE kept[i - 1]
  BY <1>2, <1>5
<1> QED
  BY <1>6, <1>7 DEF kept

(* The first i elements of s that are in T: no other elements, none missing, *)
(* and none twice unless s has it twice.                                     *)
LEMMA SelectedElements ==
    ASSUME NEW S, NEW s \in Seq(S), NEW T, NEW i \in 0 .. Len(s)
    PROVE  /\ Selected(s, T)[i] \in Seq(S)
           /\ \A k \in DOMAIN Selected(s, T)[i] :
                 \E j \in 1 .. i : s[j] \in T /\ Selected(s, T)[i][k] = s[j]
           /\ \A j \in 1 .. i : s[j] \in T =>
                 \E k \in DOMAIN Selected(s, T)[i] : Selected(s, T)[i][k] = s[j]
           /\ IsInjective(s) => IsInjective(Selected(s, T)[i])
<1> DEFINE kept == Selected(s, T)
           OfType(n) == kept[n] \in Seq(S)
           NoOther(n) == \A k \in DOMAIN kept[n] : \E j \in 1 .. n : s[j] \in T /\ kept[n][k] = s[j]
           NoneMissing(n) == \A j \in 1 .. n : s[j] \in T =>
                                \E k \in DOMAIN kept[n] : kept[n][k] = s[j]
           Once(n) == IsInjective(s) => IsInjective(kept[n])
           Good(n) == OfType(n) /\ NoOther(n) /\ NoneMissing(n) /\ Once(n)
           Bad == {n \in 0 .. Len(s) : ~Good(n)}
<1>0. Len(s) \in Nat /\ \A n \in 1 .. Len(s) : s[n] \in S
  OBVIOUS
<1>1. kept[0] = <<>> /\ \A n \in 1 .. Len(s) :
         kept[n] = IF s[n] \in T THEN Append(kept[n - 1], s[n]) ELSE kept[n - 1]
  BY SelectedUnfolds
<1> HIDE DEF kept
<1>2. Good(0)
  BY <1>1 DEF IsInjective
<1>3. ASSUME NEW n \in 1 .. Len(s), Good(n - 1) PROVE Good(n)
  <2> DEFINE p == kept[n - 1]
  <2>1. p \in Seq(S) /\ DOMAIN p = 1 .. Len(p) /\ Len(p) \in Nat /\ n \in Nat
    BY <1>3, <1>0
  <2>2. NoOther(n - 1) /\ NoneMissing(n - 1) /\ Once(n - 1)
    BY <1>3
  <2>3. CASE s[n] \notin T
    <3>1. kept[n] = p
      BY <1>1, <2>3
    <3>2. \A j \in 1 .. n : s[j] \in T => j \in 1 .. n - 1
      BY <2>1, <2>3
    <3> HIDE DEF p
    <3> QED
      BY <3>1, <3>2, <2>1, <2>2 DEF p
  <2>4. CASE s[n] \in T
    <3> DEFINE q == Append(p, s[n])
    <3>1. kept[n] = q
      BY <1>1, <2>4
    <3>2. /\ q \in Seq(S) /\ DOMAIN q = 1 .. Len(p) + 1
          /\ q[Len(p) + 1] = s[n] /\ \A k \in 1 .. Len(p) : q[k] = p[k]
      BY <2>1, <1>0
    <3>3. \A k \in 1 .. Len(p) : \E j \in 1 .. n - 1 : s[j] \in T /\ p[k] = s[j]
      BY <2>1, <2>2
    <3>4. \A j \in 1 .. n - 1 : s[j] \in T => \E k \in 1 .. Len(p) : p[k] = s[j]
      BY <2>1, <2>2
    <3> HIDE DEF p, q
    <3>5. OfType(n)
      BY <3>1, <3>2
    <3>6. NoOther(n)
      <4> SUFFICES ASSUME NEW k \in 1 .. Len(p) + 1
                   PROVE  \E j \in 1 .. n : s[j] \in T /\ q[k] = s[j]
        BY <3>1, <3>2
      <4>1. CASE k = Len(p) + 1
        BY <4>1, <3>2, <2>1, <2>4
      <4>2. CASE k \in 1 .. Len(p)
        BY <4>2, <3>2, <3>3, <2>1
      <4> QED
        BY <4>1, <4>2, <2>1
    <3>7. NoneMissing(n)
      <4> SUFFICES ASSUME NEW j \in 1 .. n, s[j] \in T
                   PROVE  \E k \in 1 .. Len(p) + 1 : q[k] = s[j]
        BY <3>1, <3>2
      <4>1. CASE j = n
        BY <4>1, <3>2, <2>1
      <4>2. CASE j \in 1 .. n - 1
        BY <4>2, <3>2, <3>4, <2>1
      <4> QED
        BY <4>1, <4>2, <2>1
    <3>8. Once(n)
      <4> SUFFICES ASSUME IsInjective(s) PROVE IsInjective(q)
        BY <3>1
      <4>1. \A k \in 1 .. Len(p) : p[k] # s[n]
        BY <3>3, <2>1, <1>0 DEF IsInjective
      <4>2. IsInjective(p)
        BY <2>2 DEF p
      <4> QED
        BY <4>1, <4>2, <3>2, <2>1 DEF IsInjective
    <3> QED
      BY <3>5, <3>6, <3>7, <3>8
  <2> QED
    BY <2>3, <2>4
<1> HIDE DEF Good
<1>4. Bad = {}
  <2> SUFFICES ASSUME Bad # {} PROVE FALSE
    OBVIOUS
  <2>1. Bad \subseteq Nat
    BY <1>0
  <2>2. PICK n \in Bad : \A m \in Bad : n <= m
    <3> HIDE DEF Bad
    <3> QED
      BY <2>1, LeastElement
  <2>3. n \in 1 .. Len(s) /\ n - 1 \in 0 .. Len(s) /\ ~Good(n)
    BY <1>0, <1>2, <2>2
  <2>4. n - 1 \notin Bad
    <3> HIDE DEF Bad
    <3> QED
      BY <2>2, <2>3
  <2> QED
    BY <1>3, <2>3, <2>4
<1>5. Good(i)
  BY <1>4
<1> QED
  BY <1>5 DEF Good, kept
-----------------------------------------------------------------------------
(* The invariant. *)

(* What a thread's operation works on. *)
OperationOf(t) ==
    /\ pc[t] \in {"register", "append", "record", "assign"} => op[t].target \in Handle
    /\ pc[t] \in {"register", "append", "record"} => op[t].name \in Name
    /\ pc[t] \in {"register", "append", "unregister"} => op[t].suite # "null"
    /\ pc[t] \in {"idle", "record", "filter", "holding"} => op[t].suite = "null"
    /\ pc[t] \in {"register", "append"} => name[op[t].suite] = op[t].name
    /\ pc[t] \notin {"filter", "holding"} => found[t] = <<>>

Operations == \A t \in Thread : OperationOf(t)

(* A suite has one owner at most, among handles and operations. *)
OneOwner ==
    /\ \A h, g \in Handle : handle[h] # "null" /\ handle[h] = handle[g] => h = g
    /\ \A t, u \in Thread : op[t].suite # "null" /\ op[t].suite = op[u].suite => t = u
    /\ \A h \in Handle, t \in Thread : handle[h] # "null" => handle[h] # op[t].suite

(* The owned suites are registered, once, but for those on their way to    *)
(* the registry.                                                           *)
IsOwned(o) ==
    \/ \E h \in Handle : handle[h] = o
    \/ \E t \in Thread : op[t].suite = o /\ pc[t] \in {"assign", "unregister"}

Registered ==
    /\ IsInjective(registered)
    /\ \A o \in Object : o \in Range(registered) <=> IsOwned(o)

(* A suite that exists has its name. *)
Named == \A o \in InUse : name[o] \in Name

(* From the comparison until the suite is appended, its name is not taken:  *)
(* the thread holds the lock alone.                                        *)
LockedOf(t) ==
    pc[t] = "append" => /\ ~NameTaken(op[t].name)
                        /\ \A u \in Thread \ {t} : pc[u] \notin {"append", "filter"}

Locked == \A t \in Thread : LockedOf(t)

Inv == /\ TypeOK /\ Operations /\ OneOwner /\ Registered /\ Named /\ Locked
       /\ NamesUnique /\ SnapshotStaysTrue /\ FilterSeesOneRegistry

LEMMA InvInit == Init => Inv
<1> SUFFICES ASSUME Init PROVE Inv
  OBVIOUS
<1>1. TypeOK
  BY DEF Init, TypeOK, NoOp, Operation
<1>2. Operations /\ OneOwner
  BY DEF Init, Operations, OperationOf, OneOwner, NoOp
<1>3. Registered
  BY RegistryAssumption DEF Init, Registered, IsOwned, IsInjective, Range, NoOp
<1>4. InUse = {}
  BY DEF Init, InUse, Owned, NoOp, Range
<1>5. Named /\ Locked /\ NamesUnique /\ SnapshotStaysTrue /\ FilterSeesOneRegistry
  BY <1>4 DEF Init, Named, Locked, LockedOf, NamesUnique, SnapshotStaysTrue, FilterSeesOneRegistry
<1> QED
  BY <1>1, <1>2, <1>3, <1>5 DEF Inv

(* Who uses a suite. *)
Uses(o) ==
    \/ o # "null" /\ \E h \in Handle : handle[h] = o
    \/ o # "null" /\ \E t \in Thread : op[t].suite = o
    \/ o # "null" /\ o \in Range(registered)
    \/ \E t \in Thread : o \in Range(found[t])

LEMMA InUseIsUsed == \A o : o \in InUse <=> Uses(o)
BY DEF InUse, Owned, Uses

LEMMA AppendRange ==
    ASSUME NEW S, NEW s \in Seq(S), NEW x \in S
    PROVE  /\ Append(s, x) \in Seq(S)
           /\ Range(Append(s, x)) = Range(s) \cup {x}
           /\ IsInjective(s) /\ x \notin Range(s) => IsInjective(Append(s, x))
<1>1. /\ DOMAIN s = 1 .. Len(s) /\ Len(s) \in Nat
      /\ DOMAIN Append(s, x) = 1 .. Len(s) + 1
      /\ Append(s, x)[Len(s) + 1] = x
      /\ \A i \in 1 .. Len(s) : Append(s, x)[i] = s[i]
  OBVIOUS
<1>2. \A i : i \in 1 .. Len(s) + 1 <=> i \in 1 .. Len(s) \/ i = Len(s) + 1
  BY <1>1
<1>3. Range(Append(s, x)) = Range(s) \cup {x}
  BY <1>1, <1>2 DEF Range
<1>4. IsInjective(s) /\ x \notin Range(s) => IsInjective(Append(s, x))
  BY <1>1, <1>2 DEF Range, IsInjective
<1> QED
  BY <1>3, <1>4

LEMMA SelectedRange ==
    ASSUME NEW S, NEW s \in Seq(S), NEW T
    PROVE  /\ Selected(s, T)[Len(s)] \in Seq(S)
           /\ Range(Selected(s, T)[Len(s)]) = Range(s) \cap T
           /\ IsInjective(s) => IsInjective(Selected(s, T)[Len(s)])
<1>1. Len(s) \in 0 .. Len(s) /\ DOMAIN s = 1 .. Len(s)
  OBVIOUS
<1> QED
  BY <1>1, SelectedElements DEF Range

-----------------------------------------------------------------------------
(* No operation is one of the operations a thread may be in. *)
LEMMA NoOpType == NoOp \in Operation
BY DEF NoOp, Operation

(* What a step has to keep for the snapshots and filters of all threads.   *)

(* SnapshotStaysTrue and FilterSeesOneRegistry, of one thread. *)
SnapshotOf(t) ==
    /\ \A i \in DOMAIN found[t] : name[found[t][i]] \in op[t].wanted
    /\ \A i, j \in DOMAIN found[t] : name[found[t][i]] = name[found[t][j]] => i = j

FilterOf(t) ==
    pc[t] = "filter" => /\ op[t].next - 1 <= Len(registered)
                        /\ found[t] = Selected(registered, Wanted(t))[op[t].next - 1]

(* A step that leaves an operation alone, and what it uses. *)
LEMMA OperationKept ==
    ASSUME Inv, NEW u \in Thread,
           op'[u] = op[u], pc'[u] = pc[u], found'[u] = found[u],
           \A o \in InUse : Uses(o)' => name'[o] = name[o]
    PROVE  OperationOf(u)'
<1>1. OperationOf(u)
  BY DEF Inv, Operations
<1>2. pc[u] \in {"register", "append"} => op[u].suite \in InUse /\ Uses(op[u].suite)'
  BY <1>1, InUseIsUsed DEF OperationOf, Uses
<1> QED
  BY <1>1, <1>2 DEF OperationOf

LEMMA SnapshotKept ==
    ASSUME Inv, NEW u \in Thread,
           found'[u] # <<>> => found'[u] = found[u] /\ op'[u].wanted = op[u].wanted,
           \A o \in InUse : Uses(o)' => name'[o] = name[o]
    PROVE  SnapshotOf(u)'
<1> SUFFICES ASSUME found'[u] # <<>> PROVE SnapshotOf(u)'
  BY DEF SnapshotOf
<1>1. found'[u] = found[u] /\ op'[u].wanted = op[u].wanted
  OBVIOUS
<1>2. \A i \in DOMAIN found[u] : name'[found[u][i]] = name[found[u][i]]
  <2> SUFFICES ASSUME NEW i \in DOMAIN found[u] PROVE name'[found[u][i]] = name[found[u][i]]
    OBVIOUS
  <2>1. found[u][i] \in Range(found[u])
    BY DEF Range
  <2>2. found[u][i] \in InUse
    BY <2>1, InUseIsUsed DEF Uses
  <2>3. Uses(found[u][i])'
    BY <1>1, <2>1 DEF Uses
  <2> QED
    BY <2>2, <2>3
<1> QED
  BY <1>1, <1>2 DEF Inv, SnapshotStaysTrue, SnapshotOf

LEMMA NextInUseIsUsed == \A o : (o \in InUse)' <=> Uses(o)'
BY DEF InUse, Owned, Uses

(* Registered suites are told apart by their names as by their places. *)
LEMMA NamesTellApart ==
    ASSUME Inv
    PROVE  \A o, p \in Range(registered) : name[o] = name[p] => o = p
BY DEF Inv, NamesUnique, Range

(* No suite is added, and those still used keep their names. *)
LEMMA NamesKept ==
    ASSUME Inv, TypeOK', Registered',
           Range(registered') \subseteq Range(registered),
           \A o : Uses(o)' => Uses(o) /\ name'[o] = name[o]
    PROVE  Named' /\ NamesUnique'
<1>1. Named'
  BY InUseIsUsed, NextInUseIsUsed DEF Named, Inv
<1>2. \A o \in Range(registered') : name'[o] = name[o]
  <2> SUFFICES ASSUME NEW o \in Range(registered') PROVE name'[o] = name[o]
    OBVIOUS
  <2>1. o \in Object
    BY DEF TypeOK, Range
  <2> QED
    BY <2>1, RegistryAssumption DEF Uses
<1>3. NamesUnique'
  <2> SUFFICES ASSUME NEW i \in DOMAIN registered', NEW j \in DOMAIN registered',
                      name'[registered'[i]] = name'[registered'[j]]
               PROVE  i = j
    BY DEF NamesUnique
  <2>1. registered'[i] \in Range(registered') /\ registered'[j] \in Range(registered')
    BY DEF Range
  <2>2. registered'[i] = registered'[j]
    BY <1>2, <2>1, NamesTellApart
  <2> QED
    BY <2>2 DEF Registered, IsInjective
<1> QED
  BY <1>1, <1>3

(* The suites a filter is called for stay registered, with their names. *)
LEMMA FilterKept ==
    ASSUME Inv, NEW u \in Thread,
           pc'[u] = "filter" =>
              pc[u] = "filter" /\ registered' = registered /\ op'[u] = op[u] /\ found'[u] = found[u],
           \A o \in InUse : Uses(o)' => name'[o] = name[o]
    PROVE  FilterOf(u)'
<1> SUFFICES ASSUME pc'[u] = "filter" PROVE FilterOf(u)'
  BY DEF FilterOf
<1>1. pc[u] = "filter" /\ registered' = registered /\ op'[u] = op[u] /\ found'[u] = found[u]
  OBVIOUS
<1>2. \A o \in Range(registered) : name'[o] = name[o]
  <2> SUFFICES ASSUME NEW o \in Range(registered) PROVE name'[o] = name[o]
    OBVIOUS
  <2>1. o \in Object
    BY DEF TypeOK, Range, Inv
  <2>2. o \in InUse /\ Uses(o)'
    BY <2>1, <1>1, RegistryAssumption, InUseIsUsed DEF Uses
  <2> QED
    BY <2>2
<1>3. Wanted(u)' = Wanted(u)
  BY <1>1, <1>2 DEF Wanted
<1> QED
  BY <1>1, <1>3 DEF Inv, FilterSeesOneRegistry, FilterOf

(* A lock is taken when it may be, and the exclusive one is kept only for a *)
(* name that is not taken.                                                  *)
LockTaken(t) ==
    /\ pc'[t] = "filter" => pc[t] = "filter" \/ MayRead
    /\ pc'[t] = "append" => MayWrite /\ ~NameTaken(op'[t].name)

(* Then who held a lock is not disturbed, if no suite is added. *)
LEMMA LockKept ==
    ASSUME Inv, NEW t \in Thread, LockTaken(t),
           \A u \in Thread \ {t} : op'[u] = op[u] /\ pc'[u] = pc[u],
           Range(registered') \subseteq Range(registered),
           \A o \in Range(registered') : name'[o] = name[o]
    PROVE  Locked'
<1>1. \A n : NameTaken(n)' => NameTaken(n)
  BY DEF NameTaken
<1> SUFFICES ASSUME NEW u \in Thread, pc'[u] = "append"
             PROVE  /\ ~NameTaken(op[u].name)'
                    /\ \A v \in Thread \ {u} : pc'[v] \notin {"append", "filter"}
  BY DEF Locked, LockedOf
<1>2. CASE u = t
  BY <1>1, <1>2 DEF LockTaken, MayWrite
<1>3. CASE u # t
  <2>1. pc[u] = "append" /\ op'[u] = op[u] /\ LockedOf(u)
    BY <1>3 DEF Inv, Locked
  <2>2. ~NameTaken(op[u].name)'
    BY <1>1, <2>1 DEF LockedOf
  <2>3. pc'[t] \notin {"append", "filter"}
    BY <1>3, <2>1 DEF LockTaken, MayRead, MayWrite, LockedOf
  <2> QED
    BY <2>1, <2>2, <2>3 DEF LockedOf
<1> QED
  BY <1>2, <1>3

(* The step of one thread that adds no suite, and leaves to those that are *)
(* still used their names. Filters of others see no change of the registry. *)
LEMMA StepOfOneThread ==
    ASSUME Inv, NEW t \in Thread, TypeOK', OneOwner', Registered', OperationOf(t)',
           LockTaken(t),
           Range(registered') \subseteq Range(registered),
           registered' = registered \/ MayWrite,
           \A u \in Thread \ {t} : op'[u] = op[u] /\ pc'[u] = pc[u] /\ found'[u] = found[u],
           \A o : Uses(o)' => Uses(o) /\ name'[o] = name[o],
           SnapshotOf(t)', FilterOf(t)'
    PROVE  Inv'
<1>1. Named' /\ NamesUnique'
  BY NamesKept
<1>2. \A o \in InUse : Uses(o)' => name'[o] = name[o]
  OBVIOUS
<1>3. ASSUME NEW u \in Thread \ {t}
      PROVE  OperationOf(u)' /\ SnapshotOf(u)' /\ FilterOf(u)'
  <2>1. op'[u] = op[u] /\ pc'[u] = pc[u] /\ found'[u] = found[u] /\ u \in Thread
    BY <1>3
  <2>2. OperationOf(u)'
    BY <1>2, <2>1, OperationKept
  <2>3. SnapshotOf(u)'
    BY <1>2, <2>1, SnapshotKept
  <2>4. FilterOf(u)'
    BY <1>2, <2>1, FilterKept DEF MayWrite
  <2> QED
    BY <2>2, <2>3, <2>4
<1>4. Operations'
  BY <1>3 DEF Operations
<1>5. SnapshotStaysTrue'
  BY <1>3 DEF SnapshotStaysTrue, SnapshotOf
<1>6. FilterSeesOneRegistry'
  BY <1>3 DEF FilterSeesOneRegistry, FilterOf
<1>7. Locked'
  <2>1. \A o \in Range(registered') : Uses(o)'
    BY RegistryAssumption DEF Uses, TypeOK, Range
  <2> QED
    BY <2>1, LockKept
<1> QED
  BY <1>1, <1>4, <1>5, <1>6, <1>7 DEF Inv

-----------------------------------------------------------------------------
(* One lemma per action. *)

LEMMA DefineInv ==
    ASSUME Inv, NEW t \in Thread, NEW h \in Handle, NEW n \in Name, NEW o \in Object,
           NEW rejected \in BOOLEAN, Define(t, h, n, o, rejected)
    PROVE  Inv'
<1> DEFINE suite == IF rejected THEN "null" ELSE o
<1>1. /\ pc[t] = "idle" /\ o \in Object \ InUse
      /\ op' = [op EXCEPT ![t] = [NoOp EXCEPT !.target = h, !.name = n, !.suite = suite]]
      /\ name' = IF rejected THEN name ELSE [name EXCEPT ![o] = n]
      /\ pc' = [pc EXCEPT ![t] = IF rejected THEN "record" ELSE "register"]
      /\ UNCHANGED <<registered, errors, handle, found>>
  BY DEF Define, Goto
<1>2. ~Uses(o) /\ o # "null" /\ op[t].suite = "null" /\ found[t] = <<>>
  BY <1>1, InUseIsUsed, RegistryAssumption DEF Inv, Operations, OperationOf
<1>3. TypeOK'
  <2>1. [NoOp EXCEPT !.target = h, !.name = n, !.suite = suite] \in Operation
    BY NoOpType DEF Operation
  <2>2. op' \in [Thread -> Operation]
    BY <1>1, <2>1 DEF Inv, TypeOK
  <2> QED
    BY <1>1, <2>2 DEF Inv, TypeOK
<1>4. op'[t] = [NoOp EXCEPT !.target = h, !.name = n, !.suite = suite]
  BY <1>1 DEF Inv, TypeOK
<1>5. \A u \in Thread : u # t => op'[u] = op[u] /\ pc'[u] = pc[u]
  BY <1>1 DEF Inv, TypeOK
<1>6. \A p : Uses(p)' => (Uses(p) /\ p # o /\ name'[p] = name[p]) \/ (p = o /\ ~rejected)
  <2> SUFFICES ASSUME NEW p, Uses(p)', p # o \/ rejected
               PROVE  Uses(p) /\ p # o /\ name'[p] = name[p]
    OBVIOUS
  <2>1. Uses(p)
    BY <1>1, <1>2, <1>4, <1>5 DEF Uses, NoOp
  <2> QED
    BY <1>1, <1>2, <2>1 DEF Inv, TypeOK
<1>7. OperationOf(t)'
  <2>2. /\ op'[t].target \in Handle /\ op'[t].name \in Name /\ op'[t].suite = suite
        /\ found'[t] = <<>>
    BY <1>1, <1>2, <1>4 DEF NoOp
  <2>3. ~rejected => name'[o] = n /\ op'[t].name = n
    BY <1>1, <1>4 DEF Inv, TypeOK, NoOp
  <2>4. pc'[t] = IF rejected THEN "record" ELSE "register"
    BY <1>1 DEF Inv, TypeOK
  <2> QED
    BY <1>2, <2>2, <2>3, <2>4 DEF OperationOf
<1>8. OneOwner'
  BY <1>1, <1>2, <1>4, <1>5 DEF Inv, OneOwner, Uses, NoOp
<1>9. Registered'
  <2>1. pc'[t] \notin {"assign", "unregister"} /\ pc[t] \notin {"assign", "unregister"}
    BY <1>1 DEF Inv, TypeOK
  <2>2. \A p : IsOwned(p)' <=> IsOwned(p)
    BY <1>1, <1>5, <2>1 DEF IsOwned
  <2> QED
    BY <1>1, <2>2 DEF Inv, Registered
<1>10. Named'
  BY <1>1, <1>6, InUseIsUsed, NextInUseIsUsed DEF Named, Inv, TypeOK
<1>11. NamesUnique'
  <2>1. \A i \in DOMAIN registered : registered[i] # o
    BY <1>2 DEF Uses, Range
  <2> QED
    BY <1>1, <2>1 DEF Inv, NamesUnique, TypeOK
<1>12. \A p \in InUse : Uses(p)' => name'[p] = name[p]
  BY <1>1, <1>6, InUseIsUsed
<1>13. ASSUME NEW u \in Thread
       PROVE  OperationOf(u)' /\ SnapshotOf(u)' /\ FilterOf(u)'
  <2>1. CASE u = t
    <3>1. pc'[t] # "filter"
      BY <1>1 DEF Inv, TypeOK
    <3> QED
      BY <1>1, <1>2, <1>7, <2>1, <3>1 DEF SnapshotOf, FilterOf
  <2>2. CASE u # t
    <3>1. op'[u] = op[u] /\ pc'[u] = pc[u] /\ found'[u] = found[u] /\ registered' = registered
      BY <1>1, <1>5, <2>2
    <3>2. OperationOf(u)'
      BY <1>12, <3>1, OperationKept
    <3>3. SnapshotOf(u)'
      BY <1>12, <3>1, SnapshotKept
    <3>4. FilterOf(u)'
      BY <1>12, <3>1, FilterKept
    <3> QED
      BY <3>2, <3>3, <3>4
  <2> QED
    BY <2>1, <2>2
<1>14. Operations'
  BY <1>13 DEF Operations
<1>15. SnapshotStaysTrue'
  BY <1>13 DEF SnapshotStaysTrue, SnapshotOf
<1>16. FilterSeesOneRegistry'
  BY <1>13 DEF FilterSeesOneRegistry, FilterOf
<1>17. Locked'
  <2>1. \A p \in Range(registered) : name'[p] = name[p]
    BY <1>1, <1>2 DEF Uses, Inv, TypeOK
  <2>2. pc'[t] \notin {"append", "filter"}
    BY <1>1 DEF Inv, TypeOK
  <2> QED
    BY <1>1, <1>5, <2>1, <2>2, LockKept DEF LockTaken
<1> QED
  BY <1>3, <1>8, <1>9, <1>10, <1>11, <1>14, <1>15, <1>16, <1>17 DEF Inv

(* A suite that something still uses keeps its name. *)
LEMMA CollectKeeps ==
    ASSUME Inv, Collect, registered' \in Seq(Object), found' \in [Thread -> Seq(Object)],
           op' \in [Thread -> Operation], handle' = handle
    PROVE  /\ name' \in [Object -> Name \cup {"none"}]
           /\ \A o : Uses(o)' => name'[o] = name[o]
<1>1. \A o : Uses(o)' => o \in Object
  BY DEF Uses, Range, Inv, TypeOK, Operation
<1> QED
  BY <1>1, NextInUseIsUsed DEF Collect, Inv, TypeOK

LEMMA CompareNamesInv ==
    ASSUME Inv, NEW t \in Thread, CompareNames(t)
    PROVE  Inv'
<1>1. /\ pc[t] = "register" /\ MayWrite /\ Collect
      /\ UNCHANGED <<registered, errors, handle, found>>
  BY DEF CompareNames
<1>2. /\ op[t] \in Operation /\ op[t].name \in Name /\ op[t].suite # "null"
      /\ name[op[t].suite] = op[t].name /\ op[t].target \in Handle /\ found[t] = <<>>
  BY <1>1 DEF Inv, TypeOK, Operations, OperationOf
<1>3. CASE NameTaken(op[t].name)
  <2>1. /\ op' = [op EXCEPT ![t].suite = "null"] /\ pc' = [pc EXCEPT ![t] = "record"]
        /\ registered' = registered
    BY <1>3 DEF CompareNames, Goto
  <2>2. op'[t] = [op[t] EXCEPT !.suite = "null"] /\ pc'[t] = "record"
    BY <2>1 DEF Inv, TypeOK
  <2>3. \A u \in Thread \ {t} : op'[u] = op[u] /\ pc'[u] = pc[u] /\ found'[u] = found[u]
    BY <1>1, <2>1 DEF Inv, TypeOK
  <2>4. /\ op'[t].suite = "null" /\ op'[t].target = op[t].target /\ op'[t].name = op[t].name
        /\ op'[t] \in Operation
    BY <1>2, <2>2 DEF Operation
  <2>5. op' \in [Thread -> Operation]
    BY <2>1, <2>3, <2>4 DEF Inv, TypeOK
  <2>6. name' \in [Object -> Name \cup {"none"}] /\ \A o : Uses(o)' => name'[o] = name[o]
    BY <1>1, <2>1, <2>5, CollectKeeps DEF Inv, TypeOK
  <2>7. TypeOK'
    BY <1>1, <2>1, <2>2, <2>3, <2>5, <2>6 DEF Inv, TypeOK
  <2>8. OneOwner'
    BY <1>1, <2>3, <2>4 DEF Inv, OneOwner
  <2>9. Registered'
    <3>1. \A o : IsOwned(o)' <=> IsOwned(o)
      BY <1>1, <2>2, <2>3 DEF IsOwned
    <3> QED
      BY <2>1, <3>1 DEF Inv, Registered
  <2>10. OperationOf(t)'
    BY <1>1, <1>2, <2>2, <2>4 DEF OperationOf
  <2>11. \A o : Uses(o)' => Uses(o) /\ name'[o] = name[o]
    BY <1>1, <2>1, <2>3, <2>4, <2>6 DEF Uses
  <2>12. SnapshotOf(t)' /\ FilterOf(t)'
    BY <1>1, <1>2, <2>2 DEF SnapshotOf, FilterOf
  <2>13. LockTaken(t)
    BY <2>2 DEF LockTaken
  <2> QED
    BY <2>1, <2>3, <2>7, <2>8, <2>9, <2>10, <2>11, <2>12, <2>13, StepOfOneThread
<1>4. CASE ~NameTaken(op[t].name)
  <2>1. op' = op /\ pc' = [pc EXCEPT ![t] = "append"] /\ registered' = registered
    BY <1>1, <1>4 DEF CompareNames, Goto
  <2>2. pc'[t] = "append" /\ \A u \in Thread \ {t} : pc'[u] = pc[u]
    BY <2>1 DEF Inv, TypeOK
  <2>3. name' \in [Object -> Name \cup {"none"}] /\ \A o : Uses(o)' => name'[o] = name[o]
    BY <1>1, <2>1, CollectKeeps DEF Inv, TypeOK
  <2>4. TypeOK'
    BY <1>1, <2>1, <2>2, <2>3 DEF Inv, TypeOK
  <2>5. OneOwner'
    BY <1>1, <2>1 DEF Inv, OneOwner
  <2>6. Registered'
    <3>1. \A o : IsOwned(o)' <=> IsOwned(o)
      BY <1>1, <2>1, <2>2 DEF IsOwned
    <3> QED
      BY <2>1, <3>1 DEF Inv, Registered
  <2>7. \A o : Uses(o)' => Uses(o) /\ name'[o] = name[o]
    BY <1>1, <2>1, <2>3 DEF Uses
  <2>8. OperationOf(t)'
    <3>1. Uses(op[t].suite)'
      BY <1>2, <2>1 DEF Uses
    <3> QED
      BY <1>1, <1>2, <2>1, <2>2, <2>3, <3>1 DEF OperationOf
  <2>9. SnapshotOf(t)' /\ FilterOf(t)'
    BY <1>1, <1>2, <2>2 DEF SnapshotOf, FilterOf
  <2>10. LockTaken(t)
    BY <1>1, <1>4, <2>1, <2>2 DEF LockTaken
  <2> QED
    BY <1>1, <2>1, <2>2, <2>4, <2>5, <2>6, <2>7, <2>8, <2>9, <2>10, StepOfOneThread
<1> QED
  BY <1>3, <1>4

LEMMA AppendSuiteInv ==
    ASSUME Inv, NEW t \in Thread, AppendSuite(t)
    PROVE  Inv'
<1> DEFINE s == op[t].suite
<1>1. /\ pc[t] = "append" /\ LockedOf(t)
      /\ UNCHANGED <<errors, handle, name, op, found>>
  BY DEF AppendSuite, Inv, Locked
<1>2. /\ op[t] \in Operation /\ s \in Object /\ op[t].name \in Name /\ name[s] = op[t].name
      /\ op[t].target \in Handle /\ found[t] = <<>> /\ Uses(s)
  <2>1. op[t] \in Operation /\ OperationOf(t)
    BY DEF Inv, TypeOK, Operations
  <2> QED
    BY <1>1, <2>1 DEF Operation, OperationOf, Uses
<1>3. ~IsOwned(s)
  BY <1>1, <1>2, RegistryAssumption DEF IsOwned, Inv, OneOwner
<1>4. s \notin Range(registered)
  BY <1>2, <1>3 DEF Inv, Registered
<1>5. /\ registered' = Append(registered, s) /\ pc' = [pc EXCEPT ![t] = "assign"] /\ op' = op
  BY DEF AppendSuite, Goto
<1>6. /\ registered' \in Seq(Object) /\ Range(registered') = Range(registered) \cup {s}
      /\ IsInjective(registered')
  BY <1>2, <1>4, <1>5, AppendRange DEF Inv, TypeOK, Registered
<1>7. pc'[t] = "assign" /\ \A u \in Thread \ {t} : pc'[u] = pc[u]
  BY <1>5 DEF Inv, TypeOK
<1>8. name' \in [Object -> Name \cup {"none"}] /\ \A o : Uses(o)' => name'[o] = name[o]
  BY <1>1 DEF Inv, TypeOK
<1>9. TypeOK'
  <2>1. \A u \in Thread : pc'[u] # "filter"
    BY <1>1, <1>7 DEF LockedOf
  <2> QED
    BY <1>1, <1>5, <1>6, <1>8, <2>1 DEF Inv, TypeOK
<1>10. OneOwner'
  BY <1>1, <1>5 DEF Inv, OneOwner
<1>11. Registered'
  <2>1. \A o : IsOwned(o)' <=> IsOwned(o) \/ o = s
    BY <1>1, <1>5, <1>7 DEF IsOwned
  <2> QED
    BY <1>6, <2>1 DEF Inv, Registered
<1>12. \A o : Uses(o)' <=> Uses(o)
  BY <1>1, <1>2, <1>5, <1>6, RegistryAssumption DEF Uses
<1>13. \A o \in InUse : Uses(o)' => name'[o] = name[o]
  BY <1>8
<1>14. Named'
  BY <1>8, <1>12, InUseIsUsed, NextInUseIsUsed DEF Named, Inv
<1>15. NamesUnique'
  <2>1. \A o \in Range(registered') : name'[o] = name[o]
    <3> SUFFICES ASSUME NEW o \in Range(registered') PROVE name'[o] = name[o]
      OBVIOUS
    <3>1. o \in Object
      BY <1>6 DEF Range
    <3> QED
      BY <1>8, <3>1, RegistryAssumption DEF Uses
  <2>2. \A o, p \in Range(registered') : name[o] = name[p] => o = p
    BY <1>1, <1>2, <1>6, NamesTellApart DEF NameTaken, LockedOf
  <2> QED
    BY <1>6, <2>1, <2>2 DEF NamesUnique, IsInjective, Range
<1>16. ASSUME NEW u \in Thread
       PROVE  OperationOf(u)' /\ SnapshotOf(u)' /\ FilterOf(u)'
  <2>1. SnapshotOf(u)'
    BY <1>1, <1>5, <1>13, SnapshotKept
  <2>2. FilterOf(u)'
    BY <1>1, <1>7 DEF FilterOf, LockedOf
  <2>3. CASE u = t
    BY <1>1, <1>2, <1>5, <1>7, <2>1, <2>2, <2>3 DEF OperationOf
  <2>4. CASE u # t
    BY <1>1, <1>5, <1>7, <1>13, <2>1, <2>2, <2>4, OperationKept
  <2> QED
    BY <2>3, <2>4
<1>17. Operations'
  BY <1>16 DEF Operations
<1>18. SnapshotStaysTrue'
  BY <1>16 DEF SnapshotStaysTrue, SnapshotOf
<1>19. FilterSeesOneRegistry'
  BY <1>16 DEF FilterSeesOneRegistry, FilterOf
<1>20. Locked'
  BY <1>1, <1>7 DEF Locked, LockedOf
<1> QED
  BY <1>9, <1>10, <1>11, <1>14, <1>15, <1>17, <1>18, <1>19, <1>20 DEF Inv

LEMMA RecordConfigurationErrorInv ==
    ASSUME Inv, NEW t \in Thread, RecordConfigurationError(t)
    PROVE  Inv'
<1>1. /\ pc[t] = "record" /\ errors' = errors \cup {op[t].name}
      /\ pc' = [pc EXCEPT ![t] = "assign"]
      /\ UNCHANGED <<registered, handle, name, op, found>>
  BY DEF RecordConfigurationError, Goto
<1>2. pc'[t] = "assign" /\ \A u \in Thread \ {t} : pc'[u] = pc[u]
  BY <1>1 DEF Inv, TypeOK
<1>3. OperationOf(t)
  BY DEF Inv, Operations
<1>4. TypeOK'
  BY <1>1, <1>2, <1>3 DEF Inv, TypeOK, OperationOf
<1>5. OneOwner'
  BY <1>1 DEF Inv, OneOwner
<1>6. Registered'
  <2>1. \A o \in Object : IsOwned(o)' <=> IsOwned(o)
    BY <1>1, <1>2, <1>3, RegistryAssumption DEF IsOwned, OperationOf
  <2> QED
    BY <1>1, <2>1 DEF Inv, Registered
<1>7. OperationOf(t)'
  BY <1>1, <1>2, <1>3 DEF OperationOf
<1>8. \A o : Uses(o)' => Uses(o) /\ name'[o] = name[o]
  BY <1>1 DEF Uses
<1>9. SnapshotOf(t)' /\ FilterOf(t)'
  BY <1>1, <1>2, <1>3 DEF SnapshotOf, FilterOf, OperationOf
<1>10. LockTaken(t)
  BY <1>2 DEF LockTaken
<1> QED
  BY <1>1, <1>2, <1>4, <1>5, <1>6, <1>7, <1>8, <1>9, <1>10, StepOfOneThread

(* What a handle held is let go of: the step's own part, whoever owns what. *)
LEMMA Released ==
    ASSUME Inv, NEW t \in Thread, NEW h \in Handle, NEW suite \in Object \cup {"null"},
           Release(t, h, suite), pc[t] \in {"idle", "assign"}, found[t] = <<>>,
           UNCHANGED <<registered, errors, name, found>>
    PROVE  /\ op'[t].suite = suite
           /\ pc'[t] = IF suite = "null" THEN "idle" ELSE "unregister"
           /\ \A u \in Thread \ {t} : op'[u] = op[u] /\ pc'[u] = pc[u] /\ found'[u] = found[u]
           /\ handle' \in [Handle -> Object \cup {"null"}] => TypeOK'
           /\ OperationOf(t)' /\ SnapshotOf(t)' /\ FilterOf(t)'
<1> DEFINE r == IF suite = "null" THEN NoOp ELSE [NoOp EXCEPT !.target = h, !.suite = suite]
           label == IF suite = "null" THEN "idle" ELSE "unregister"
<1>1. op' = [op EXCEPT ![t] = r] /\ pc' = [pc EXCEPT ![t] = label]
  BY DEF Release, Finish, Goto
<1>2. r \in Operation /\ r.suite = suite
  <2>1. CASE suite = "null"
    BY <2>1, NoOpType DEF NoOp
  <2>2. CASE suite # "null"
    <3>1. [NoOp EXCEPT !.target = h, !.suite = suite] \in Operation
      BY NoOpType DEF Operation
    <3>2. [NoOp EXCEPT !.target = h, !.suite = suite].suite = suite
      BY DEF NoOp
    <3> QED
      BY <2>2, <3>1, <3>2
  <2> QED
    BY <2>1, <2>2
<1> HIDE DEF r
<1>3. op'[t] = r /\ pc'[t] = label
  BY <1>1 DEF Inv, TypeOK
<1>4. \A u \in Thread \ {t} : op'[u] = op[u] /\ pc'[u] = pc[u] /\ found'[u] = found[u]
  BY <1>1 DEF Inv, TypeOK
<1>5. ASSUME handle' \in [Handle -> Object \cup {"null"}] PROVE TypeOK'
  BY <1>1, <1>2, <1>3, <1>4, <1>5 DEF Inv, TypeOK
<1>6. OperationOf(t)'
  BY <1>2, <1>3 DEF OperationOf
<1>7. SnapshotOf(t)' /\ FilterOf(t)'
  BY <1>3 DEF SnapshotOf, FilterOf
<1> QED
  BY <1>2, <1>3, <1>4, <1>5, <1>6, <1>7

LEMMA AssignInv ==
    ASSUME Inv, NEW t \in Thread, Assign(t)
    PROVE  Inv'
<1> DEFINE s == op[t].suite
           h == op[t].target
           old == handle[h]
<1>1. /\ pc[t] = "assign" /\ handle' = [handle EXCEPT ![h] = s] /\ Release(t, h, old)
      /\ UNCHANGED <<registered, errors, name, found>>
  BY DEF Assign
<1>2. /\ h \in Handle /\ s \in Object \cup {"null"} /\ old \in Object \cup {"null"}
      /\ found[t] = <<>>
  <2>1. op[t] \in Operation /\ OperationOf(t)
    BY DEF Inv, TypeOK, Operations
  <2> QED
    BY <1>1, <2>1 DEF Operation, OperationOf, Inv, TypeOK
<1> HIDE DEF s, h, old
<1>3. /\ op'[t].suite = old /\ pc'[t] = IF old = "null" THEN "idle" ELSE "unregister"
      /\ \A u \in Thread \ {t} : op'[u] = op[u] /\ pc'[u] = pc[u] /\ found'[u] = found[u]
      /\ handle' \in [Handle -> Object \cup {"null"}] => TypeOK'
      /\ OperationOf(t)' /\ SnapshotOf(t)' /\ FilterOf(t)'
  BY <1>1, <1>2, Released
<1>4. handle'[h] = s /\ \A g \in Handle \ {h} : handle'[g] = handle[g]
  BY <1>1, <1>2 DEF Inv, TypeOK
<1>5. TypeOK'
  BY <1>1, <1>2, <1>3 DEF Inv, TypeOK
<1>6. OneOwner'
  BY <1>2, <1>3, <1>4 DEF Inv, OneOwner, s, old
<1>7. Registered'
  <2>1. ASSUME NEW o \in Object PROVE IsOwned(o)' <=> IsOwned(o)
    BY <1>1, <1>2, <1>3, <1>4, RegistryAssumption DEF IsOwned, s, old
  <2> QED
    BY <1>1, <2>1 DEF Inv, Registered
<1>8. \A o : Uses(o)' => Uses(o) /\ name'[o] = name[o]
  BY <1>1, <1>2, <1>3, <1>4 DEF Uses, s, old
<1>9. LockTaken(t)
  BY <1>3 DEF LockTaken
<1> QED
  BY <1>1, <1>3, <1>5, <1>6, <1>7, <1>8, <1>9, StepOfOneThread

LEMMA MoveInv ==
    ASSUME Inv, NEW t \in Thread, NEW h \in Handle, NEW g \in Handle, Move(t, h, g)
    PROVE  Inv'
<1> DEFINE old == IF h = g THEN "null" ELSE handle[h]
<1>1. /\ pc[t] = "idle" /\ handle' = AfterMove(h, g) /\ Release(t, h, old)
      /\ UNCHANGED <<registered, errors, name, found>>
  BY DEF Move
<1>2. /\ old \in Object \cup {"null"} /\ found[t] = <<>> /\ op[t].suite = "null"
  <2>1. OperationOf(t)
    BY DEF Inv, Operations
  <2> QED
    BY <1>1, <2>1 DEF OperationOf, Inv, TypeOK
<1> HIDE DEF old
<1>3. /\ op'[t].suite = old /\ pc'[t] = IF old = "null" THEN "idle" ELSE "unregister"
      /\ \A u \in Thread \ {t} : op'[u] = op[u] /\ pc'[u] = pc[u] /\ found'[u] = found[u]
      /\ handle' \in [Handle -> Object \cup {"null"}] => TypeOK'
      /\ OperationOf(t)' /\ SnapshotOf(t)' /\ FilterOf(t)'
  BY <1>1, <1>2, Released
<1>4. /\ handle'[h] = handle[g]
      /\ h # g => handle'[g] = "null"
      /\ \A k \in Handle \ {h, g} : handle'[k] = handle[k]
  BY <1>1 DEF Inv, TypeOK, AfterMove
<1>5. TypeOK'
  BY <1>1, <1>3 DEF Inv, TypeOK, AfterMove
<1>6. OneOwner'
  BY <1>2, <1>3, <1>4 DEF Inv, OneOwner, old
<1>7. Registered'
  <2>1. ASSUME NEW o \in Object PROVE IsOwned(o)' <=> IsOwned(o)
    <3>1. o # "null"
      BY RegistryAssumption
    <3>2. IsOwned(o)' => IsOwned(o)
      BY <1>1, <1>2, <1>3, <1>4, <3>1 DEF IsOwned, old
    <3>3. ASSUME NEW k \in Handle, handle[k] = o PROVE IsOwned(o)'
      <4>1. CASE k = g
        BY <1>4, <3>3, <4>1 DEF IsOwned
      <4>2. CASE k = h /\ k # g
        BY <1>3, <3>1, <3>3, <4>2 DEF IsOwned, old
      <4>3. CASE k # h /\ k # g
        BY <1>4, <3>3, <4>3 DEF IsOwned
      <4> QED
        BY <4>1, <4>2, <4>3
    <3>4. ASSUME NEW u \in Thread, op[u].suite = o, pc[u] \in {"assign", "unregister"}
          PROVE  IsOwned(o)'
      BY <1>1, <1>3, <3>4 DEF IsOwned
    <3> QED
      BY <3>2, <3>3, <3>4 DEF IsOwned
  <2> QED
    BY <1>1, <2>1 DEF Inv, Registered
<1>8. \A o : Uses(o)' => Uses(o) /\ name'[o] = name[o]
  BY <1>1, <1>2, <1>3, <1>4 DEF Uses, old
<1>9. LockTaken(t)
  BY <1>3 DEF LockTaken
<1> QED
  BY <1>1, <1>3, <1>5, <1>6, <1>7, <1>8, <1>9, StepOfOneThread

LEMMA DestroyInv ==
    ASSUME Inv, NEW t \in Thread, NEW h \in Handle, Destroy(t, h)
    PROVE  Inv'
<1>1. /\ pc[t] = "idle" /\ handle' = [handle EXCEPT ![h] = "null"] /\ Release(t, h, handle[h])
      /\ UNCHANGED <<registered, errors, name, found>>
  BY DEF Destroy
<1>2. /\ handle[h] \in Object \cup {"null"} /\ found[t] = <<>> /\ op[t].suite = "null"
  <2>1. OperationOf(t)
    BY DEF Inv, Operations
  <2> QED
    BY <1>1, <2>1 DEF OperationOf, Inv, TypeOK
<1>3. /\ op'[t].suite = handle[h]
      /\ pc'[t] = IF handle[h] = "null" THEN "idle" ELSE "unregister"
      /\ \A u \in Thread \ {t} : op'[u] = op[u] /\ pc'[u] = pc[u] /\ found'[u] = found[u]
      /\ handle' \in [Handle -> Object \cup {"null"}] => TypeOK'
      /\ OperationOf(t)' /\ SnapshotOf(t)' /\ FilterOf(t)'
  BY <1>1, <1>2, Released
<1>4. handle'[h] = "null" /\ \A g \in Handle \ {h} : handle'[g] = handle[g]
  BY <1>1 DEF Inv, TypeOK
<1>5. TypeOK'
  BY <1>1, <1>3 DEF Inv, TypeOK
<1>6. OneOwner'
  BY <1>2, <1>3, <1>4 DEF Inv, OneOwner
<1>7. Registered'
  <2>1. ASSUME NEW o \in Object PROVE IsOwned(o)' <=> IsOwned(o)
    BY <1>1, <1>2, <1>3, <1>4, RegistryAssumption DEF IsOwned
  <2> QED
    BY <1>1, <2>1 DEF Inv, Registered
<1>8. \A o : Uses(o)' => Uses(o) /\ name'[o] = name[o]
  BY <1>1, <1>2, <1>3, <1>4 DEF Uses
<1>9. LockTaken(t)
  BY <1>3 DEF LockTaken
<1> QED
  BY <1>1, <1>3, <1>5, <1>6, <1>7, <1>8, <1>9, StepOfOneThread

LEMMA UnregisterSuiteInv ==
    ASSUME Inv, NEW t \in Thread, UnregisterSuite(t)
    PROVE  Inv'
<1> DEFINE s == op[t].suite
           T == Object \ {s}
<1>1. /\ pc[t] = "unregister" /\ MayWrite /\ Collect
      /\ registered' = Selected(registered, T)[Len(registered)]
      /\ op' = [op EXCEPT ![t] = NoOp] /\ pc' = [pc EXCEPT ![t] = "idle"]
      /\ UNCHANGED <<errors, handle, found>>
  BY DEF UnregisterSuite, Finish, Goto
<1>2. s \in Object /\ s # "null" /\ found[t] = <<>>
  <2>1. op[t] \in Operation /\ OperationOf(t)
    BY DEF Inv, TypeOK, Operations
  <2> QED
    BY <1>1, <2>1 DEF Operation, OperationOf
<1>3. /\ registered' \in Seq(Object) /\ Range(registered') = Range(registered) \cap T
      /\ IsInjective(registered')
  BY <1>1, SelectedRange DEF Inv, TypeOK, Registered
<1>4. op'[t] = NoOp /\ pc'[t] = "idle" /\ op'[t].suite = "null"
  BY <1>1 DEF Inv, TypeOK, NoOp
<1>5. \A u \in Thread \ {t} : op'[u] = op[u] /\ pc'[u] = pc[u] /\ found'[u] = found[u]
  BY <1>1 DEF Inv, TypeOK
<1>6. op' \in [Thread -> Operation]
  BY <1>1, NoOpType DEF Inv, TypeOK
<1>7. name' \in [Object -> Name \cup {"none"}] /\ \A o : Uses(o)' => name'[o] = name[o]
  BY <1>1, <1>3, <1>6, CollectKeeps DEF Inv, TypeOK
<1>8. TypeOK'
  <2>1. \A u \in Thread : pc'[u] # "filter"
    BY <1>1, <1>4, <1>5 DEF MayWrite
  <2> QED
    BY <1>1, <1>3, <1>6, <1>7, <2>1 DEF Inv, TypeOK
<1>9. OneOwner'
  BY <1>1, <1>4, <1>5 DEF Inv, OneOwner
<1>10. Registered'
  <2>1. ASSUME NEW o \in Object PROVE IsOwned(o)' <=> IsOwned(o) /\ o # s
    BY <1>1, <1>2, <1>4, <1>5, RegistryAssumption DEF IsOwned, Inv, OneOwner
  <2>2. \A o \in Object : o \in T <=> o # s
    OBVIOUS
  <2> QED
    BY <1>3, <2>1, <2>2 DEF Inv, Registered
<1>11. OperationOf(t)' /\ SnapshotOf(t)' /\ FilterOf(t)'
  BY <1>1, <1>2, <1>4 DEF OperationOf, SnapshotOf, FilterOf
<1>12. \A o : Uses(o)' => Uses(o) /\ name'[o] = name[o]
  BY <1>1, <1>3, <1>4, <1>5, <1>7 DEF Uses
<1>13. LockTaken(t)
  BY <1>4 DEF LockTaken
<1> QED
  BY <1>1, <1>3, <1>5, <1>8, <1>9, <1>10, <1>11, <1>12, <1>13, StepOfOneThread

LEMMA BeginFilterInv ==
    ASSUME Inv, NEW t \in Thread, NEW wanted \in SUBSET Name, BeginFilter(t, wanted)
    PROVE  Inv'
<1> DEFINE r == [NoOp EXCEPT !.wanted = wanted]
<1>1. /\ pc[t] = "idle" /\ MayRead /\ op' = [op EXCEPT ![t] = r]
      /\ pc' = [pc EXCEPT ![t] = "filter"]
      /\ UNCHANGED <<registered, errors, handle, name, found>>
  BY DEF BeginFilter, Goto
<1>2. r \in Operation /\ r.suite = "null" /\ r.next = 1 /\ found[t] = <<>> /\ op[t].suite = "null"
  <2>1. OperationOf(t)
    BY DEF Inv, Operations
  <2>2. r \in Operation
    BY NoOpType DEF Operation
  <2>3. r.suite = "null" /\ r.next = 1
    BY DEF NoOp
  <2> QED
    BY <1>1, <2>1, <2>2, <2>3 DEF OperationOf
<1> HIDE DEF r
<1>3. op'[t] = r /\ pc'[t] = "filter"
  BY <1>1 DEF Inv, TypeOK
<1>4. \A u \in Thread \ {t} : op'[u] = op[u] /\ pc'[u] = pc[u] /\ found'[u] = found[u]
  BY <1>1 DEF Inv, TypeOK
<1>5. registered \in Seq(Object) /\ Len(registered) \in Nat
  BY DEF Inv, TypeOK
<1>6. TypeOK'
  <2>1. pc' \in [Thread -> {"idle", "register", "append", "record", "assign", "unregister",
                            "filter", "holding"}]
    BY <1>1 DEF Inv, TypeOK
  <2>2. op' \in [Thread -> Operation]
    BY <1>1, <1>2 DEF Inv, TypeOK
  <2>3. \A u \in Thread : pc'[u] = "filter" => op'[u].next <= Len(registered) + 1
    <3>1. op'[t].next <= Len(registered) + 1
      BY <1>2, <1>3, <1>5
    <3> QED
      BY <1>1, <1>4, <3>1 DEF Inv, TypeOK
  <2> QED
    BY <1>1, <2>1, <2>2, <2>3 DEF Inv, TypeOK
<1>7. OneOwner'
  BY <1>1, <1>2, <1>3, <1>4 DEF Inv, OneOwner
<1>8. Registered'
  <2>1. \A o \in Object : IsOwned(o)' <=> IsOwned(o)
    BY <1>1, <1>2, <1>3, <1>4, RegistryAssumption DEF IsOwned
  <2> QED
    BY <1>1, <2>1 DEF Inv, Registered
<1>9. OperationOf(t)'
  BY <1>2, <1>3 DEF OperationOf
<1>10. \A o : Uses(o)' => Uses(o) /\ name'[o] = name[o]
  BY <1>1, <1>2, <1>3, <1>4 DEF Uses
<1>11. SnapshotOf(t)'
  BY <1>1, <1>2 DEF SnapshotOf
<1>12. FilterOf(t)'
  <2>1. \A T : Selected(registered, T)[0] = <<>>
    BY <1>5, SelectedUnfolds
  <2> QED
    BY <1>1, <1>2, <1>3, <1>5, <2>1 DEF FilterOf
<1>13. LockTaken(t)
  BY <1>1, <1>3 DEF LockTaken
<1> QED
  BY <1>1, <1>4, <1>6, <1>7, <1>8, <1>9, <1>10, <1>11, <1>12, <1>13, StepOfOneThread

LEMMA CallFilterInv ==
    ASSUME Inv, NEW t \in Thread, CallFilter(t)
    PROVE  Inv'
<1> DEFINE n == op[t].next
           o == registered[n]
           r == [op[t] EXCEPT !.next = @ + 1]
           W == Wanted(t)
<1>1. /\ pc[t] = "filter" /\ n <= Len(registered)
      /\ found' = IF name[o] \in op[t].wanted
                  THEN [found EXCEPT ![t] = Append(found[t], o)] ELSE found
      /\ op' = [op EXCEPT ![t] = r]
      /\ UNCHANGED <<registered, errors, handle, name, pc>>
  BY DEF CallFilter
<1>2. op[t] \in Operation /\ registered \in Seq(Object) /\ found[t] \in Seq(Object)
  BY DEF Inv, TypeOK
<1>3. /\ n \in 1 .. Len(registered) /\ n - 1 \in 0 .. Len(registered)
      /\ o \in Object /\ o \in Range(registered)
  BY <1>1, <1>2 DEF Operation, Range
<1>4. /\ r \in Operation /\ r.next = n + 1 /\ r.suite = op[t].suite /\ r.wanted = op[t].wanted
      /\ r.target = op[t].target /\ r.name = op[t].name
  <2>1. n \in Nat \ {0} /\ n + 1 \in Nat \ {0}
    BY <1>2 DEF Operation
  <2>2. r.next = n + 1 /\ r.suite = op[t].suite /\ r.wanted = op[t].wanted
    BY <1>2 DEF Operation
  <2>3. r.target = op[t].target /\ r.name = op[t].name
    BY <1>2 DEF Operation
  <2>4. r \in Operation
    BY <1>2, <2>1 DEF Operation
  <2> QED
    BY <2>2, <2>3, <2>4
<1>5. op'[t] = r
  BY <1>1 DEF Inv, TypeOK
<1> HIDE DEF r
<1>6. \A u \in Thread \ {t} : op'[u] = op[u] /\ pc'[u] = pc[u] /\ found'[u] = found[u]
  BY <1>1 DEF Inv, TypeOK
<1>7. found' \in [Thread -> Seq(Object)]
  BY <1>1, <1>2, <1>3 DEF Inv, TypeOK
<1>8. TypeOK'
  <2>1. op' \in [Thread -> Operation]
    BY <1>1, <1>4 DEF Inv, TypeOK
  <2>2. \A u \in Thread : pc'[u] = "filter" => op'[u].next <= Len(registered) + 1
    <3>1. op'[t].next <= Len(registered) + 1
      BY <1>2, <1>3, <1>4, <1>5
    <3>2. \A u \in Thread \ {t} : pc'[u] = "filter" => op'[u].next <= Len(registered) + 1
      BY <1>1, <1>6 DEF Inv, TypeOK
    <3> QED
      BY <3>1, <3>2
  <2> QED
    BY <1>1, <1>7, <2>1, <2>2 DEF Inv, TypeOK
<1>9. OneOwner'
  BY <1>1, <1>4, <1>5, <1>6 DEF Inv, OneOwner
<1>10. Registered'
  <2>1. \A p : IsOwned(p)' <=> IsOwned(p)
    BY <1>1, <1>4, <1>5, <1>6 DEF IsOwned
  <2> QED
    BY <1>1, <2>1 DEF Inv, Registered
<1>11. OperationOf(t)'
  <2>1. OperationOf(t)
    BY DEF Inv, Operations
  <2> QED
    BY <1>1, <1>4, <1>5, <2>1 DEF OperationOf
<1>12. \A p : Uses(p)' => Uses(p) /\ name'[p] = name[p]
  <2>1. \A p \in Range(found'[t]) : p \in Range(found[t]) \/ p = o
    BY <1>1, <1>2, <1>3, AppendRange DEF Inv, TypeOK
  <2>2. Uses(o)
    BY <1>3, RegistryAssumption DEF Uses
  <2> QED
    BY <1>1, <1>4, <1>5, <1>6, <2>1, <2>2 DEF Uses
<1>13. found'[t] = Selected(registered, W)[n]
  <2>1. found[t] = Selected(registered, W)[n - 1]
    BY <1>1 DEF Inv, FilterSeesOneRegistry
  <2>2. o \in W <=> name[o] \in op[t].wanted
    BY <1>3 DEF Wanted
  <2>3. Selected(registered, W)[n] = IF o \in W THEN Append(Selected(registered, W)[n - 1], o)
                                     ELSE Selected(registered, W)[n - 1]
    BY <1>2, <1>3, SelectedUnfolds
  <2> HIDE DEF W
  <2> QED
    BY <1>1, <2>1, <2>2, <2>3 DEF Inv, TypeOK
<1>14. Wanted(t)' = W
  BY <1>1, <1>4, <1>5 DEF Wanted
<1>15. FilterOf(t)'
  <2>1. op'[t].next - 1 = n
    BY <1>3, <1>4, <1>5
  <2> QED
    BY <1>1, <1>13, <1>14, <2>1 DEF FilterOf
<1>16. SnapshotOf(t)'
  <2> DEFINE q == Selected(registered, W)[n]
  <2>1. IsInjective(registered)
    BY DEF Inv, Registered
  <2>2. n \in 0 .. Len(registered)
    BY <1>3
  <2>3. /\ \A k \in DOMAIN q : \E j \in 1 .. n : registered[j] \in W /\ q[k] = registered[j]
        /\ IsInjective(q)
    <3> HIDE DEF W, n
    <3> QED
      BY <1>2, <2>1, <2>2, SelectedElements
  <2>4. \A k \in DOMAIN q : q[k] \in Range(registered) /\ name[q[k]] \in op[t].wanted
    BY <2>3 DEF Wanted
  <2>5. \A k, l \in DOMAIN q : name[q[k]] = name[q[l]] => k = l
    BY <2>3, <2>4, NamesTellApart DEF IsInjective
  <2> HIDE DEF q
  <2>6. found'[t] = q
    BY <1>13 DEF q
  <2>7. op'[t].wanted = op[t].wanted /\ name' = name
    BY <1>1, <1>4, <1>5
  <2> QED
    BY <2>4, <2>5, <2>6, <2>7 DEF SnapshotOf
<1>17. LockTaken(t)
  BY <1>1 DEF LockTaken
<1> QED
  BY <1>1, <1>6, <1>8, <1>9, <1>10, <1>11, <1>12, <1>15, <1>16, <1>17, StepOfOneThread

LEMMA ReturnFilteredInv ==
    ASSUME Inv, NEW t \in Thread, ReturnFiltered(t)
    PROVE  Inv'
<1>1. /\ pc[t] = "filter" /\ pc' = [pc EXCEPT ![t] = "holding"]
      /\ UNCHANGED <<registered, errors, handle, name, op, found>>
  BY DEF ReturnFiltered, Goto
<1>2. pc'[t] = "holding" /\ \A u \in Thread \ {t} : pc'[u] = pc[u]
  BY <1>1 DEF Inv, TypeOK
<1>3. OperationOf(t)
  BY DEF Inv, Operations
<1>4. TypeOK'
  BY <1>1, <1>2 DEF Inv, TypeOK
<1>5. OneOwner'
  BY <1>1 DEF Inv, OneOwner
<1>6. Registered'
  <2>1. \A o \in Object : IsOwned(o)' <=> IsOwned(o)
    BY <1>1, <1>2 DEF IsOwned
  <2> QED
    BY <1>1, <2>1 DEF Inv, Registered
<1>7. OperationOf(t)'
  BY <1>1, <1>2, <1>3 DEF OperationOf
<1>8. \A o : Uses(o)' => Uses(o) /\ name'[o] = name[o]
  BY <1>1 DEF Uses
<1>9. SnapshotOf(t)'
  BY <1>1, <1>8, SnapshotKept
<1>10. FilterOf(t)'
  BY <1>2 DEF FilterOf
<1>11. LockTaken(t)
  BY <1>2 DEF LockTaken
<1> QED
  BY <1>1, <1>2, <1>4, <1>5, <1>6, <1>7, <1>8, <1>9, <1>10, <1>11, StepOfOneThread

LEMMA GetAllSuitesInv ==
    ASSUME Inv, NEW t \in Thread, GetAllSuites(t)
    PROVE  Inv'
<1> DEFINE r == [NoOp EXCEPT !.wanted = Name]
<1>1. /\ pc[t] = "idle" /\ op' = [op EXCEPT ![t] = r] /\ pc' = [pc EXCEPT ![t] = "holding"]
      /\ found' = [found EXCEPT ![t] = registered]
      /\ UNCHANGED <<registered, errors, handle, name>>
  BY DEF GetAllSuites, Goto
<1>2. r \in Operation /\ r.suite = "null" /\ r.wanted = Name /\ op[t].suite = "null"
  <2>1. OperationOf(t)
    BY DEF Inv, Operations
  <2>2. r \in Operation
    BY NoOpType DEF Operation
  <2>3. r.suite = "null" /\ r.wanted = Name
    BY DEF NoOp
  <2> QED
    BY <1>1, <2>1, <2>2, <2>3 DEF OperationOf
<1> HIDE DEF r
<1>3. op'[t] = r /\ pc'[t] = "holding" /\ found'[t] = registered
  BY <1>1 DEF Inv, TypeOK
<1>4. \A u \in Thread \ {t} : op'[u] = op[u] /\ pc'[u] = pc[u] /\ found'[u] = found[u]
  BY <1>1 DEF Inv, TypeOK
<1>5. TypeOK'
  BY <1>1, <1>2, <1>3, <1>4 DEF Inv, TypeOK
<1>6. OneOwner'
  BY <1>1, <1>2, <1>3, <1>4 DEF Inv, OneOwner
<1>7. Registered'
  <2>1. \A o \in Object : IsOwned(o)' <=> IsOwned(o)
    BY <1>1, <1>2, <1>3, <1>4, RegistryAssumption DEF IsOwned
  <2> QED
    BY <1>1, <2>1 DEF Inv, Registered
<1>8. OperationOf(t)'
  BY <1>2, <1>3 DEF OperationOf
<1>9. Range(registered) \subseteq Object
  BY DEF Inv, TypeOK, Range
<1>10. \A o : Uses(o)' => Uses(o) /\ name'[o] = name[o]
  BY <1>1, <1>2, <1>3, <1>4, <1>9, RegistryAssumption DEF Uses
<1>11. SnapshotOf(t)'
  <2>1. \A o \in Range(registered) : name[o] \in Name
    BY <1>9, RegistryAssumption, InUseIsUsed DEF Inv, Named, Uses
  <2>2. \A i \in DOMAIN registered : registered[i] \in Range(registered)
    BY DEF Range
  <2> QED
    BY <1>1, <1>2, <1>3, <2>1, <2>2 DEF SnapshotOf, Inv, NamesUnique
<1>12. FilterOf(t)'
  BY <1>3 DEF FilterOf
<1>13. LockTaken(t)
  BY <1>3 DEF LockTaken
<1> QED
  BY <1>1, <1>4, <1>5, <1>6, <1>7, <1>8, <1>10, <1>11, <1>12, <1>13, StepOfOneThread

LEMMA DropFoundInv ==
    ASSUME Inv, NEW t \in Thread, DropFound(t)
    PROVE  Inv'
<1>1. /\ pc[t] = "holding" /\ found' = [found EXCEPT ![t] = <<>>] /\ Collect
      /\ op' = [op EXCEPT ![t] = NoOp] /\ pc' = [pc EXCEPT ![t] = "idle"]
      /\ UNCHANGED <<registered, errors, handle>>
  BY DEF DropFound, Finish, Goto
<1>2. /\ op'[t] = NoOp /\ pc'[t] = "idle" /\ found'[t] = <<>>
      /\ op'[t].suite = "null" /\ op[t].suite = "null"
  BY <1>1 DEF Inv, TypeOK, NoOp, Operations, OperationOf
<1>3. \A u \in Thread \ {t} : op'[u] = op[u] /\ pc'[u] = pc[u] /\ found'[u] = found[u]
  BY <1>1 DEF Inv, TypeOK
<1>4. /\ op' \in [Thread -> Operation] /\ found' \in [Thread -> Seq(Object)]
      /\ registered' \in Seq(Object)
  BY <1>1, NoOpType DEF Inv, TypeOK
<1>5. name' \in [Object -> Name \cup {"none"}] /\ \A o : Uses(o)' => name'[o] = name[o]
  BY <1>1, <1>4, CollectKeeps
<1>6. TypeOK'
  BY <1>1, <1>2, <1>3, <1>4, <1>5 DEF Inv, TypeOK
<1>7. OneOwner'
  BY <1>1, <1>2, <1>3 DEF Inv, OneOwner
<1>8. Registered'
  <2>1. \A o \in Object : IsOwned(o)' <=> IsOwned(o)
    BY <1>1, <1>2, <1>3, RegistryAssumption DEF IsOwned
  <2> QED
    BY <1>1, <2>1 DEF Inv, Registered
<1>9. OperationOf(t)' /\ SnapshotOf(t)' /\ FilterOf(t)'
  BY <1>2 DEF OperationOf, SnapshotOf, FilterOf
<1>10. \A o : Uses(o)' => Uses(o) /\ name'[o] = name[o]
  BY <1>1, <1>2, <1>3, <1>5 DEF Uses, Range
<1>11. LockTaken(t)
  BY <1>2 DEF LockTaken
<1> QED
  BY <1>1, <1>3, <1>6, <1>7, <1>8, <1>9, <1>10, <1>11, StepOfOneThread

-----------------------------------------------------------------------------
(* The theorems. *)

LEMMA InvNext == Inv /\ [Next]_vars => Inv'
<1> SUFFICES ASSUME Inv, [Next]_vars PROVE Inv'
  OBVIOUS
<1>1. CASE UNCHANGED vars
  BY <1>1 DEF vars, Inv, TypeOK, Operations, OperationOf, OneOwner, Registered, IsOwned, Named,
              Locked, LockedOf, NameTaken, InUse, Owned, NamesUnique, SnapshotStaysTrue,
              FilterSeesOneRegistry, Wanted
<1>2. ASSUME NEW t \in Thread, NEW h \in Handle, NEW n \in Name, NEW o \in Object,
             NEW rejected \in BOOLEAN, Define(t, h, n, o, rejected)
      PROVE  Inv'
  BY <1>2, DefineInv
<1>3. ASSUME NEW t \in Thread, CompareNames(t) PROVE Inv'
  BY <1>3, CompareNamesInv
<1>4. ASSUME NEW t \in Thread, RecordConfigurationError(t) PROVE Inv'
  BY <1>4, RecordConfigurationErrorInv
<1>5. ASSUME NEW t \in Thread, Assign(t) PROVE Inv'
  BY <1>5, AssignInv
<1>6. ASSUME NEW t \in Thread, NEW h \in Handle, NEW g \in Handle, Move(t, h, g) PROVE Inv'
  BY <1>6, MoveInv
<1>7. ASSUME NEW t \in Thread, NEW h \in Handle, Destroy(t, h) PROVE Inv'
  BY <1>7, DestroyInv
<1>8. ASSUME NEW t \in Thread, UnregisterSuite(t) PROVE Inv'
  BY <1>8, UnregisterSuiteInv
<1>9. ASSUME NEW t \in Thread, NEW wanted \in SUBSET Name, BeginFilter(t, wanted) PROVE Inv'
  BY <1>9, BeginFilterInv
<1>10. ASSUME NEW t \in Thread, CallFilter(t) PROVE Inv'
  BY <1>10, CallFilterInv
<1>11. ASSUME NEW t \in Thread, ReturnFiltered(t) PROVE Inv'
  BY <1>11, ReturnFilteredInv
<1>12. ASSUME NEW t \in Thread, GetAllSuites(t) PROVE Inv'
  BY <1>12, GetAllSuitesInv
<1>13. ASSUME NEW t \in Thread, DropFound(t) PROVE Inv'
  BY <1>13, DropFoundInv
<1>14. ASSUME NEW t \in Thread, AppendSuite(t) PROVE Inv'
  BY <1>14, AppendSuiteInv
<1> QED
  BY <1>1, <1>2, <1>3, <1>4, <1>5, <1>6, <1>7, <1>8, <1>9, <1>10, <1>11, <1>12, <1>13, <1>14
     DEF Next

LEMMA InvHolds == Spec => []Inv
BY InvInit, InvNext, PTL DEF Spec

(* Every variable stays in its range, with any number of threads, handles, *)
(* suites and names.                                                       *)
THEOREM TypeCorrect == Spec => []TypeOK
<1>1. Inv => TypeOK
  BY DEF Inv
<1> QED
  BY <1>1, InvHolds, PTL

(* Suites registered at the same time have different names, whatever the   *)
(* order in which threads define, compare, append, move and destroy them.  *)
THEOREM UniqueNames == Spec => []NamesUnique
<1>1. Inv => NamesUnique
  BY DEF Inv
<1> QED
  BY <1>1, InvHolds, PTL

(* The suites a thread was given keep the names it asked for, and no two   *)
(* have the same, though registerSuite and unregisterSuite go on.          *)
THEOREM TrueSnapshots == Spec => []SnapshotStaysTrue
<1>1. Inv => SnapshotStaysTrue
  BY DEF Inv
<1> QED
  BY <1>1, InvHolds, PTL

(* getSuitesByFilter answers for one state of the registry. *)
THEOREM OneRegistryFiltered == Spec => []FilterSeesOneRegistry
<1>1. Inv => FilterSeesOneRegistry
  BY DEF Inv
<1> QED
  BY <1>1, InvHolds, PTL

(* A set with at most one element has as many elements as it should.       *)
LEMMA AtMostOne ==
    ASSUME NEW S, \A x, y \in S : x = y
    PROVE  Cardinality(S) = IF S = {} THEN 0 ELSE 1
<1>1. CASE S = {}
  BY <1>1, FS_EmptySet
<1>2. CASE S # {}
  <2>1. PICK x \in S : S = {x}
    BY <1>2
  <2> QED
    BY <2>1, FS_Singleton
<1> QED
  BY <1>1, <1>2

(* A suite is registered as often as it has owners: once or not at all.    *)
THEOREM RegisteredWhileOwned == Spec => []OwnedWhileRegistered
<1>1. Inv => OwnedWhileRegistered
  <2> SUFFICES ASSUME Inv, NEW o \in Object
               PROVE  Owners(o) = Cardinality({i \in DOMAIN registered : registered[i] = o})
    BY DEF OwnedWhileRegistered
  <2> DEFINE H == {h \in Handle : handle[h] = o}
             P == {t \in Thread : op[t].suite = o /\ pc[t] \in {"assign", "unregister"}}
             R == {i \in DOMAIN registered : registered[i] = o}
  <2>1. /\ \A x, y \in H : x = y
        /\ \A x, y \in P : x = y
        /\ H = {} \/ P = {}
    BY RegistryAssumption DEF Inv, OneOwner
  <2>2. \A x, y \in R : x = y
    BY DEF Inv, Registered, IsInjective
  <2>3. R # {} <=> H # {} \/ P # {}
    BY DEF Inv, Registered, IsOwned, Range
  <2>4. /\ Cardinality(H) = IF H = {} THEN 0 ELSE 1
        /\ Cardinality(P) = IF P = {} THEN 0 ELSE 1
        /\ Cardinality(R) = IF R = {} THEN 0 ELSE 1
    <3> HIDE DEF H, P, R
    <3> QED
      BY <2>1, <2>2, AtMostOne
  <2>5. Owners(o) = Cardinality(H) + Cardinality(P)
    BY DEF Owners
  <2> HIDE DEF H, P, R
  <2>6. Owners(o) = Cardinality(R)
    BY <2>1, <2>3, <2>4, <2>5
  <2> QED
    BY <2>6 DEF R
<1> QED
  BY <1>1, InvHolds, PTL
=============================================================================
