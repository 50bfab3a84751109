------------------------ MODULE OptionsStorageProofs ------------------------
(* Proofs about OptionsStorage: its invariants, and that handles which share *)
(* their storage behave as independent values.                               *)
EXTENDS OptionsStorage, FiniteSetTheorems, TLAPS

(* In a list without duplicate keys, the first entry of a key is the only  *)
(* one.                                                                    *)
KeysDistinct(list) == \A i, j \in DOMAIN list : list[i][1] = list[j][1] => i = j

LEMMA FindOnly ==
    ASSUME NEW list \in Seq(Key \X Text), KeysDistinct(list), NEW i \in DOMAIN list
    PROVE  /\ First(list, list[i][1]) = i
           /\ FindAttribute(list, list[i][1]) = list[i][2]
<1> DEFINE Is(n) == list[n][1] = list[i][1] /\ \A j \in 1 .. n - 1 : list[j][1] # list[i][1]
<1>1. DOMAIN list = 1 .. Len(list) /\ Len(list) \in Nat
  OBVIOUS
<1>2. Is(i)
  <2> SUFFICES ASSUME NEW j \in 1 .. i - 1 PROVE list[j][1] # list[i][1]
    OBVIOUS
  <2>1. j \in DOMAIN list /\ j # i
    BY <1>1
  <2> QED
    BY <2>1 DEF KeysDistinct
<1>3. ASSUME NEW n \in DOMAIN list, Is(n) PROVE n = i
  BY <1>3 DEF KeysDistinct
<1>4. (CHOOSE n \in DOMAIN list : Is(n)) = i
  BY <1>2, <1>3
<1> QED
  BY <1>4 DEF First, FindAttribute

(* An attribute list of that kind is a map: WithAttribute updates it at one *)
(* key and keeps the keys distinct.                                         *)
LEMMA WithAttributeIsUpdate ==
    ASSUME NEW list \in Seq(Key \X Text), KeysDistinct(list),
           NEW k \in Key, NEW v \in Text
    PROVE  /\ WithAttribute(list, k, v) \in Seq(Key \X Text)
           /\ KeysDistinct(WithAttribute(list, k, v))
           /\ AsMap(WithAttribute(list, k, v)) =
                 [x \in DOMAIN AsMap(list) \cup {k} |->
                     IF x = k THEN v ELSE AsMap(list)[x]]
<1> DEFINE new == WithAttribute(list, k, v)
           keys(l) == {l[i][1] : i \in DOMAIN l}
<1>1. DOMAIN list = 1 .. Len(list) /\ Len(list) \in Nat
      /\ \A i \in DOMAIN list : list[i] \in Key \X Text
  OBVIOUS
<1>2. CASE Has(list, k)
  <2> PICK n \in DOMAIN list : list[n][1] = k
    BY <1>2 DEF Has
  <2>0. First(list, k) = n
    BY FindOnly
  <2>1. new = [list EXCEPT ![n] = <<k, v>>]
    BY <1>2, <2>0 DEF WithAttribute
  <2>2. \A i \in DOMAIN list : new[i] \in Key \X Text
    BY <2>1, <1>1
  <2>3. new \in Seq(Key \X Text) /\ DOMAIN new = DOMAIN list
    BY <2>1, <2>2, <1>1
  <2>4. \A i \in DOMAIN list : new[i][1] = list[i][1]
    BY <2>1, <1>1
  <2>5. KeysDistinct(new)
    BY <2>3, <2>4 DEF KeysDistinct
  <2>6. keys(new) = keys(list) \cup {k}
    BY <2>3, <2>4, <1>2 DEF Has
  <2>7. ASSUME NEW x \in keys(new)
        PROVE  FindAttribute(new, x) = IF x = k THEN v ELSE AsMap(list)[x]
    <3>1. PICK i \in DOMAIN new : new[i][1] = x
      OBVIOUS
    <3>2. FindAttribute(new, x) = new[i][2] /\ FindAttribute(list, x) = list[i][2]
      BY <3>1, <2>3, <2>4, <2>5, FindOnly
    <3>3. x \in keys(list)
      BY <3>1, <2>3, <2>4
    <3>4. AsMap(list)[x] = list[i][2]
      BY <3>2, <3>3 DEF AsMap
    <3> QED
      BY <3>1, <3>2, <3>4, <2>1, <2>3, <2>4 DEF KeysDistinct
  <2> QED
    BY <2>3, <2>5, <2>6, <2>7 DEF AsMap
<1>3. CASE ~Has(list, k)
  <2>1. new = Append(list, <<k, v>>)
    BY <1>3 DEF WithAttribute
  <2>2. new \in Seq(Key \X Text) /\ DOMAIN new = DOMAIN list \cup {Len(list) + 1}
    BY <2>1, <1>1
  <2>3. /\ \A i \in DOMAIN list : new[i] = list[i]
        /\ new[Len(list) + 1] = <<k, v>>
    BY <2>1, <1>1
  <2>4. \A i \in DOMAIN list : list[i][1] # k
    BY <1>3 DEF Has
  <2>5. KeysDistinct(new)
    BY <2>2, <2>3, <2>4 DEF KeysDistinct
  <2>6. keys(new) = keys(list) \cup {k}
    BY <2>2, <2>3
  <2>7. ASSUME NEW x \in keys(new)
        PROVE  FindAttribute(new, x) = IF x = k THEN v ELSE AsMap(list)[x]
    <3>1. PICK i \in DOMAIN new : new[i][1] = x
      OBVIOUS
    <3>2. FindAttribute(new, x) = new[i][2]
      BY <3>1, <2>2, <2>5, FindOnly
    <3>3. CASE i = Len(list) + 1
      BY <3>1, <3>2, <3>3, <2>3
    <3>4. CASE i \in DOMAIN list
      <4>1. x = list[i][1] /\ x # k /\ FindAttribute(new, x) = list[i][2]
        BY <3>1, <3>2, <3>4, <2>3, <2>4
      <4>2. FindAttribute(list, x) = list[i][2]
        BY <4>1, <3>4, FindOnly
      <4>3. AsMap(list)[x] = list[i][2]
        BY <4>1, <4>2, <3>4 DEF AsMap
      <4> QED
        BY <4>1, <4>3
    <3> QED
      BY <3>3, <3>4, <2>2
  <2> QED
    BY <2>2, <2>5, <2>6, <2>7 DEF AsMap
<1> QED
  BY <1>2, <1>3

-----------------------------------------------------------------------------
(* The invariants. *)

Inv == TypeOK /\ WritesAlone

(* What the storage may hold at an address. *)
Proper(m) == m \in Impl /\ KeysDistinct(m.attributes)

LEMMA ProperStore ==
    ASSUME Inv PROVE \A o \in Object : Proper(store[o])
BY DEF Inv, TypeOK, WritesAlone, Proper, KeysDistinct

LEMMA NewImplProper == Proper(NewImpl)
BY DEF Proper, NewImpl, Impl, KeysDistinct

LEMMA KeptProper ==
    ASSUME NEW s, NEW i, s \in [Object -> Impl], \A o \in Object : Proper(s[o])
    PROVE  /\ Kept(s, i) \in [Object -> Impl]
           /\ \A o \in Object : Proper(Kept(s, i)[o])
BY NewImplProper DEF Kept, Proper

(* A handle that detach leaves at "write" is alone. *)
LEMMA NotSharedIsAlone ==
    ASSUME TypeOK, NEW h \in live, ~IsShared(impl[h])
    PROVE  Sharing(impl[h]) = {h}
<1>1. IsFiniteSet(Sharing(impl[h]))
  BY HandleAssumption, FS_Subset DEF Sharing, TypeOK
<1>2. Cardinality(Sharing(impl[h])) = 1
  BY DEF IsShared, UseCount
<1>3. PICK x : Sharing(impl[h]) = {x}
  BY <1>1, <1>2, FS_Singleton
<1>4. h \in Sharing(impl[h])
  BY DEF Sharing
<1> QED
  BY <1>3, <1>4

(* Every setter writes a proper Impl. *)
LEMMA SetterProper ==
    ASSUME Inv, NEW h \in Handle, step[h] = "write", NEW new,
           \/ \E n \in Order : new = [Target(h) EXCEPT !.order = <<n>>]
           \/ \E t \in Tag : new = [Target(h) EXCEPT !.tags = Append(@, t)]
           \/ \E k \in Key, v \in Text :
                 new = [Target(h) EXCEPT !.attributes = WithAttribute(@, k, v)]
           \/ \E b \in BOOLEAN : new = [Target(h) EXCEPT !.disabled = b]
           \/ \E n \in Attempts : new = [Target(h) EXCEPT !.maxAttempts = n]
    PROVE  Proper(new)
<1>1. impl[h] \in Object /\ Proper(Target(h))
  BY ProperStore DEF Inv, TypeOK, Target
<1>2. Target(h) \in Impl /\ KeysDistinct(Target(h).attributes)
  BY <1>1 DEF Proper
<1>3. ASSUME NEW n \in Order, new = [Target(h) EXCEPT !.order = <<n>>] PROVE Proper(new)
  BY <1>2, <1>3 DEF Proper, Impl
<1>4. ASSUME NEW t \in Tag, new = [Target(h) EXCEPT !.tags = Append(@, t)] PROVE Proper(new)
  <2>1. Append(Target(h).tags, t) \in Seq(Tag)
    BY <1>2 DEF Impl
  <2> QED
    BY <1>2, <1>4, <2>1 DEF Proper, Impl
<1>5. ASSUME NEW k \in Key, NEW v \in Text,
             new = [Target(h) EXCEPT !.attributes = WithAttribute(@, k, v)]
      PROVE Proper(new)
  <2>1. Target(h).attributes \in Seq(Key \X Text)
    BY <1>2 DEF Impl
  <2>2. /\ WithAttribute(Target(h).attributes, k, v) \in Seq(Key \X Text)
        /\ KeysDistinct(WithAttribute(Target(h).attributes, k, v))
    BY <1>2, <2>1, WithAttributeIsUpdate
  <2> QED
    BY <1>2, <1>5, <2>2 DEF Proper, Impl
<1>6. ASSUME NEW b \in BOOLEAN, new = [Target(h) EXCEPT !.disabled = b] PROVE Proper(new)
  BY <1>2, <1>6 DEF Proper, Impl
<1>7. ASSUME NEW n \in Attempts, new = [Target(h) EXCEPT !.maxAttempts = n] PROVE Proper(new)
  BY <1>2, <1>7 DEF Proper, Impl
<1> QED
  BY <1>3, <1>4, <1>5, <1>6, <1>7

(* All setters end in the same step. *)
Setter(h) == \E new, call : Proper(new) /\ Write(h, new, call)

LEMMA SetterSteps ==
    ASSUME Inv, NEW h \in Handle,
           \/ \E n \in Order : SetOrder(h, n)
           \/ \E t \in Tag : AddTag(h, t)
           \/ \E k \in Key, v \in Text : SetAttribute(h, k, v)
           \/ \E b \in BOOLEAN : SetDisabled(h, b)
           \/ \E n \in Attempts : SetMaxAttempts(h, n)
    PROVE  Setter(h)
<1> step[h] = "write"
  BY DEF SetOrder, AddTag, SetAttribute, SetDisabled, SetMaxAttempts, Write
<1> QED
  BY SetterProper DEF Setter, SetOrder, AddTag, SetAttribute, SetDisabled, SetMaxAttempts

LEMMA InitInv == Init => Inv
BY NewImplProper, ObjectAssumption
   DEF Init, Inv, TypeOK, WritesAlone, Proper, KeysDistinct

LEMMA NextInv == Inv /\ [Next]_vars => Inv'
<1> SUFFICES ASSUME Inv, [Next]_vars PROVE Inv'
  OBVIOUS
<1>0. TypeOK /\ \A o \in Object : Proper(store[o])
  BY ProperStore DEF Inv
<1> DEFINE Types == /\ live' \subseteq Handle
                    /\ impl' \in [Handle -> Object \cup {"null"}]
                    /\ \A h \in Handle : h \in live' <=> impl'[h] # "null"
                    /\ step' \in [Handle -> {"idle", "clone", "write"}]
                    /\ \A h \in Handle : step'[h] # "idle" => h \in live'
           Alone == \A h \in Handle : step'[h] = "write" =>
                       \A g \in live' : impl'[g] = impl'[h] <=> g = h
           Stored == /\ store' \in [Object -> Impl]
                     /\ \A o \in Object : Proper(store'[o])
<1>1. SUFFICES Types /\ Alone /\ Stored
  <2>1. TypeOK'
    BY <1>1 DEF TypeOK
  <2>2. \A h \in Handle : step'[h] = "write" => Sharing(impl[h])' = {h}
    BY <1>1 DEF Sharing
  <2>3. \A o \in Object : \A i, j \in DOMAIN store'[o].attributes :
          store'[o].attributes[i][1] = store'[o].attributes[j][1] => i = j
    BY <1>1 DEF Proper, KeysDistinct
  <2> QED
    BY <2>1, <2>2, <2>3 DEF Inv, WritesAlone
<1>2. \A h \in Handle : step[h] = "write" =>
         \A g \in live : impl[g] = impl[h] <=> g = h
  BY DEF Inv, WritesAlone, Sharing
<1>3. CASE UNCHANGED vars
  BY <1>0, <1>2, <1>3 DEF vars, TypeOK
<1>4. ASSUME NEW h \in Handle, Construct(h) PROVE Types /\ Alone /\ Stored
  <2>1. PICK o \in Unused : /\ impl' = [impl EXCEPT ![h] = o]
                            /\ store' = [store EXCEPT ![o] = NewImpl]
    BY <1>4 DEF Construct
  <2>2. o \in Object /\ o # "null" /\ \A g \in live : impl[g] # o
    BY ObjectAssumption DEF Unused
  <2>3. h \notin live /\ live' = live \cup {h} /\ step' = step /\ step[h] = "idle"
    BY <1>0, <1>4 DEF Construct, TypeOK
  <2>4. Types
    BY <1>0, <2>1, <2>2, <2>3 DEF TypeOK
  <2>5. Alone
    BY <1>0, <1>2, <2>1, <2>2, <2>3 DEF TypeOK
  <2>6. Stored
    BY <1>0, <2>1, <2>2, NewImplProper DEF TypeOK, Proper
  <2> QED
    BY <2>4, <2>5, <2>6
<1>5. ASSUME NEW h \in Handle, Destroy(h) PROVE Types /\ Alone /\ Stored
  <2>1. /\ h \in live /\ step[h] = "idle" /\ step' = step /\ live' = live \ {h}
        /\ impl' = [impl EXCEPT ![h] = "null"]
    BY <1>5 DEF Destroy
  <2>2. Types
    BY <1>0, <2>1 DEF TypeOK
  <2>3. Alone
    BY <1>0, <1>2, <2>1 DEF TypeOK
  <2>4. Stored
    BY <1>0, <1>5, KeptProper DEF Destroy, TypeOK
  <2> QED
    BY <2>2, <2>3, <2>4
<1>6. ASSUME NEW h \in Handle, NEW g \in Handle, Copy(h, g) \/ Move(h, g)
      PROVE Types /\ Alone /\ Stored
  <2>1. /\ g \in live /\ step[g] = "idle" /\ step[h] = "idle" /\ step' = step
        /\ live' = live \cup {h}
        /\ impl' = [impl EXCEPT ![h] = impl[g]]
        /\ store' = Kept(store, impl')
    BY <1>6 DEF Copy, Move, AfterMove
  <2>2. Types
    BY <1>0, <2>1 DEF TypeOK
  <2>3. ASSUME NEW w \in Handle, step'[w] = "write", NEW x \in live'
        PROVE impl'[x] = impl'[w] <=> x = w
    <3>1. w # h /\ w # g /\ w \in live /\ impl'[w] = impl[w]
      BY <1>0, <2>1, <2>3 DEF TypeOK
    <3>2. impl[g] # impl[w]
      BY <1>2, <2>1, <2>3, <3>1
    <3>3. CASE x = h
      BY <1>0, <2>1, <3>1, <3>2, <3>3 DEF TypeOK
    <3>4. CASE x # h
      BY <1>0, <1>2, <2>1, <2>3, <3>1, <3>4 DEF TypeOK
    <3> QED
      BY <3>3, <3>4
  <2>4. Stored
    BY <1>0, <2>1, KeptProper DEF TypeOK
  <2> QED
    BY <2>2, <2>3, <2>4
<1>7. ASSUME NEW h \in Handle, Detach(h) PROVE Types /\ Alone /\ Stored
  <2>1. h \in live /\ live' = live /\ impl' = impl /\ store' = store /\ impl[h] # "null"
    BY <1>0, <1>7 DEF Detach, TypeOK
  <2>2. step' = [step EXCEPT ![h] = IF IsShared(impl[h]) THEN "clone" ELSE "write"]
    BY <1>7, <2>1 DEF Detach
  <2>3. Types
    BY <1>0, <2>1, <2>2 DEF TypeOK
  <2>4. step'[h] = "write" => \A x \in live : impl[x] = impl[h] <=> x = h
    BY <1>0, <2>1, <2>2, NotSharedIsAlone DEF TypeOK, Sharing
  <2>5. \A w \in Handle : w # h => step'[w] = step[w]
    BY <1>0, <2>2 DEF TypeOK
  <2>6. Alone
    BY <1>2, <2>1, <2>4, <2>5
  <2> QED
    BY <1>0, <2>1, <2>3, <2>6 DEF TypeOK
<1>8. ASSUME NEW h \in Handle, Clone(h) PROVE Types /\ Alone /\ Stored
  <2>1. h \in live /\ impl[h] \in Object /\ impl[h] # "null" /\ live' = live
    BY <1>0, <1>8 DEF Clone, TypeOK
  <2>2. PICK o \in Unused : /\ impl' = [impl EXCEPT ![h] = o]
                            /\ store' = Kept([store EXCEPT ![o] = store[impl[h]]], impl')
    BY <1>8, <2>1 DEF Clone
  <2>3. o \in Object /\ o # "null" /\ \A g \in live : impl[g] # o
    BY ObjectAssumption DEF Unused
  <2>4. step' = [step EXCEPT ![h] = "write"]
    BY <1>8 DEF Clone
  <2>5. Types
    BY <1>0, <2>1, <2>2, <2>3, <2>4 DEF TypeOK
  <2>6. Alone
    BY <1>0, <1>2, <2>1, <2>2, <2>3, <2>4 DEF TypeOK
  <2>7. [store EXCEPT ![o] = store[impl[h]]] \in [Object -> Impl]
        /\ \A x \in Object : Proper([store EXCEPT ![o] = store[impl[h]]][x])
    BY <1>0, <2>1, <2>3 DEF TypeOK
  <2>8. Stored
    BY <2>2, <2>7, KeptProper
  <2> QED
    BY <2>5, <2>6, <2>8
<1>9. ASSUME NEW h \in Handle, Setter(h) PROVE Types /\ Alone /\ Stored
  <2>1. PICK new, call : Proper(new) /\ Write(h, new, call)
    BY <1>9 DEF Setter
  <2>2. /\ live' = live /\ impl' = impl /\ step' = [step EXCEPT ![h] = "idle"]
        /\ store' = [store EXCEPT ![impl[h]] = new]
    BY <2>1 DEF Write
  <2>3. Types
    BY <1>0, <2>2 DEF TypeOK
  <2>4. Alone
    BY <1>0, <1>2, <2>2 DEF TypeOK
  <2>5. Stored
    BY <1>0, <2>1, <2>2 DEF TypeOK, Proper
  <2> QED
    BY <2>3, <2>4, <2>5
<1>10. ASSUME NEW h \in Handle,
              \/ Construct(h) \/ Destroy(h)
              \/ \E g \in Handle : Copy(h, g)
              \/ \E g \in Handle : Move(h, g)
              \/ Detach(h) \/ Clone(h)
              \/ Setter(h)
       PROVE Types /\ Alone /\ Stored
  BY <1>4, <1>5, <1>6, <1>7, <1>8, <1>9, <1>10
<1> HIDE DEF Types, Alone, Stored
<1> QED
  BY <1>3, <1>10, SetterSteps DEF Next

(* For any number of handles: variables stay in range, and a live handle   *)
(* always has an Impl.                                                     *)
THEOREM TypeCorrect == Spec => []TypeOK
<1>1. Inv => TypeOK
  BY DEF Inv
<1> QED
  BY <1>1, InitInv, NextInv, PTL DEF Spec

(* For any number of handles and any interleaving, a setter writes to an   *)
(* Impl that no other handle sees.                                         *)
THEOREM SettersAlone == Spec => []WritesAlone
<1>1. Inv => WritesAlone
  BY DEF Inv
<1> QED
  BY <1>1, InitInv, NextInv, PTL DEF Spec

-----------------------------------------------------------------------------
(* The refinement: each step is a step of OptionValues or changes no value. *)

(* The value of each handle, as the refinement sees it. *)
ValueOf(h) == Shown(IF h \in live THEN store[impl[h]] ELSE NewImpl)

LEMMA ShownDefault == Shown(NewImpl) = Values!Default
<1>1. AsMap(<<>>) = Values!NoAttributes
  BY DEF AsMap, Values!NoAttributes
<1>2. ASSUME NEW e
      PROVE  Shown([order |-> e, tags |-> e, attributes |-> e,
                    disabled |-> FALSE, maxAttempts |-> 1]) =
             [order |-> e, tags |-> e, attributes |-> AsMap(e),
              disabled |-> FALSE, maxAttempts |-> 1]
  <2>1. ASSUME NEW d, NEW n, NEW map
        PROVE  [[order |-> e, tags |-> e, attributes |-> e, disabled |-> d, maxAttempts |-> n]
                   EXCEPT !.attributes = map] =
               [order |-> e, tags |-> e, attributes |-> map, disabled |-> d, maxAttempts |-> n]
    OBVIOUS
  <2>2. [order |-> e, tags |-> e, attributes |-> e,
         disabled |-> FALSE, maxAttempts |-> 1].attributes = e
    OBVIOUS
  <2> QED
    BY <2>1, <2>2, Zenon DEF Shown
<1>3. Shown(NewImpl) = [order |-> <<>>, tags |-> <<>>, attributes |-> AsMap(<<>>),
                        disabled |-> FALSE, maxAttempts |-> 1]
  BY <1>2, Zenon DEF NewImpl
<1> QED
  BY <1>1, <1>3, Zenon DEF Values!Default

LEMMA InitRefined == Init => Values!Init
BY ShownDefault DEF Init, Values!Init

(* A setter that changes no other Impl changes the value of one handle. *)
LEMMA WriteIsChange ==
    ASSUME Inv, NEW h \in Handle, NEW new, NEW call, Write(h, new, call)
    PROVE  Values!Change(h, Shown(new), call)
<1>1. h \in live /\ impl[h] \in Object /\ live' = live /\ impl' = impl
      /\ store' = [store EXCEPT ![impl[h]] = new] /\ last' = <<h, call>>
  BY DEF Inv, TypeOK, Write
<1>2. ASSUME NEW g \in Handle, g # h PROVE ValueOf(g)' = ValueOf(g)
  <2>1. g \in live => impl[g] # impl[h]
    BY <1>2 DEF Inv, WritesAlone, Write, Sharing
  <2> QED
    BY <1>1, <2>1 DEF ValueOf
<1>3. ValueOf(h)' = Shown(new)
  BY <1>1 DEF ValueOf, Inv, TypeOK
<1> QED
  BY <1>1, <1>2, <1>3 DEF Values!Change, ValueOf

(* The value of a changed Impl is the changed value. *)
LEMMA SetterRefined ==
    ASSUME Inv, NEW h \in Handle,
           \/ \E n \in Order : SetOrder(h, n)
           \/ \E t \in Tag : AddTag(h, t)
           \/ \E k \in Key, v \in Text : SetAttribute(h, k, v)
           \/ \E b \in BOOLEAN : SetDisabled(h, b)
           \/ \E n \in Attempts : SetMaxAttempts(h, n)
    PROVE  \/ \E n \in Order : Values!SetOrder(h, n)
           \/ \E t \in Tag : Values!AddTag(h, t)
           \/ \E k \in Key, v \in Text : Values!SetAttribute(h, k, v)
           \/ \E b \in BOOLEAN : Values!SetDisabled(h, b)
           \/ \E n \in Attempts : Values!SetMaxAttempts(h, n)
<1> DEFINE m == Target(h)
           value == [g \in Handle |->
                        Shown(IF g \in live THEN store[impl[g]] ELSE NewImpl)]
<1>1. step[h] = "write" /\ h \in live /\ impl[h] \in Object
  BY DEF Inv, TypeOK, SetOrder, AddTag, SetAttribute, SetDisabled, SetMaxAttempts, Write
<1>2. m \in Impl /\ KeysDistinct(m.attributes)
  BY <1>1, ProperStore DEF Target, Proper
<1>3. value[h] = Shown(m)
  BY <1>1 DEF Target
<1>4. m = [order |-> m.order, tags |-> m.tags, attributes |-> m.attributes,
           disabled |-> m.disabled, maxAttempts |-> m.maxAttempts]
  BY <1>2 DEF Impl
<1>5. ASSUME NEW n \in Order, SetOrder(h, n) PROVE Values!SetOrder(h, n)
  <2>1. Values!Change(h, Shown([m EXCEPT !.order = <<n>>]),
                      <<"order", n>>)
    BY <1>5, WriteIsChange DEF SetOrder
  <2>2. Shown([m EXCEPT !.order = <<n>>]) = [Shown(m) EXCEPT !.order = <<n>>]
    BY <1>4 DEF Shown
  <2> QED
    BY <2>1, <2>2, <1>3 DEF Values!SetOrder
<1>6. ASSUME NEW t \in Tag, AddTag(h, t) PROVE Values!AddTag(h, t)
  <2>1. Values!Change(h, Shown([m EXCEPT !.tags = Append(@, t)]),
                      <<"tag", t>>)
    BY <1>6, WriteIsChange DEF AddTag
  <2>2. Shown([m EXCEPT !.tags = Append(@, t)]) = [Shown(m) EXCEPT !.tags = Append(@, t)]
    BY <1>4 DEF Shown
  <2> QED
    BY <2>1, <2>2, <1>3 DEF Values!AddTag
<1>7. ASSUME NEW k \in Key, NEW v \in Text, SetAttribute(h, k, v)
      PROVE Values!SetAttribute(h, k, v)
  <2> DEFINE old == AsMap(m.attributes)
             updated == [x \in DOMAIN old \cup {k} |-> IF x = k THEN v ELSE old[x]]
  <2>1. Values!Change(h, Shown([m EXCEPT !.attributes = WithAttribute(@, k, v)]),
                      <<"attribute", k, v>>)
    BY <1>7, WriteIsChange DEF SetAttribute
  <2>2. AsMap(WithAttribute(m.attributes, k, v)) = updated
    BY <1>2, WithAttributeIsUpdate DEF Impl
  <2>3. Shown(m).attributes = old
    BY <1>4 DEF Shown
  <2>4. Shown([m EXCEPT !.attributes = WithAttribute(@, k, v)])
           = [Shown(m) EXCEPT !.attributes = updated]
    BY <1>4, <2>2 DEF Shown
  <2> QED
    BY <2>1, <2>3, <2>4, <1>3 DEF Values!SetAttribute
<1>8. ASSUME NEW b \in BOOLEAN, SetDisabled(h, b) PROVE Values!SetDisabled(h, b)
  <2>1. Values!Change(h, Shown([m EXCEPT !.disabled = b]),
                      <<"disabled", b>>)
    BY <1>8, WriteIsChange DEF SetDisabled
  <2>2. Shown([m EXCEPT !.disabled = b]) = [Shown(m) EXCEPT !.disabled = b]
    BY <1>4 DEF Shown
  <2> QED
    BY <2>1, <2>2, <1>3 DEF Values!SetDisabled
<1>9. ASSUME NEW n \in Attempts, SetMaxAttempts(h, n) PROVE Values!SetMaxAttempts(h, n)
  <2>1. Values!Change(h, Shown([m EXCEPT !.maxAttempts = n]),
                      <<"maxAttempts", n>>)
    BY <1>9, WriteIsChange DEF SetMaxAttempts
  <2>2. Shown([m EXCEPT !.maxAttempts = n]) = [Shown(m) EXCEPT !.maxAttempts = n]
    BY <1>4 DEF Shown
  <2> QED
    BY <2>1, <2>2, <1>3 DEF Values!SetMaxAttempts
<1> QED
  BY <1>5, <1>6, <1>7, <1>8, <1>9

LEMMA StepRefined == Inv /\ [Next]_vars => [Values!Next]_(Values!valueVars)
<1> SUFFICES ASSUME Inv, [Next]_vars PROVE Values!Next \/ UNCHANGED Values!valueVars
  OBVIOUS
<1>0. TypeOK
  BY DEF Inv
<1>1. CASE UNCHANGED vars
  BY <1>1 DEF vars, Values!valueVars
<1>2. ASSUME NEW h \in Handle, Construct(h) PROVE Values!Construct(h)
  <2>1. PICK o \in Unused : /\ impl' = [impl EXCEPT ![h] = o]
                            /\ store' = [store EXCEPT ![o] = NewImpl]
    BY <1>2 DEF Construct
  <2>2. h \notin live /\ live' = live \cup {h} /\ last' = last
    BY <1>2 DEF Construct
  <2>3. o \in Object /\ \A g \in live : impl[g] # o
    BY DEF Unused
  <2>4. ASSUME NEW g \in Handle PROVE ValueOf(g)' = ValueOf(g)
    BY <1>0, <2>1, <2>2, <2>3 DEF ValueOf, TypeOK
  <2> QED
    BY <2>2, <2>4 DEF Values!Construct, ValueOf
<1>3. ASSUME NEW h \in Handle, Destroy(h) PROVE Values!Destroy(h)
  <2>1. /\ h \in live /\ live' = live \ {h} /\ impl' = [impl EXCEPT ![h] = "null"]
        /\ store' = Kept(store, impl') /\ last' = last
    BY <1>3 DEF Destroy
  <2>2. ASSUME NEW g \in Handle, g # h PROVE ValueOf(g)' = ValueOf(g)
    BY <1>0, <2>1, <2>2 DEF ValueOf, TypeOK, Kept
  <2>3. ValueOf(h)' = Values!Default
    BY <2>1, ShownDefault DEF ValueOf
  <2> QED
    BY <2>1, <2>2, <2>3 DEF Values!Destroy, ValueOf
<1>4. ASSUME NEW h \in Handle, NEW g \in Handle, Copy(h, g) \/ Move(h, g)
      PROVE Values!Copy(h, g)
  <2>1. /\ g \in live /\ live' = live \cup {h}
        /\ impl' = [impl EXCEPT ![h] = impl[g]] /\ store' = Kept(store, impl')
        /\ last' = last
    BY <1>4 DEF Copy, Move, AfterMove
  <2>2. ASSUME NEW x \in Handle, x # h PROVE ValueOf(x)' = ValueOf(x)
    BY <1>0, <2>1, <2>2 DEF ValueOf, TypeOK, Kept
  <2>3. ValueOf(h)' = ValueOf(g)
    BY <1>0, <2>1 DEF ValueOf, TypeOK, Kept
  <2> QED
    BY <2>1, <2>2, <2>3 DEF Values!Copy, ValueOf
<1>5. ASSUME NEW h \in Handle, Detach(h) PROVE UNCHANGED Values!valueVars
  BY <1>5 DEF Detach, Values!valueVars
<1>6. ASSUME NEW h \in Handle, Clone(h) PROVE UNCHANGED Values!valueVars
  <2>1. h \in live /\ impl[h] \in Object /\ impl[h] # "null" /\ live' = live
        /\ last' = last
    BY <1>0, <1>6, ObjectAssumption DEF Clone, TypeOK
  <2>2. PICK o \in Unused : /\ impl' = [impl EXCEPT ![h] = o]
                            /\ store' = Kept([store EXCEPT ![o] = store[impl[h]]], impl')
    BY <1>6, <2>1 DEF Clone
  <2>3. o \in Object /\ \A g \in live : impl[g] # o
    BY DEF Unused
  <2>4. ASSUME NEW g \in Handle PROVE ValueOf(g)' = ValueOf(g)
    BY <1>0, <2>1, <2>2, <2>3 DEF ValueOf, TypeOK, Kept
  <2> QED
    BY <2>1, <2>4 DEF Values!valueVars, ValueOf
<1>7. ASSUME NEW h \in Handle,
             \/ \E n \in Order : SetOrder(h, n)
             \/ \E t \in Tag : AddTag(h, t)
             \/ \E k \in Key, v \in Text : SetAttribute(h, k, v)
             \/ \E b \in BOOLEAN : SetDisabled(h, b)
             \/ \E n \in Attempts : SetMaxAttempts(h, n)
      PROVE  Values!Next
  BY <1>7, SetterRefined DEF Values!Next
<1>8. CASE Next
  BY <1>2, <1>3, <1>4, <1>5, <1>6, <1>7, <1>8 DEF Next, Values!Next
<1> QED
  BY <1>1, <1>8

(* For any number of handles, sharing is never observed: OptionsStorage    *)
(* implements OptionValues.                                                *)
THEOREM Independent == Spec => IndependentValues
<1>1. Spec => []Inv
  BY InitInv, NextInv, PTL DEF Spec
<1> QED
  BY <1>1, InitRefined, StepRefined, PTL DEF Spec, IndependentValues, Values!Spec
=============================================================================
