--------------------------- MODULE OptionsStorage ---------------------------
(***************************************************************************)
(* TestOptions (and SuiteOptions, which has fewer fields): handles that    *)
(* share one reference-counted Impl until one of them is changed. Threads  *)
(* use different handles, which may share their storage: a setter is the   *)
(* steps Detach, Clone and a write, and other handles may act in between.  *)
(***************************************************************************)
EXTENDS Integers, FiniteSets, Sequences

CONSTANTS Handle,      \* the options objects of a program, over all threads
          Object,      \* addresses of an Impl
          Order, Tag, Key, Text, Attempts,  \* arguments of the setters
          MaxTags      \* bound: tags in one Impl

ASSUME HandleAssumption == IsFiniteSet(Handle)
ASSUME ObjectAssumption == "null" \notin Object
ASSUME OrderAssumption == Order \subseteq Int
ASSUME AttemptsAssumption == Attempts \subseteq Nat

VARIABLES
    live,              \* handles between constructor and destructor
    impl,              \* their shared pointers
    store,             \* the Impl at each address
    step,              \* where the setter of a handle is
    last               \* the last call of a setter, for the refinement

vars == <<live, impl, store, step, last>>

NewImpl == [order |-> <<>>, tags |-> <<>>, attributes |-> <<>>,
            disabled |-> FALSE, maxAttempts |-> 1]

-----------------------------------------------------------------------------
(* OptionsStorage: attributes are a list of key and value, searched from   *)
(* the front.                                                              *)

Has(list, k) == \E i \in DOMAIN list : list[i][1] = k

First(list, k) ==
    CHOOSE i \in DOMAIN list : list[i][1] = k /\ \A j \in 1 .. i - 1 : list[j][1] # k

FindAttribute(list, k) == list[First(list, k)][2]

(* Fault: an existing key is not replaced. *)
WithAttribute_Appends(list, k, v) == Append(list, <<k, v>>)

WithAttribute(list, k, v) ==
    IF Has(list, k) THEN [list EXCEPT ![First(list, k)] = <<k, v>>]
    ELSE Append(list, <<k, v>>)

-----------------------------------------------------------------------------
(* The shared pointers. *)

Sharing(o) == {h \in live : impl[h] = o}
UseCount(o) == Cardinality(Sharing(o))
Unused == Object \ {impl[h] : h \in live}

(* What is stored once the pointers are i: the last owner frees an Impl.   *)
Kept(s, i) == [o \in Object |-> IF \E h \in Handle : i[h] = o THEN s[o] ELSE NewImpl]

Init ==
    /\ live = {}
    /\ impl = [h \in Handle |-> "null"]
    /\ store = [o \in Object |-> NewImpl]
    /\ step = [h \in Handle |-> "idle"]
    /\ last = <<>>

Construct(h) ==
    /\ h \notin live
    /\ live' = live \cup {h}
    /\ \E o \in Unused : /\ impl' = [impl EXCEPT ![h] = o]
                         /\ store' = [store EXCEPT ![o] = NewImpl]
    /\ UNCHANGED <<step, last>>

(* Constructor and assignment from another handle, or the same one. *)
Copy(h, g) ==
    /\ g \in live /\ step[g] = "idle" /\ step[h] = "idle"
    /\ live' = live \cup {h}
    /\ impl' = [impl EXCEPT ![h] = impl[g]]
    /\ store' = Kept(store, impl')
    /\ UNCHANGED <<step, last>>

(* Fault: the defaulted move, which leaves the source without an Impl. *)
AfterMove_Steals(h, g) == [impl EXCEPT ![g] = "null", ![h] = impl[g]]

AfterMove(h, g) == [impl EXCEPT ![h] = impl[g]]

(* A move copies the pointer, so that the source can still be used. *)
Move(h, g) ==
    /\ g \in live /\ step[g] = "idle" /\ step[h] = "idle"
    /\ live' = live \cup {h}
    /\ impl' = AfterMove(h, g)
    /\ store' = Kept(store, impl')
    /\ UNCHANGED <<step, last>>

Destroy(h) ==
    /\ h \in live /\ step[h] = "idle"
    /\ live' = live \ {h}
    /\ impl' = [impl EXCEPT ![h] = "null"]
    /\ store' = Kept(store, impl')
    /\ UNCHANGED <<step, last>>

(* Fault: two handles may share what is written. *)
IsShared_AboveTwo(o) == UseCount(o) > 2

IsShared(o) == UseCount(o) # 1

(* Every setter begins with detach, which reads the use count and copies   *)
(* the Impl if it is shared. A handle always has an Impl, so that the test *)
(* for a null pointer only matters if a move were to take it away.         *)
Detach(h) ==
    /\ h \in live /\ step[h] = "idle"
    /\ step' = [step EXCEPT ![h] = IF impl[h] = "null" \/ IsShared(impl[h])
                                   THEN "clone" ELSE "write"]
    /\ UNCHANGED <<live, impl, store, last>>

Clone(h) ==
    /\ step[h] = "clone"
    /\ \E o \in Unused :
          /\ impl' = [impl EXCEPT ![h] = o]
          /\ LET copy == IF impl[h] = "null" THEN NewImpl ELSE store[impl[h]]
             IN  store' = Kept([store EXCEPT ![o] = copy], impl')
    /\ step' = [step EXCEPT ![h] = "write"]
    /\ UNCHANGED <<live, last>>

(* The assignment after detach, one for each setter. *)
Write(h, new, call) ==
    /\ step[h] = "write"
    /\ store' = [store EXCEPT ![impl[h]] = new]
    /\ step' = [step EXCEPT ![h] = "idle"]
    /\ last' = <<h, call>>
    /\ UNCHANGED <<live, impl>>

Target(h) == store[impl[h]]

SetOrder(h, n) == Write(h, [Target(h) EXCEPT !.order = <<n>>], <<"order", n>>)
AddTag(h, t) == /\ step[h] = "write" /\ Len(Target(h).tags) < MaxTags
                /\ Write(h, [Target(h) EXCEPT !.tags = Append(@, t)], <<"tag", t>>)
SetAttribute(h, k, v) ==
    Write(h, [Target(h) EXCEPT !.attributes = WithAttribute(@, k, v)],
          <<"attribute", k, v>>)
SetDisabled(h, b) == Write(h, [Target(h) EXCEPT !.disabled = b], <<"disabled", b>>)
SetMaxAttempts(h, n) ==
    Write(h, [Target(h) EXCEPT !.maxAttempts = n], <<"maxAttempts", n>>)

Next ==
    \E h \in Handle :
        \/ Construct(h) \/ Destroy(h)
        \/ \E g \in Handle : Copy(h, g)
        \/ \E g \in Handle : Move(h, g)
        \/ Detach(h) \/ Clone(h)
        \/ \E n \in Order : SetOrder(h, n)
        \/ \E t \in Tag : AddTag(h, t)
        \/ \E k \in Key, v \in Text : SetAttribute(h, k, v)
        \/ \E b \in BOOLEAN : SetDisabled(h, b)
        \/ \E n \in Attempts : SetMaxAttempts(h, n)

Spec == Init /\ [][Next]_vars

-----------------------------------------------------------------------------
(* Properties. *)

Impl == [order : {<<>>} \cup {<<n>> : n \in Order},
         tags : Seq(Tag),
         attributes : Seq(Key \X Text),
         disabled : BOOLEAN,
         maxAttempts : Attempts \cup {1}]

(* Every variable stays in its range; a live handle, one that was moved    *)
(* from included, has an Impl, which the getters use without a test.       *)
TypeOK ==
    /\ live \subseteq Handle
    /\ impl \in [Handle -> Object \cup {"null"}]
    /\ \A h \in Handle : h \in live <=> impl[h] # "null"
    /\ store \in [Object -> Impl]
    /\ step \in [Handle -> {"idle", "clone", "write"}]
    /\ \A h \in Handle : step[h] # "idle" => h \in live

(* Whatever other handles did since detach decided, a setter writes to an  *)
(* Impl that is its own, and a key has one value.                          *)
WritesAlone ==
    /\ \A h \in Handle : step[h] = "write" => Sharing(impl[h]) = {h}
    /\ \A o \in Object : \A i, j \in DOMAIN store[o].attributes :
          store[o].attributes[i][1] = store[o].attributes[j][1] => i = j

(* The value that the getters show of an Impl. *)
AsMap(list) == [k \in {list[i][1] : i \in DOMAIN list} |-> FindAttribute(list, k)]
Shown(m) == [m EXCEPT !.attributes = AsMap(@)]

Values == INSTANCE OptionValues WITH
    value <- [h \in Handle |-> Shown(IF h \in live THEN store[impl[h]] ELSE NewImpl)]

(* Sharing is never observed: the handles behave as independent values,    *)
(* and no setter is lost.                                                  *)
IndependentValues == Values!Spec
=============================================================================
