------------------------------ MODULE Registry ------------------------------
(***************************************************************************)
(* InternalRegistry and the SuiteRegistration handles that own its suites. *)
(* Threads define suites, move and destroy handles, and ask for all suites *)
(* or those that match a filter. A step is what happens under one lock, or *)
(* between two; but a filter is called again and again while a lock is     *)
(* held, and a name is compared before its suite is appended. What a       *)
(* thread was given it may keep, as run() does, while handles of those     *)
(* suites are destroyed.                                                   *)
(*                                                                         *)
(* An object is an InternalSuite; it exists while something points to it.  *)
(***************************************************************************)
EXTENDS Integers, FiniteSets, Sequences, SequencesExt

CONSTANTS Thread,
          Handle,      \* variables of type SuiteRegistration
          Object,      \* addresses of an InternalSuite
          Name         \* names of suites

ASSUME RegistryAssumption == "null" \notin Object

VARIABLES
    registered,        \* registeredSuites, in order
    errors,            \* recordedErrors, by the names they begin with
    handle,            \* the suite each handle owns
    name,              \* the name of each suite
    pc,                \* per thread: what it does next
    op,                \* the operation it is in
    found              \* the suites it was given, or will be

vars == <<registered, errors, handle, name, pc, op, found>>

(* The elements of s that are in T, of the first i for each i: what a loop *)
(* over s has kept. This is SelectSeq as a function of the position.       *)
Selected(s, T) ==
    LET kept[i \in 0 .. Len(s)] ==
            IF i = 0 THEN <<>>
            ELSE IF s[i] \in T THEN Append(kept[i - 1], s[i]) ELSE kept[i - 1]
    IN  kept

NoOp == [target |-> "none", suite |-> "null", name |-> "none", wanted |-> {}, next |-> 1]

-----------------------------------------------------------------------------
(* Who may use what. *)

(* A thread uses handles that no other thread is using. *)
Busy == {op[t].target : t \in Thread}

Owned == ({handle[h] : h \in Handle} \cup {op[t].suite : t \in Thread} \cup Range(registered))
            \ {"null"}

(* Fault: a caller is given pointers that do not keep a suite alive. *)
InUse_Raw == Owned

InUse == Owned \cup UNION {Range(found[t]) : t \in Thread}

(* A suite nothing points to is destroyed. *)
Collect == name' = [o \in Object |-> IF o \in InUse' THEN name[o] ELSE "none"]

(* The shared lock waits for the holder of the exclusive lock. *)
MayRead == \A t \in Thread : pc[t] # "append"

(* Fault: registration does not wait for a filter. *)
MayWrite_Always == TRUE

(* Fault: the lock is released between comparing and appending. *)
MayWrite_Released == \A t \in Thread : pc[t] # "filter"

(* The exclusive lock waits for every holder of a lock. *)
MayWrite == \A t \in Thread : pc[t] \notin {"filter", "append"}

Goto(t, label) == pc' = [pc EXCEPT ![t] = label]
Finish(t) == Goto(t, "idle") /\ op' = [op EXCEPT ![t] = NoOp]

(* What a handle held is destroyed: its suite is unregistered. *)
Release(t, h, suite) ==
    IF suite = "null" THEN Finish(t)
    ELSE /\ Goto(t, "unregister")
         /\ op' = [op EXCEPT ![t] = [NoOp EXCEPT !.target = h, !.suite = suite]]

-----------------------------------------------------------------------------

Init ==
    /\ registered = <<>> /\ errors = {}
    /\ handle = [h \in Handle |-> "null"]
    /\ name = [o \in Object |-> "none"]
    /\ pc = [t \in Thread |-> "idle"]
    /\ op = [t \in Thread |-> NoOp]
    /\ found = [t \in Thread |-> <<>>]

(* Suite(...) builds a suite. Its definitions, or addTest, may reject it. *)
Define(t, h, n, o, rejected) ==
    /\ pc[t] = "idle" /\ h \notin Busy /\ o \in Object \ InUse
    /\ op' = [op EXCEPT ![t] = [NoOp EXCEPT !.target = h, !.name = n,
                                            !.suite = IF rejected THEN "null" ELSE o]]
    /\ name' = IF rejected THEN name ELSE [name EXCEPT ![o] = n]
    /\ Goto(t, IF rejected THEN "record" ELSE "register")
    /\ UNCHANGED <<registered, errors, handle, found>>

NameTaken(n) == \E o \in Range(registered) : name[o] = n

(* registerSuite compares the name with those of the registered suites     *)
(* under the exclusive lock, and appends the suite before it lets go of it. *)
CompareNames(t) ==
    /\ pc[t] = "register" /\ MayWrite
    /\ IF NameTaken(op[t].name)
       THEN op' = [op EXCEPT ![t].suite = "null"] /\ Goto(t, "record")
       ELSE UNCHANGED op /\ Goto(t, "append")
    /\ UNCHANGED <<registered, errors, handle, found>>
    /\ Collect

AppendSuite(t) ==
    /\ pc[t] = "append"
    /\ registered' = Append(registered, op[t].suite)
    /\ Goto(t, "assign")
    /\ UNCHANGED <<errors, handle, name, op, found>>

RecordConfigurationError(t) ==
    /\ pc[t] = "record"
    /\ errors' = errors \cup {op[t].name}
    /\ Goto(t, "assign")
    /\ UNCHANGED <<registered, handle, name, op, found>>

(* The registration initializes the handle or is assigned to it; then what *)
(* the handle held before is destroyed.                                    *)
Assign(t) ==
    /\ pc[t] = "assign"
    /\ handle' = [handle EXCEPT ![op[t].target] = op[t].suite]
    /\ Release(t, op[t].target, handle[op[t].target])
    /\ UNCHANGED <<registered, errors, name, found>>

(* Fault: the source keeps its suite. *)
AfterMove_Copies(h, g) == [handle EXCEPT ![h] = handle[g]]

AfterMove(h, g) == IF h = g THEN handle ELSE [handle EXCEPT ![h] = handle[g], ![g] = "null"]

Move(t, h, g) ==
    /\ pc[t] = "idle" /\ {h, g} \cap Busy = {}
    /\ handle' = AfterMove(h, g)
    /\ Release(t, h, IF h = g THEN "null" ELSE handle[h])
    /\ UNCHANGED <<registered, errors, name, found>>

Destroy(t, h) ==
    /\ pc[t] = "idle" /\ h \notin Busy
    /\ handle' = [handle EXCEPT ![h] = "null"]
    /\ Release(t, h, handle[h])
    /\ UNCHANGED <<registered, errors, name, found>>

UnregisterSuite(t) ==
    /\ pc[t] = "unregister" /\ MayWrite
    /\ registered' = Selected(registered, Object \ {op[t].suite})[Len(registered)]
    /\ Finish(t)
    /\ UNCHANGED <<errors, handle, found>>
    /\ Collect

(* getSuitesByFilter calls the filter for one suite after another, under   *)
(* the shared lock; here a filter wants certain names.                     *)
BeginFilter(t, wanted) ==
    /\ pc[t] = "idle" /\ MayRead
    /\ op' = [op EXCEPT ![t] = [NoOp EXCEPT !.wanted = wanted]]
    /\ Goto(t, "filter")
    /\ UNCHANGED <<registered, errors, handle, name, found>>

CallFilter(t) ==
    /\ pc[t] = "filter" /\ op[t].next <= Len(registered)
    /\ LET o == registered[op[t].next]
       IN  found' = IF name[o] \in op[t].wanted
                    THEN [found EXCEPT ![t] = Append(@, o)] ELSE found
    /\ op' = [op EXCEPT ![t].next = @ + 1]
    /\ UNCHANGED <<registered, errors, handle, name, pc>>

ReturnFiltered(t) ==
    /\ pc[t] = "filter" /\ op[t].next > Len(registered)
    /\ Goto(t, "holding")
    /\ UNCHANGED <<registered, errors, handle, name, op, found>>

(* getAllSuites copies the list, under the shared lock. *)
GetAllSuites(t) ==
    /\ pc[t] = "idle" /\ MayRead
    /\ found' = [found EXCEPT ![t] = registered]
    /\ op' = [op EXCEPT ![t] = [NoOp EXCEPT !.wanted = Name]]
    /\ Goto(t, "holding")
    /\ UNCHANGED <<registered, errors, handle, name>>

(* The caller lets go of the suites it was given. *)
DropFound(t) ==
    /\ pc[t] = "holding"
    /\ found' = [found EXCEPT ![t] = <<>>]
    /\ Finish(t)
    /\ UNCHANGED <<registered, errors, handle>>
    /\ Collect

Next ==
    \E t \in Thread :
        \/ \E h \in Handle, n \in Name, o \in Object, rejected \in BOOLEAN :
              Define(t, h, n, o, rejected)
        \/ CompareNames(t) \/ AppendSuite(t) \/ RecordConfigurationError(t) \/ Assign(t)
        \/ \E h, g \in Handle : Move(t, h, g)
        \/ \E h \in Handle : Destroy(t, h)
        \/ UnregisterSuite(t)
        \/ \E wanted \in SUBSET Name : BeginFilter(t, wanted)
        \/ CallFilter(t) \/ ReturnFiltered(t) \/ GetAllSuites(t) \/ DropFound(t)

Spec == Init /\ [][Next]_vars

-----------------------------------------------------------------------------
(* Properties. *)

Operation == [target : Handle \cup {"none"}, suite : Object \cup {"null"},
              name : Name \cup {"none"}, wanted : SUBSET Name, next : Nat \ {0}]

(* Every variable stays in its range. *)
TypeOK ==
    /\ registered \in Seq(Object)
    /\ errors \subseteq Name
    /\ handle \in [Handle -> Object \cup {"null"}]
    /\ name \in [Object -> Name \cup {"none"}]
    /\ pc \in [Thread -> {"idle", "register", "append", "record", "assign", "unregister",
                      "filter", "holding"}]
    /\ op \in [Thread -> Operation]
    /\ found \in [Thread -> Seq(Object)]
    /\ \A t \in Thread : pc[t] = "filter" => op[t].next <= Len(registered) + 1

(* Suites that are registered at the same time have different names,       *)
(* whichever threads compare and append theirs.                            *)
NamesUnique ==
    \A i, j \in DOMAIN registered : name[registered[i]] = name[registered[j]] => i = j

Owners(o) ==
    Cardinality({h \in Handle : handle[h] = o}) +
    Cardinality({t \in Thread : op[t].suite = o /\ pc[t] \in {"assign", "unregister"}})

(* A suite is registered exactly as long as it has an owner, a handle or   *)
(* the operation that creates or destroys one, and never has two: no       *)
(* order of definitions, moves and destructions leaves a suite behind,     *)
(* takes one away from its handle or unregisters one that is still held.   *)
OwnedWhileRegistered ==
    \A o \in Object :
        Owners(o) = Cardinality({i \in DOMAIN registered : registered[i] = o})

(* The suites a thread was given stay what they were, though they may have *)
(* been unregistered and their names been taken by others: they are of the *)
(* names it asked for, and no two of the same one, so that a run that      *)
(* holds them runs and reports each suite once.                            *)
SnapshotStaysTrue ==
    \A t \in Thread :
        /\ \A i \in DOMAIN found[t] : name[found[t][i]] \in op[t].wanted
        /\ \A i, j \in DOMAIN found[t] : name[found[t][i]] = name[found[t][j]] => i = j

(* The registered suites the filter of thread t wants. *)
Wanted(t) == {o \in Range(registered) : name[o] \in op[t].wanted}

(* While a filter is called, the suites found so far are those it wants    *)
(* among the registered ones it was called for, in order: the result is    *)
(* one state of the registry, not a mixture of several.                    *)
FilterSeesOneRegistry ==
    \A t \in Thread :
        pc[t] = "filter" =>
            /\ op[t].next - 1 <= Len(registered)
            /\ found[t] = Selected(registered, Wanted(t))[op[t].next - 1]
=============================================================================
