--------------------------- MODULE ServiceLocator ---------------------------
(***************************************************************************)
(* ServiceLocator: a pointer to an Impl, which holds an unordered_map and  *)
(* a shared_mutex. registerService and unregisterService take the mutex    *)
(* exclusively, getService shared with other readers; every one of them    *)
(* looks an entry up first and uses what it found after that.              *)
(*                                                                         *)
(* Calls, moves and destruction are those ServiceMap allows: a locator     *)
(* without an Impl is not called, and its owner does not move or destroy   *)
(* it while a call is in progress; the code guards against neither.        *)
(***************************************************************************)
EXTENDS Integers

CONSTANTS Thread, Locator, Type, Service,
          Impl,        \* addresses of an Impl
          MaxCalls     \* bound: how many calls each thread makes

ASSUME LocatorAssumption == "none" \notin Locator
ASSUME ServiceAssumption == {"null", "none"} \cap Service = {}
ASSUME ImplAssumption == {"null", "absent"} \cap Impl = {}
ASSUME MaxCallsAssumption == MaxCalls \in Nat

VARIABLES
    pImpl,             \* the Impl of each locator, "null" or "absent"
    services,          \* per Impl: the service of each type, or "none"
    holders,           \* per Impl: the threads that hold its mutex
    call,              \* the call each thread is in, as in ServiceMap
    pc,                \* its next step
    found,             \* the lookup found an entry
    callsLeft

vars == <<pImpl, services, holders, call, pc, found, callsLeft>>

Map == INSTANCE ServiceMap WITH
          state <- [l \in Locator |-> CASE pImpl[l] = "absent" -> "absent"
                                        [] pImpl[l] = "null" -> "moved"
                                        [] OTHER -> "live"],
          registered <- [l \in Locator |-> IF pImpl[l] \in Impl THEN services[pImpl[l]]
                                           ELSE [type \in Type |-> "none"]]

Empty == [type \in Type |-> "none"]

(* The Impl that thread t's call works on, and the entry it looks for. *)
Mine(t) == pImpl[call[t].on]
Entry(t) == services[Mine(t)][call[t].type]

-----------------------------------------------------------------------------

Init ==
    /\ pImpl = [l \in Locator |-> "absent"]
    /\ services = [i \in Impl |-> Empty]
    /\ holders = [i \in Impl |-> {}]
    /\ call = [t \in Thread |-> Map!NoCall]
    /\ pc = [t \in Thread |-> "idle"]
    /\ found = [t \in Thread |-> FALSE]
    /\ callsLeft = [t \in Thread |-> MaxCalls]

Create(l) ==
    /\ pImpl[l] = "absent"
    /\ \E i \in Impl \ {pImpl[k] : k \in Locator} :
          /\ pImpl' = [pImpl EXCEPT ![l] = i]
          /\ services' = [services EXCEPT ![i] = Empty]
          /\ holders' = [holders EXCEPT ![i] = {}]
    /\ UNCHANGED <<call, pc, found, callsLeft>>

(* Fault: the moved-from locator keeps its pointer. *)
AfterMove_Copies(l, k) == [pImpl EXCEPT ![l] = pImpl[k]]

(* Move construction and move assignment; an Impl that l had is deleted    *)
(* with its services. Moving a locator to itself changes nothing.          *)
AfterMove(l, k) == [pImpl EXCEPT ![l] = pImpl[k], ![k] = "null"]

Move(l, k) ==
    /\ l # k /\ pImpl[k] # "absent" /\ ~Map!InUse(l) /\ ~Map!InUse(k)
    /\ pImpl' = AfterMove(l, k)
    /\ UNCHANGED <<services, holders, call, pc, found, callsLeft>>

Destroy(l) ==
    /\ pImpl[l] # "absent" /\ ~Map!InUse(l)
    /\ pImpl' = [pImpl EXCEPT ![l] = "absent"]
    /\ UNCHANGED <<services, holders, call, pc, found, callsLeft>>

-----------------------------------------------------------------------------
(* One call. *)

Goto(t, label) == pc' = [pc EXCEPT ![t] = label]
Answer(t, result) == call' = [call EXCEPT ![t].result = result] /\ Goto(t, "return")

Call(t, c) ==
    /\ pc[t] = "idle" /\ callsLeft[t] > 0 /\ pImpl[c.on] \in Impl
    /\ call' = [call EXCEPT ![t] = c]
    /\ callsLeft' = [callsLeft EXCEPT ![t] = @ - 1]
    /\ Goto(t, "enter")
    /\ UNCHANGED <<pImpl, services, holders, found>>

(* A null service is refused before the mutex is taken. *)
Enter(t) ==
    /\ pc[t] = "enter"
    /\ IF call[t].service = "null" THEN Answer(t, "invalid_argument")
       ELSE Goto(t, "lock") /\ UNCHANGED call
    /\ UNCHANGED <<pImpl, services, holders, found, callsLeft>>

(* Fault: a reader takes no notice of a writer. *)
MayLock_Readers(t) == call[t].kind = "get" \/ holders[Mine(t)] = {}

(* Readers share the mutex; a writer has it alone. Nothing says who is     *)
(* next when several wait.                                                 *)
MayLock(t) ==
    \A u \in holders[Mine(t)] : call[t].kind = "get" /\ call[u].kind = "get"

Lock(t) ==
    /\ pc[t] = "lock" /\ MayLock(t)
    /\ holders' = [holders EXCEPT ![Mine(t)] = @ \cup {t}]
    /\ Goto(t, "find")
    /\ UNCHANGED <<pImpl, services, call, found, callsLeft>>

Find(t) ==
    /\ pc[t] = "find"
    /\ found' = [found EXCEPT ![t] = Entry(t) # "none"]
    /\ Goto(t, "use")
    /\ UNCHANGED <<pImpl, services, holders, call, callsLeft>>

(* Fault: an entry that exists is replaced. *)
Emplaces_Always(t) == TRUE

(* try_emplace leaves an entry that exists as it is. *)
Emplaces(t) == ~found[t]

Register(t) ==
    /\ pc[t] = "use" /\ call[t].kind = "register"
    /\ IF Emplaces(t)
       THEN /\ services' = [services EXCEPT ![Mine(t)][call[t].type] = call[t].service]
            /\ Answer(t, "done")
       ELSE Answer(t, "runtime_error") /\ UNCHANGED services
    /\ UNCHANGED <<pImpl, holders, found, callsLeft>>

Unregister(t) ==
    /\ pc[t] = "use" /\ call[t].kind = "unregister"
    /\ services' = [services EXCEPT ![Mine(t)][call[t].type] = "none"]
    /\ Answer(t, IF found[t] THEN "done" ELSE "runtime_error")
    /\ UNCHANGED <<pImpl, holders, found, callsLeft>>

Get(t) ==
    /\ pc[t] = "use" /\ call[t].kind = "get"
    /\ Answer(t, IF found[t] THEN Entry(t) ELSE "runtime_error")
    /\ UNCHANGED <<pImpl, services, holders, found, callsLeft>>

(* Fault: an exception leaves the mutex locked. *)
Unlocked_NotByThrow(t) ==
    IF call[t].result = "runtime_error" THEN holders[Mine(t)] ELSE holders[Mine(t)] \ {t}

(* The lock is released on every way out. *)
Unlocked(t) == holders[Mine(t)] \ {t}

Return(t) ==
    /\ pc[t] = "return"
    /\ holders' = [holders EXCEPT ![Mine(t)] = Unlocked(t)]
    /\ call' = [call EXCEPT ![t] = Map!NoCall]
    /\ found' = [found EXCEPT ![t] = FALSE]
    /\ Goto(t, "idle")
    /\ UNCHANGED <<pImpl, services, callsLeft>>

Step(t) ==
    \/ Enter(t) \/ Lock(t) \/ Find(t)
    \/ Register(t) \/ Unregister(t) \/ Get(t) \/ Return(t)

Next ==
    \/ \E l \in Locator : Create(l) \/ Destroy(l) \/ \E k \in Locator : Move(l, k)
    \/ \E t \in Thread : Step(t) \/ \E c \in Map!Calls : Call(t, c)

Spec == Init /\ [][Next]_vars

(* Each thread goes on with a call it is in, if it can. *)
FairSpec == Spec /\ \A t \in Thread : WF_vars(Step(t))

-----------------------------------------------------------------------------
(* Properties. *)

CallRecord ==
    [kind : {"none", "register", "unregister", "get"}, on : Locator \cup {"none"},
     type : Type \cup {"none"}, service : Service \cup {"null", "none"},
     result : Service \cup {"none", "done", "invalid_argument", "runtime_error"}]

(* Every variable stays in its range. *)
TypeOK ==
    /\ pImpl \in [Locator -> Impl \cup {"null", "absent"}]
    /\ services \in [Impl -> [Type -> Service \cup {"none"}]]
    /\ holders \in [Impl -> SUBSET Thread]
    /\ pc \in [Thread -> {"idle", "enter", "lock", "find", "use", "return"}]
    /\ found \in [Thread -> BOOLEAN]
    /\ callsLeft \in [Thread -> 0..MaxCalls]
    /\ call \in [Thread -> CallRecord]

(* What a thread found is still so when it uses it: the entry getService   *)
(* dereferences was not erased, and the place registerService inserts at   *)
(* was not taken, however the calls of other threads interleave and        *)
(* whichever of them throw.                                                *)
NeverDangles ==
    \A t \in Thread : pc[t] = "use" => (found[t] <=> Entry(t) # "none")

(* Calls of several threads act as if each took effect at one moment       *)
(* between its start and its return, on the map of its locator, wherever   *)
(* that map was moved to ("thread-safe", ServiceLocator.hpp).              *)
AsAMap == Map!Spec

(* Every call returns, the ones that throw and the ones that wait for      *)
(* their turn included, when each thread makes finitely many of them.      *)
EveryCallReturns == \A t \in Thread : pc[t] # "idle" ~> pc[t] = "idle"
=============================================================================
