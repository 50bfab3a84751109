----------------------------- MODULE ServiceMap -----------------------------
(***************************************************************************)
(* What ServiceLocator promises (ServiceLocator.hpp): a map from types to  *)
(* services, for each locator, on which the calls of several threads take  *)
(* effect one at a time, somewhere between their start and their return.   *)
(***************************************************************************)
CONSTANTS Thread,
          Locator,     \* variables of type ServiceLocator
          Type,        \* types to look services up by
          Service      \* addresses of services

VARIABLES
    state,             \* per locator: absent, live, or moved from
    registered,        \* the service of each type, or "none"
    call               \* the call each thread is in, with its result

vars == <<state, registered, call>>

Empty == [type \in Type |-> "none"]

NoCall == [kind |-> "none", on |-> "none", type |-> "none", service |-> "none",
           result |-> "none"]

Calls ==
    [kind : {"register"}, on : Locator, type : Type, service : Service \cup {"null"},
     result : {"none"}]
    \cup [kind : {"unregister", "get"}, on : Locator, type : Type, service : {"none"},
          result : {"none"}]

InUse(l) == \E t \in Thread : call[t].on = l

Init ==
    /\ state = [l \in Locator |-> "absent"]
    /\ registered = [l \in Locator |-> Empty]
    /\ call = [t \in Thread |-> NoCall]

(* The owner of a locator constructs, moves and destroys it while no call  *)
(* on it is in progress.                                                   *)
Create(l) ==
    /\ state[l] = "absent"
    /\ state' = [state EXCEPT ![l] = "live"]
    /\ UNCHANGED <<registered, call>>

Move(l, k) ==
    /\ l # k /\ state[k] # "absent" /\ ~InUse(l) /\ ~InUse(k)
    /\ state' = [state EXCEPT ![l] = state[k], ![k] = "moved"]
    /\ registered' = [registered EXCEPT ![l] = registered[k], ![k] = Empty]
    /\ UNCHANGED call

Destroy(l) ==
    /\ state[l] # "absent" /\ ~InUse(l)
    /\ state' = [state EXCEPT ![l] = "absent"]
    /\ registered' = [registered EXCEPT ![l] = Empty]
    /\ UNCHANGED call

(* Only a locator that owns a map may be called. *)
Call(t, c) ==
    /\ call[t] = NoCall /\ state[c.on] = "live"
    /\ call' = [call EXCEPT ![t] = c]
    /\ UNCHANGED <<state, registered>>

Pending(t, kind) == call[t].kind = kind /\ call[t].result = "none"

Entry(t) == registered[call[t].on][call[t].type]

Answer(t, result) == call' = [call EXCEPT ![t].result = result] /\ UNCHANGED state

Register(t) ==
    /\ Pending(t, "register")
    /\ \/ /\ call[t].service = "null"
          /\ Answer(t, "invalid_argument") /\ UNCHANGED registered
       \/ /\ call[t].service # "null" /\ Entry(t) # "none"
          /\ Answer(t, "runtime_error") /\ UNCHANGED registered
       \/ /\ call[t].service # "null" /\ Entry(t) = "none"
          /\ Answer(t, "done")
          /\ registered' = [registered EXCEPT ![call[t].on][call[t].type] = call[t].service]

Unregister(t) ==
    /\ Pending(t, "unregister")
    /\ Answer(t, IF Entry(t) = "none" THEN "runtime_error" ELSE "done")
    /\ registered' = [registered EXCEPT ![call[t].on][call[t].type] = "none"]

Get(t) ==
    /\ Pending(t, "get")
    /\ Answer(t, IF Entry(t) = "none" THEN "runtime_error" ELSE Entry(t))
    /\ UNCHANGED registered

Return(t) ==
    /\ call[t].result # "none"
    /\ call' = [call EXCEPT ![t] = NoCall]
    /\ UNCHANGED <<state, registered>>

Next ==
    \/ \E l \in Locator : Create(l) \/ Destroy(l) \/ \E k \in Locator : Move(l, k)
    \/ \E t \in Thread :
          \/ \E c \in Calls : Call(t, c)
          \/ Register(t) \/ Unregister(t) \/ Get(t) \/ Return(t)

Spec == Init /\ [][Next]_vars
=============================================================================
