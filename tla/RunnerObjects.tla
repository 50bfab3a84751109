---------------------------- MODULE RunnerObjects ----------------------------
(***************************************************************************)
(* Runner objects in one thread: construction, addHandler, moves and       *)
(* destruction, also from the callbacks of a run in progress. The run has  *)
(* copied pointers to the handlers into its chain; the Runner goes on      *)
(* owning them. The chain calls one handler after the other, first         *)
(* configure, then the callbacks of the report, and errorMessage at the    *)
(* end; each handler may throw or return an error in each call.            *)
(*                                                                         *)
(* Left to the caller, and so in the guards: a Runner is not destroyed     *)
(* while it runs, nor the handlers that hear the run, and no run is        *)
(* started by a callback of another one.                                   *)
(***************************************************************************)
EXTENDS Integers, Sequences, SequencesExt

CONSTANTS RunnerObject, \* variables of type Runner
          Handler,      \* addresses of handlers
          MaxCallbacks  \* bound: callbacks of one report

ASSUME RunnerObjectAssumption == "none" \notin RunnerObject
ASSUME MaxCallbacksAssumption == MaxCallbacks \in Nat

VARIABLES
    impl,              \* per Runner: absent, null or owned
    handlers,          \* impl->handlers, empty without an Impl
    running,           \* the Runner whose run() makes callbacks, or "none"
    chain,             \* the handlers in its chain
    next,              \* the one that is called next, 0 between two calls
    errors,            \* the chain has recorded an error, or collected one
    emitted,           \* calls made to the chain by this run
    (* What happened, kept for the properties only. *)
    heard,             \* calls that each handler got in this run
    failures,          \* when handlers failed: in "configure", in the "report"
    exit,              \* the last value returned, -1 before that
    owner,             \* the Runner each handler was added or moved to
    members            \* whose owner was the Runner when its report began

objectVars == <<impl, handlers, owner>>
failureVars == <<errors, failures, exit>>
reportVars == <<running, chain, next, emitted, heard, members, failureVars>>
vars == <<objectVars, reportVars>>

-----------------------------------------------------------------------------

Init ==
    /\ impl = [r \in RunnerObject |-> "absent"]
    /\ handlers = [r \in RunnerObject |-> <<>>]
    /\ running = "none" /\ chain = <<>> /\ next = 0 /\ emitted = 0
    /\ heard = [h \in Handler |-> 0]
    /\ errors = FALSE /\ failures = {} /\ exit = -1
    /\ owner = [h \in Handler |-> "none"]
    /\ members = {}

(* The handlers of r may be deleted: the run in progress does not use them. *)
Unused(r) == r # running /\ (running # "none" => ToSet(handlers[r]) \cap members = {})

Deleted(r) == [h \in Handler |-> IF owner[h] = r THEN "none" ELSE owner[h]]

Construct(r) ==
    /\ impl[r] = "absent"
    /\ impl' = [impl EXCEPT ![r] = "owned"]
    /\ UNCHANGED <<handlers, owner, reportVars>>

Destroy(r) ==
    /\ impl[r] # "absent" /\ Unused(r)
    /\ impl' = [impl EXCEPT ![r] = "absent"]
    /\ handlers' = [handlers EXCEPT ![r] = <<>>]
    /\ owner' = Deleted(r)
    /\ UNCHANGED reportVars

(* A null handler is ignored; a moved-from Runner gets a new Impl. *)
AddHandler(r, h) ==
    /\ impl[r] # "absent" /\ owner[h] = "none"
    /\ impl' = [impl EXCEPT ![r] = "owned"]
    /\ handlers' = [handlers EXCEPT ![r] = Append(@, h)]
    /\ owner' = [owner EXCEPT ![h] = r]
    /\ UNCHANGED reportVars

HandlersAfterMove(r, s) == [handlers EXCEPT ![r] = handlers[s], ![s] = <<>>]

(* Move construction and move assignment of s to r. *)
Move(r, s) ==
    /\ r # s /\ impl[s] # "absent" /\ (handlers[r] = <<>> \/ Unused(r))
    /\ impl' = [impl EXCEPT ![r] = impl[s], ![s] = "null"]
    /\ handlers' = HandlersAfterMove(r, s)
    /\ owner' = [h \in Handler |-> IF owner[h] = s THEN r ELSE Deleted(r)[h]]
    /\ UNCHANGED reportVars

-----------------------------------------------------------------------------

(* argv is <<>> if it is null, else its first elements. *)
InvalidArguments(argc, argv) ==
    \/ argc < 0
    \/ argc > 0 /\ argv = <<>>
    \/ \E index \in 1..(argc - 1) : argv # <<>> /\ argv[index + 1] = "null"

(* run() returns 2 at once. *)
RejectArguments(r, argc, argv) ==
    /\ running = "none" /\ impl[r] # "absent" /\ InvalidArguments(argc, argv)
    /\ exit' = 2
    /\ emitted' = 0 /\ heard' = [h \in Handler |-> 0] /\ members' = {} /\ failures' = {}
    /\ UNCHANGED <<objectVars, running, chain, next, errors>>

First(list) == IF list = <<>> THEN 0 ELSE 1

(* The chain is built, and its configure begins. *)
Run(r, argc, argv) ==
    /\ running = "none" /\ impl[r] # "absent" /\ ~InvalidArguments(argc, argv)
    /\ impl' = [impl EXCEPT ![r] = "owned"]
    /\ running' = r /\ chain' = handlers[r]
    /\ next' = First(handlers[r]) /\ emitted' = 1 /\ heard' = [h \in Handler |-> 0]
    /\ errors' = FALSE /\ failures' = {} /\ exit' = -1
    /\ members' = {h \in Handler : owner[h] = r}
    /\ UNCHANGED <<handlers, owner>>

Configuring == emitted = 1
LastCall == MaxCallbacks + 2

(* Fault: the chain refers to the list of the Runner. *)
Dispatched_Live == IF running = "none" THEN chain ELSE handlers[running]

Dispatched == chain

(* A callback of the report, or errorMessage after the last one. *)
Dispatch ==
    /\ running # "none" /\ next = 0 /\ emitted < LastCall
    /\ Configuring => ~errors
    /\ next' = First(Dispatched)
    /\ emitted' = emitted + 1
    /\ UNCHANGED <<objectVars, running, chain, heard, members, failureVars>>

(* Fault: the exception of a handler ends the loop. *)
NextHandler_Stops(fails) == IF next < Len(Dispatched) /\ ~fails THEN next + 1 ELSE 0

(* The exception is caught inside the loop. *)
NextHandler(fails) == IF next < Len(Dispatched) THEN next + 1 ELSE 0

(* Fault: what the last handler did is the result of the call. *)
Recorded_Last(fails) == fails

Recorded(fails) == errors \/ fails

(* One handler is called; it may throw or return an error. *)
Hear(fails) ==
    /\ next > 0
    /\ next <= Len(Dispatched) => heard' = [heard EXCEPT ![Dispatched[next]] = @ + 1]
    /\ next > Len(Dispatched) => UNCHANGED heard
    /\ next' = NextHandler(fails)
    /\ errors' = Recorded(fails)
    /\ failures' = failures \cup IF fails THEN {IF Configuring THEN "configure" ELSE "report"}
                                          ELSE {}
    /\ UNCHANGED <<objectVars, running, chain, emitted, members, exit>>

(* run() returns between two calls, and the chain is destroyed. *)
Return(code) ==
    /\ running # "none" /\ next = 0
    /\ running' = "none" /\ chain' = <<>> /\ exit' = code
    /\ UNCHANGED <<objectVars, next, emitted, heard, members, errors, failures>>

(* A handler was not configured, or the registry, which is left open here, *)
(* holds configuration errors.                                             *)
Reject == Configuring /\ Return(2)

(* The tests and their hooks, left open here too, passed or not. *)
Finish(passed) == emitted = LastCall /\ Return(IF passed /\ ~errors THEN 0 ELSE 1)

Next ==
    \/ \E r \in RunnerObject :
          \/ Construct(r) \/ Destroy(r)
          \/ \E h \in Handler : AddHandler(r, h)
          \/ \E s \in RunnerObject : Move(r, s)
          \/ \E argc \in {-1, 1, 2}, argv \in {<<>>, <<"program", "null">>, <<"program", "option">>} :
                RejectArguments(r, argc, argv) \/ Run(r, argc, argv)
    \/ Dispatch \/ Reject
    \/ \E fails \in BOOLEAN : Hear(fails)
    \/ \E passed \in BOOLEAN : Finish(passed)

Spec == Init /\ [][Next]_vars

-----------------------------------------------------------------------------
(* Properties. *)

(* Every variable stays in its range. *)
TypeOK ==
    /\ impl \in [RunnerObject -> {"absent", "null", "owned"}]
    /\ handlers \in [RunnerObject -> Seq(Handler)]
    /\ running \in RunnerObject \cup {"none"}
    /\ chain \in Seq(Handler) /\ next \in Nat /\ emitted \in Nat
    /\ heard \in [Handler -> Nat]
    /\ owner \in [Handler -> RunnerObject \cup {"none"}]
    /\ members \subseteq Handler
    /\ errors \in BOOLEAN /\ failures \subseteq {"configure", "report"} /\ exit \in {-1, 0, 1, 2}

(* A report is heard whole by the handlers its Runner had when it began,   *)
(* and not at all by any other, whatever its callbacks add to or move from *)
(* and to that Runner, and whichever of them throw: the configure, the     *)
(* callbacks and the errorMessage of a handler are called in spite of the  *)
(* exceptions of the handlers before it (TestEventHandlerChain.hpp).       *)
WholeReports ==
    next = 0 => \A h \in Handler : heard[h] = IF h \in members THEN emitted ELSE 0

(* Whichever handler fails, in whichever call, the run that made the call  *)
(* returns it, however many calls succeed after it: 2 and no report if it  *)
(* was not configured, 1 if it failed in a callback or in errorMessage.    *)
FailuresSurvive ==
    exit # -1 =>
        /\ "configure" \in failures => exit = 2
        /\ "report" \in failures => exit = 1
        /\ exit = 2 => emitted <= 1

(* "Moving transfers all handlers. A moved-from Runner remains reusable as *)
(* an empty Runner" (Runner.hpp:21): each handler belongs to the one       *)
(* Runner it was added or last moved to, is in its list once, and in no    *)
(* other; and only a Runner with an Impl has any.                          *)
MovesTransferAll ==
    \A r \in RunnerObject :
        /\ ToSet(handlers[r]) = {h \in Handler : owner[h] = r}
        /\ IsInjective(handlers[r])
        /\ impl[r] # "owned" => handlers[r] = <<>>
=============================================================================
