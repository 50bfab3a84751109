------------------------------- MODULE Runner -------------------------------
(***************************************************************************)
(* Runner::run called by several threads on one Runner, with the registry  *)
(* of suites it reads, the chain that dispatches to its handlers, and user *)
(* code that registers and unregisters suites meanwhile.                   *)
(*                                                                         *)
(* What a suite does when it runs is the business of SuiteRun; here it     *)
(* makes callbacks and leaves a number of failed tests and the value its   *)
(* run() returns. Every handler may throw at every callback.               *)
(***************************************************************************)
EXTENDS Integers, Sequences, FiniteSets, Functions

CONSTANTS Thread,      \* the threads that call run()
          Suite,       \* names of suites, as their lexicographic ranks
          Order,       \* values of SuiteOptions::order; an unset order is 0
          Handler,     \* the handlers added to the Runner
          MaxCalls     \* bound: how often each thread calls run()

ASSUME SuiteAssumption == Suite \subseteq Int /\ IsFiniteSet(Suite)
ASSUME OrderAssumption == Order \subseteq Int
ASSUME MaxCallsAssumption == MaxCalls \in Nat
ASSUME ThreadAssumption == "none" \notin Thread

VARIABLES
    (* Shared by all threads. *)
    order,             \* the order of each suite
    registeredSuites,  \* InternalRegistry::registeredSuites
    configurationErrors, \* ConfigurationDiagnostics holds an error
    testRunMutex,      \* the thread that holds it, or "none"
    suiteHandler,      \* InternalSuite::handler: whose chain it points to
    statistic,         \* failed tests in the suite's statistic
    (* The calls of run(), per thread. *)
    pc,
    chainErrors,       \* the chain has recorded an error
    suites,            \* the snapshot, without the suites already run
    suiteResult,       \* what the suite's run() returns
    hooksSucceeded, total,
    exit,              \* the last value returned, -1 before that
    callsLeft,
    (* What happened in the call, kept for the properties only. *)
    emitted,           \* callbacks made to the chain
    listening,         \* the run whose report the handlers are in
    ran,               \* how often each suite was run
    trouble,           \* which kinds of failure occurred
    present,           \* suites registered from the call to the snapshot
    seen,              \* suites registered at some moment until then
    erroredBefore      \* an error was recorded before the call

registryVars == <<order, registeredSuites, configurationErrors>>
localVars == <<chainErrors, suites, suiteResult, hooksSucceeded, total>>
historyVars == <<ran, trouble, present, seen, erroredBefore>>
handlerVars == <<emitted, listening>>
vars == <<registryVars, testRunMutex, suiteHandler, statistic, pc, localVars,
          exit, callsLeft, historyVars, handlerVars>>

-----------------------------------------------------------------------------
(* The order suites run in: by order, then by name. *)

Before(s, u) == order[s] < order[u] \/ (order[s] = order[u] /\ s < u)

(* Fault: the sort compares names only. *)
Sorts_ByName(S) ==
    {q \in Bijection(1..Cardinality(S), S) :
        \A i, j \in 1..Cardinality(S) : i < j => q[i] < q[j]}

(* The sorted sequence of S: one sequence, stated by what it is.           *)
Sorts(S) ==
    {q \in Bijection(1..Cardinality(S), S) :
        \A i, j \in 1..Cardinality(S) : i < j => Before(q[i], q[j])}

-----------------------------------------------------------------------------
(* The chain of thread c passes a callback to its handlers; those in X     *)
(* throw, and the chain records their errors. The loop over the handlers   *)
(* is stepped in RunnerObjects, as are those of configure and              *)
(* errorMessage: every handler is called (WholeReports), and no error is   *)
(* lost in a loop or between two (FailuresSurvive).                        *)
Dispatch(c, X) ==
    /\ emitted' = [emitted EXCEPT ![c] = @ + 1]
    /\ chainErrors' = [chainErrors EXCEPT ![c] = @ \/ X # {}]

Trouble(t, kind, occurred) ==
    trouble' = [trouble EXCEPT ![t] = @ \cup IF occurred THEN {kind} ELSE {}]

(* Fault: only the return at the end of run() releases the lock. *)
MutexAfter_Leaks(t) == IF pc[t] = "suite" THEN "none" ELSE testRunMutex

MutexAfter(t) == "none"

(* run() returns: the lock is released and the chain destroyed. *)
Return(t, code) ==
    /\ exit' = [exit EXCEPT ![t] = code]
    /\ pc' = [pc EXCEPT ![t] = "out"]
    /\ testRunMutex' = MutexAfter(t)

-----------------------------------------------------------------------------

Init ==
    /\ order \in [Suite -> Order]
    /\ registeredSuites = {}
    /\ configurationErrors = FALSE
    /\ testRunMutex = "none"
    /\ suiteHandler = [s \in Suite |-> "none"]
    /\ statistic = [s \in Suite |-> 0]
    /\ pc = [t \in Thread |-> "out"]
    /\ chainErrors = [t \in Thread |-> FALSE]
    /\ suites = [t \in Thread |-> <<>>]
    /\ suiteResult = [t \in Thread |-> TRUE]
    /\ hooksSucceeded = [t \in Thread |-> TRUE]
    /\ total = [t \in Thread |-> 0]
    /\ exit = [t \in Thread |-> -1]
    /\ callsLeft = [t \in Thread |-> MaxCalls]
    /\ emitted = [t \in Thread |-> 0]
    /\ listening = "none"
    /\ ran = [t \in Thread |-> [s \in Suite |-> 0]]
    /\ trouble = [t \in Thread |-> {}]
    /\ present = [t \in Thread |-> {}]
    /\ seen = [t \in Thread |-> {}]
    /\ erroredBefore = [t \in Thread |-> FALSE]

BeforeSnapshot(t) == pc[t] \in {"lock", "configure", "check", "snapshot"}

(* User code, at any moment. A suite is registered under its name; if the  *)
(* name is taken, the definition becomes a configuration error, which      *)
(* nothing ever removes.                                                   *)
NameTaken(s) == s \in registeredSuites

RegisterSuite(s) ==
    /\ IF NameTaken(s)
       THEN configurationErrors' = TRUE /\ UNCHANGED registeredSuites
       ELSE registeredSuites' = registeredSuites \cup {s} /\ UNCHANGED configurationErrors
    /\ seen' = [t \in Thread |-> IF BeforeSnapshot(t) THEN seen[t] \cup {s} ELSE seen[t]]
    /\ UNCHANGED <<order, testRunMutex, suiteHandler, statistic, pc, localVars, exit,
                   callsLeft, ran, trouble, present, erroredBefore, handlerVars>>

(* The registration of s is destroyed. A run that has s in its snapshot    *)
(* keeps the suite alive and still runs it.                                *)
UnregisterSuite(s) ==
    /\ s \in registeredSuites
    /\ registeredSuites' = registeredSuites \ {s}
    /\ present' = [t \in Thread |-> IF BeforeSnapshot(t) THEN present[t] \ {s} ELSE present[t]]
    /\ UNCHANGED <<order, configurationErrors, testRunMutex, suiteHandler, statistic,
                   pc, localVars, exit, callsLeft, ran, trouble, seen,
                   erroredBefore, handlerVars>>

(* run() is called. Arguments that are not valid are rejected at once,     *)
(* others wait for the lock.                                               *)
Call(t, valid) ==
    /\ pc[t] = "out" /\ callsLeft[t] > 0
    /\ callsLeft' = [callsLeft EXCEPT ![t] = @ - 1]
    /\ pc' = [pc EXCEPT ![t] = IF valid THEN "lock" ELSE "out"]
    /\ exit' = [exit EXCEPT ![t] = IF valid THEN -1 ELSE 2]
    /\ emitted' = [emitted EXCEPT ![t] = 0]
    /\ ran' = [ran EXCEPT ![t] = [s \in Suite |-> 0]]
    /\ trouble' = [trouble EXCEPT ![t] = IF valid THEN {} ELSE {"rejected"}]
    /\ present' = [present EXCEPT ![t] = registeredSuites]
    /\ seen' = [seen EXCEPT ![t] = registeredSuites]
    /\ erroredBefore' = [erroredBefore EXCEPT ![t] = configurationErrors]
    /\ UNCHANGED <<registryVars, testRunMutex, suiteHandler, statistic, localVars, listening>>

(* Fault: runs are not serialized. *)
MayLock_Always(t) == TRUE

MayLock(t) == testRunMutex = "none"

(* The lock is taken, and a new chain is built. *)
Lock(t) ==
    /\ pc[t] = "lock" /\ MayLock(t)
    /\ testRunMutex' = t
    /\ chainErrors' = [chainErrors EXCEPT ![t] = FALSE]
    /\ hooksSucceeded' = [hooksSucceeded EXCEPT ![t] = TRUE]
    /\ total' = [total EXCEPT ![t] = 0]
    /\ pc' = [pc EXCEPT ![t] = "configure"]
    /\ UNCHANGED <<registryVars, suiteHandler, statistic, suites, suiteResult, exit,
                   callsLeft, historyVars, handlerVars>>

(* Every handler is configured; those in X return an error or throw. *)
Configure(t, X) ==
    /\ pc[t] = "configure"
    /\ chainErrors' = [chainErrors EXCEPT ![t] = X # {}]
    /\ Trouble(t, "rejected", X # {})
    /\ IF X # {} THEN Return(t, 2)
       ELSE pc' = [pc EXCEPT ![t] = "check"] /\ UNCHANGED <<exit, testRunMutex>>
    /\ UNCHANGED <<registryVars, suiteHandler, statistic, suites, suiteResult,
                   hooksSucceeded, total, callsLeft, ran, present, seen,
                   erroredBefore, handlerVars>>

(* Fault: configuration errors are printed, and the run goes on. *)
Rejects_Never == FALSE

Rejects == configurationErrors

CheckConfiguration(t) ==
    /\ pc[t] = "check"
    /\ Trouble(t, "rejected", configurationErrors)
    /\ IF Rejects THEN Return(t, 2)
       ELSE pc' = [pc EXCEPT ![t] = "snapshot"] /\ UNCHANGED <<exit, testRunMutex>>
    /\ UNCHANGED <<registryVars, suiteHandler, statistic, localVars, callsLeft,
                   ran, present, seen, erroredBefore, handlerVars>>

(* The suites registered now, sorted; and onStartReport. *)
Snapshot(t, X) ==
    /\ pc[t] = "snapshot"
    /\ \E q \in Sorts(registeredSuites) : suites' = [suites EXCEPT ![t] = q]
    /\ Dispatch(t, X)
    /\ Trouble(t, "handler", X # {})
    /\ listening' = t
    /\ pc' = [pc EXCEPT ![t] = "suite"]
    /\ UNCHANGED <<registryVars, testRunMutex, suiteHandler, statistic, suiteResult,
                   hooksSucceeded, total, exit, callsLeft, ran, present, seen,
                   erroredBefore>>

CurrentSuite(t) == Head(suites[t])

(* setHandler, and run() up to onSuiteStart. *)
StartSuite(t, X) ==
    /\ pc[t] = "suite" /\ suites[t] # <<>>
    /\ suiteHandler' = [suiteHandler EXCEPT ![CurrentSuite(t)] = t]
    /\ Dispatch(t, X)
    /\ Trouble(t, "handler", X # {})
    /\ ran' = [ran EXCEPT ![t][CurrentSuite(t)] = @ + 1]
    /\ statistic' = [statistic EXCEPT ![CurrentSuite(t)] = 0]
    /\ pc' = [pc EXCEPT ![t] = "tests"]
    /\ UNCHANGED <<registryVars, testRunMutex, suites, suiteResult, hooksSucceeded,
                   total, exit, callsLeft, present, seen, erroredBefore, listening>>

(* The tests of the suite run: some may fail, and hooks may throw with or  *)
(* without failing one. Callbacks go through the handler of the suite.     *)
RunTests(t, failed, result, X) ==
    /\ pc[t] = "tests"
    /\ statistic' = [statistic EXCEPT ![CurrentSuite(t)] = @ + failed]
    /\ suiteResult' = [suiteResult EXCEPT ![t] = result]
    /\ Dispatch(suiteHandler[CurrentSuite(t)], X)
    /\ trouble' = [trouble EXCEPT ![t] =
                     @ \cup (IF failed > 0 THEN {"failed"} ELSE {})
                       \cup (IF result THEN {} ELSE {"hook"})
                       \cup (IF X # {} THEN {"handler"} ELSE {})]
    /\ pc' = [pc EXCEPT ![t] = "end"]
    /\ UNCHANGED <<registryVars, testRunMutex, suiteHandler, suites, hooksSucceeded,
                   total, exit, callsLeft, ran, present, seen, erroredBefore, listening>>

(* Fault: only the result of the last suite counts. *)
AccumulatedResult_Last(t) == suiteResult[t]

AccumulatedResult(t) == suiteResult[t] /\ hooksSucceeded[t]
AccumulatedTotal(t) == total[t] + statistic[CurrentSuite(t)]

(* Fault: no suite is run after one whose hooks failed. *)
NextSuites_ShortCircuit(t) == IF suiteResult[t] THEN Tail(suites[t]) ELSE <<>>

NextSuites(t) == Tail(suites[t])

(* onSuiteEnd; run() returns, and its result and statistic are added. *)
EndSuite(t, X) ==
    /\ pc[t] = "end"
    /\ Dispatch(suiteHandler[CurrentSuite(t)], X)
    /\ Trouble(t, "handler", X # {})
    /\ hooksSucceeded' = [hooksSucceeded EXCEPT ![t] = AccumulatedResult(t)]
    /\ total' = [total EXCEPT ![t] = AccumulatedTotal(t)]
    /\ suites' = [suites EXCEPT ![t] = NextSuites(t)]
    /\ pc' = [pc EXCEPT ![t] = "suite"]
    /\ UNCHANGED <<registryVars, testRunMutex, suiteHandler, statistic, suiteResult,
                   exit, callsLeft, ran, present, seen, erroredBefore, listening>>

ExitCode(t, errors) ==
    IF total[t] = 0 /\ hooksSucceeded[t] /\ ~errors THEN 0 ELSE 1

(* The chain's errorMessage: its own errors, and those of the handlers in  *)
(* Y, which report one or throw when asked for it.                         *)
HandlerError(errors, Y) == errors \/ Y # {}

(* onFinalReport, and run() returns.                                       *)
Finish(t, X, Y) ==
    /\ pc[t] = "suite" /\ suites[t] = <<>>
    /\ Dispatch(t, X)
    /\ Trouble(t, "handler", X \cup Y # {})
    /\ listening' = "none"
    /\ Return(t, ExitCode(t, HandlerError(chainErrors'[t], Y)))
    /\ UNCHANGED <<registryVars, suiteHandler, statistic, suites, suiteResult,
                   hooksSucceeded, total, callsLeft, ran, present, seen, erroredBefore>>

(* The steps of run() once it was called. *)
RunStep(t) ==
    \/ Lock(t)
    \/ CheckConfiguration(t)
    \/ \E X \in SUBSET Handler :
          \/ Configure(t, X) \/ Snapshot(t, X) \/ StartSuite(t, X) \/ EndSuite(t, X)
          \/ \E failed \in {0, 1}, result \in BOOLEAN : RunTests(t, failed, result, X)
          \/ \E Y \in SUBSET Handler : Finish(t, X, Y)

Next ==
    \/ \E s \in Suite : RegisterSuite(s) \/ UnregisterSuite(s)
    \/ \E t \in Thread, valid \in BOOLEAN : Call(t, valid)
    \/ \E t \in Thread : RunStep(t)

Spec == Init /\ [][Next]_vars

(* Each thread goes on with a run it was called for, if it can.            *)
FairSpec == Spec /\ \A t \in Thread : WF_vars(RunStep(t))

-----------------------------------------------------------------------------

Location == {"out", "lock", "configure", "check", "snapshot", "suite", "tests", "end"}
InReport == {"suite", "tests", "end"}
Locked == InReport \cup {"configure", "check", "snapshot"}
TroubleKind == {"rejected", "failed", "hook", "handler"}
ReturnCode == {-1, 0, 1, 2}

SharedTypes ==
    /\ order \in [Suite -> Order]
    /\ registeredSuites \subseteq Suite
    /\ configurationErrors \in BOOLEAN
    /\ testRunMutex \in Thread \cup {"none"}
    /\ suiteHandler \in [Suite -> Thread \cup {"none"}]
    /\ statistic \in [Suite -> Nat]

RunTypes ==
    /\ pc \in [Thread -> Location]
    /\ chainErrors \in [Thread -> BOOLEAN]
    /\ suites \in [Thread -> Seq(Suite)]
    /\ suiteResult \in [Thread -> BOOLEAN]
    /\ hooksSucceeded \in [Thread -> BOOLEAN]
    /\ total \in [Thread -> Nat]
    /\ exit \in [Thread -> ReturnCode]
    /\ callsLeft \in [Thread -> Nat]

HistoryTypes ==
    /\ emitted \in [Thread -> Nat]
    /\ listening \in Thread \cup {"none"}
    /\ ran \in [Thread -> [Suite -> Nat]]
    /\ trouble \in [Thread -> SUBSET TroubleKind]
    /\ present \in [Thread -> SUBSET Suite]
    /\ seen \in [Thread -> SUBSET Suite]
    /\ erroredBefore \in [Thread -> BOOLEAN]

(* Every variable stays in its range; run() returns 0, 1 or 2.             *)
TypeOK == SharedTypes /\ RunTypes /\ HistoryTypes

-----------------------------------------------------------------------------
(* Properties. *)

(* Two runs never overlap: the handlers of the shared Runner hear one      *)
(* report at a time, and a running suite reports to the chain of the run   *)
(* it is part of, never to that of another run or one already destroyed.   *)
RunsDoNotInterleave ==
    \A t \in Thread :
        /\ pc[t] \in InReport => listening = t
        /\ pc[t] \in {"tests", "end"} => suiteHandler[CurrentSuite(t)] = t

(* run() returns 0 exactly if nothing went wrong in it: no test failed in  *)
(* any of its suites, no hook, no handler, whichever came first or last.   *)
(* It returns 2 exactly if the run was rejected, and then no suite ran and *)
(* no handler heard of a report.                                           *)
ExitCodeTellsTrouble ==
    \A t \in Thread : exit[t] # -1 =>
        /\ exit[t] = 0 <=> trouble[t] = {}
        /\ exit[t] = 2 <=> "rejected" \in trouble[t]
        /\ exit[t] = 2 => emitted[t] = 0 /\ \A s \in Suite : ran[t][s] = 0

(* A configuration error recorded before run() was called rejects the run, *)
(* however many runs have already reported it (guide.md, exit codes).      *)
ConfigurationErrorsReject ==
    \A t \in Thread : erroredBefore[t] /\ exit[t] # -1 => exit[t] = 2

(* A run runs each suite that was registered throughout its start once,    *)
(* no suite twice, and none that was not registered; a suite whose hooks   *)
(* failed, or that was unregistered after the snapshot, changes nothing.   *)
EverySuiteOnce ==
    \A t \in Thread, s \in Suite :
        /\ ran[t][s] <= (IF s \in seen[t] THEN 1 ELSE 0)
        /\ exit[t] \in {0, 1} /\ s \in present[t] => ran[t][s] = 1

(* In every run suites start by ascending order, then by name (guide.md).  *)
SuitesInOrder ==
    [][\A t \in Thread, s \in Suite :
          ran'[t][s] > ran[t][s] =>
              \A u \in Suite : ran[t][u] > 0 => Before(u, s)]_vars

(* Every call of run() returns.                                            *)
EveryCallReturns == \A t \in Thread : pc[t] # "out" ~> pc[t] = "out"
=============================================================================
