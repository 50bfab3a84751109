---------------------------- MODULE RunnerProofs ----------------------------
(***************************************************************************)
(* Proofs about Runner::run, for every number of threads, suites, orders   *)
(* and handlers: no run interleaves with another one, and the exit code of *)
(* a run tells whether anything went wrong in it.                          *)
(*                                                                         *)
(* Neither property is inductive. Inv adds who holds the run lock, and     *)
(* what the locals of run() know of the failures so far; what a suite did  *)
(* is in its statistic and result until EndSuite adds them to the totals.  *)
(***************************************************************************)
EXTENDS Runner, FiniteSetTheorems, TLAPS

InSuite == {"tests", "end"}

(* The threads inside the lock are the one that holds it. *)
Exclusion == \A t \in Thread : pc[t] \in Locked <=> testRunMutex = t

(* A run inside a report is the one the handlers and its suite report to. *)
OneReport(t) ==
    /\ pc[t] \in InReport => listening = t
    /\ pc[t] \in InSuite => suites[t] # <<>> /\ suiteHandler[CurrentSuite(t)] = t
    /\ pc[t] = "tests" => statistic[CurrentSuite(t)] = 0

(* Before the first callback nothing has happened. *)
Untouched(t) ==
    /\ exit[t] = -1 /\ trouble[t] = {} /\ emitted[t] = 0
    /\ ran[t] = [s \in Suite |-> 0]
    /\ pc[t] # "lock" => /\ total[t] = 0 /\ hooksSucceeded[t]
                         /\ ~chainErrors[t]

(* Within the report the locals and the current suite hold every failure. *)
Remembered(t) ==
    /\ exit[t] = -1 /\ "rejected" \notin trouble[t]
    /\ "failed" \in trouble[t] <=>
          total[t] > 0 \/ (pc[t] = "end" /\ statistic[CurrentSuite(t)] > 0)
    /\ "hook" \in trouble[t] <=>
          ~hooksSucceeded[t] \/ (pc[t] = "end" /\ ~suiteResult[t])
    /\ "handler" \in trouble[t] <=> chainErrors[t]

Truthful(t) ==
    exit[t] # -1 =>
        /\ exit[t] = 0 <=> trouble[t] = {}
        /\ exit[t] = 2 <=> "rejected" \in trouble[t]
        /\ exit[t] = 2 => emitted[t] = 0 /\ ran[t] = [s \in Suite |-> 0]

Account(t) ==
    /\ BeforeSnapshot(t) => Untouched(t)
    /\ pc[t] \in InReport => Remembered(t)
    /\ pc[t] = "out" => Truthful(t)

Inv == /\ TypeOK
       /\ Exclusion
       /\ \A t \in Thread : OneReport(t) /\ Account(t)

-----------------------------------------------------------------------------

(* The suites of a snapshot, in order, are a sequence of suites. *)
LEMMA SortsAreSequences ==
  ASSUME NEW S \in SUBSET Suite, NEW q \in Sorts(S)
  PROVE  q \in Seq(Suite)
<1>1. q \in [1..Cardinality(S) -> Suite]
  BY DEF Sorts, Bijection, Injection, Surjection, IsInjective
<1>2. IsFiniteSet(S)
  BY SuiteAssumption, FS_Subset
<1>3. Cardinality(S) \in Nat
  BY <1>2, FS_CardinalityType
<1> QED
  BY <1>1, <1>3

-----------------------------------------------------------------------------
(* Types. *)

(* A callback keeps the ranges of what the chain and the handlers hold. *)
LEMMA DispatchTypes ==
  ASSUME TypeOK, NEW c \in Thread, NEW X \in SUBSET Handler, Dispatch(c, X)
  PROVE  /\ emitted' \in [Thread -> Nat]
         /\ chainErrors' \in [Thread -> BOOLEAN]
<1>1. /\ emitted \in [Thread -> Nat]
      /\ chainErrors \in [Thread -> BOOLEAN]
  BY DEF TypeOK, RunTypes, HistoryTypes
<1> QED
  BY <1>1 DEF Dispatch

(* A failure of a known kind keeps the range of trouble. *)
LEMMA TroubleTypes ==
  ASSUME TypeOK, NEW t \in Thread, NEW kind \in TroubleKind,
         NEW occurred \in BOOLEAN, Trouble(t, kind, occurred)
  PROVE  trouble' \in [Thread -> SUBSET TroubleKind]
<1>1. trouble \in [Thread -> SUBSET TroubleKind]
  BY DEF TypeOK, HistoryTypes
<1> QED
  BY <1>1 DEF Trouble

LEMMA Members ==
  /\ {"out", "lock", "configure", "check", "snapshot", "suite", "tests", "end"}
         \subseteq Location
  /\ {-1, 0, 1, 2} \subseteq ReturnCode
  /\ {"rejected", "failed", "hook", "handler"} \subseteq TroubleKind
  BY DEF Location, ReturnCode, TroubleKind

LEMMA TypeInit == Init => TypeOK
<1> SUFFICES ASSUME Init PROVE TypeOK
  OBVIOUS
<1>1. SharedTypes
  BY DEF Init, SharedTypes
<1>2. RunTypes
  BY Members, MaxCallsAssumption DEF Init, RunTypes
<1>3. HistoryTypes
  BY DEF Init, HistoryTypes
<1> QED
  BY <1>1, <1>2, <1>3 DEF TypeOK

(* Every step keeps the types, from a state in which a run in a suite has  *)
(* that suite in front of it and its own chain behind it.                  *)
LEMMA TypeStep ==
  ASSUME TypeOK, [Next]_vars, \A t \in Thread : OneReport(t)
  PROVE  TypeOK'
<1> USE DEF Return, MutexAfter
<1>1. ASSUME NEW s \in Suite, RegisterSuite(s)
      PROVE  TypeOK'
  <2>4. SharedTypes'
    BY <1>1 DEF TypeOK, SharedTypes, RegisterSuite, localVars, handlerVars
  <2>5. RunTypes'
    BY <1>1, Members
       DEF TypeOK, RunTypes, RegisterSuite, localVars, handlerVars
  <2>6. HistoryTypes'
    BY <1>1, Members
       DEF TypeOK, HistoryTypes, RegisterSuite, localVars, handlerVars
  <2> QED
    BY <2>4, <2>5, <2>6 DEF TypeOK
<1>2. ASSUME NEW s \in Suite, UnregisterSuite(s)
      PROVE  TypeOK'
  <2>4. SharedTypes'
    BY <1>2 DEF TypeOK, SharedTypes, UnregisterSuite, localVars, handlerVars
  <2>5. RunTypes'
    BY <1>2, Members
       DEF TypeOK, RunTypes, UnregisterSuite, localVars, handlerVars
  <2>6. HistoryTypes'
    BY <1>2, Members
       DEF TypeOK, HistoryTypes, UnregisterSuite, localVars, handlerVars
  <2> QED
    BY <2>4, <2>5, <2>6 DEF TypeOK
<1>3. ASSUME NEW t \in Thread, NEW valid \in BOOLEAN, Call(t, valid)
      PROVE  TypeOK'
  <2>4. SharedTypes'
    BY <1>3 DEF TypeOK, SharedTypes, Call, registryVars, localVars
  <2>5. RunTypes'
    BY <1>3, Members DEF TypeOK, RunTypes, Call, registryVars, localVars
  <2>6. HistoryTypes'
    <3>1. /\ emitted' \in [Thread -> Nat]
          /\ ran' \in [Thread -> [Suite -> Nat]]
      BY <1>3 DEF TypeOK, HistoryTypes, Call
    <3>2. trouble' \in [Thread -> SUBSET TroubleKind]
      BY <1>3, Members DEF TypeOK, HistoryTypes, Call
    <3> QED
      BY <1>3, <3>1, <3>2 DEF TypeOK, SharedTypes, HistoryTypes, Call
  <2> QED
    BY <2>4, <2>5, <2>6 DEF TypeOK
<1>4. ASSUME NEW t \in Thread, Lock(t)
      PROVE  TypeOK'
  <2>4. SharedTypes'
    BY <1>4
       DEF TypeOK, SharedTypes, Lock, registryVars, historyVars, handlerVars
  <2>5. RunTypes'
    BY <1>4, Members
       DEF TypeOK, RunTypes, Lock, registryVars, historyVars, handlerVars
  <2>6. HistoryTypes'
    BY <1>4, Members
       DEF TypeOK, HistoryTypes, Lock, registryVars, historyVars, handlerVars
  <2> QED
    BY <2>4, <2>5, <2>6 DEF TypeOK
<1>5. ASSUME NEW t \in Thread, CheckConfiguration(t)
      PROVE  TypeOK'
  <2>3. Trouble(t, "rejected", configurationErrors)
    BY <1>5 DEF CheckConfiguration
  <2>4. SharedTypes'
    BY <1>5, <2>3
       DEF TypeOK, SharedTypes, CheckConfiguration, registryVars, localVars,
           handlerVars
  <2>5. RunTypes'
    BY <1>5, <2>3, Members, TroubleTypes
       DEF TypeOK, RunTypes, CheckConfiguration, registryVars, localVars,
           handlerVars
  <2>6. HistoryTypes'
    BY <1>5, <2>3, Members, TroubleTypes
       DEF TypeOK, SharedTypes, HistoryTypes, CheckConfiguration,
           registryVars, localVars, handlerVars
  <2> QED
    BY <2>4, <2>5, <2>6 DEF TypeOK
<1>6. ASSUME NEW t \in Thread, NEW X \in SUBSET Handler, Configure(t, X)
      PROVE  TypeOK'
  <2>3. Trouble(t, "rejected", X # {})
    BY <1>6 DEF Configure
  <2>4. SharedTypes'
    BY <1>6, <2>3 DEF TypeOK, SharedTypes, Configure, registryVars, handlerVars
  <2>5. RunTypes'
    BY <1>6, <2>3, Members, TroubleTypes
       DEF TypeOK, RunTypes, Configure, registryVars, handlerVars
  <2>6. HistoryTypes'
    BY <1>6, <2>3, Members, TroubleTypes
       DEF TypeOK, HistoryTypes, Configure, registryVars, handlerVars
  <2> QED
    BY <2>4, <2>5, <2>6 DEF TypeOK
<1>7. ASSUME NEW t \in Thread, NEW X \in SUBSET Handler, Snapshot(t, X)
      PROVE  TypeOK'
  <2>1. PICK q \in Sorts(registeredSuites) : suites' = [suites EXCEPT ![t] = q]
    BY <1>7 DEF Snapshot
  <2>2. q \in Seq(Suite)
    BY SortsAreSequences DEF TypeOK, SharedTypes
  <2>3. Trouble(t, "handler", X # {}) /\ Dispatch(t, X)
    BY <1>7 DEF Snapshot
  <2>4. SharedTypes'
    BY <1>7, <2>1, <2>2, <2>3 DEF TypeOK, SharedTypes, Snapshot, registryVars
  <2>5. RunTypes'
    BY <1>7, <2>1, <2>2, <2>3, Members, TroubleTypes, DispatchTypes
       DEF TypeOK, RunTypes, Snapshot, registryVars
  <2>6. HistoryTypes'
    BY <1>7, <2>1, <2>2, <2>3, Members, TroubleTypes, DispatchTypes
       DEF TypeOK, HistoryTypes, Snapshot, registryVars
  <2> QED
    BY <2>4, <2>5, <2>6 DEF TypeOK
<1>8. ASSUME NEW t \in Thread, NEW X \in SUBSET Handler, StartSuite(t, X)
      PROVE  TypeOK'
  <2>1. /\ suites[t] # <<>> /\ suites[t] \in Seq(Suite)
        /\ CurrentSuite(t) \in Suite
    BY <1>8 DEF TypeOK, RunTypes, OneReport, InSuite, CurrentSuite, StartSuite
  <2>3. Trouble(t, "handler", X # {}) /\ Dispatch(t, X)
    BY <1>8 DEF StartSuite
  <2>4. SharedTypes'
    BY <1>8, <2>1, <2>3 DEF TypeOK, SharedTypes, StartSuite, registryVars
  <2>5. RunTypes'
    BY <1>8, <2>1, <2>3, Members, TroubleTypes, DispatchTypes
       DEF TypeOK, RunTypes, StartSuite, registryVars
  <2>6. HistoryTypes'
    <3>1. ran' \in [Thread -> [Suite -> Nat]]
      <4>1. /\ ran' = [ran EXCEPT ![t][CurrentSuite(t)] = ran[t][CurrentSuite(t)] + 1]
            /\ ran \in [Thread -> [Suite -> Nat]]
        BY <1>8 DEF TypeOK, HistoryTypes, StartSuite
      <4> QED
        BY <2>1, <4>1
    <3> QED
      BY <1>8, <2>3, <3>1, Members, TroubleTypes, DispatchTypes
         DEF TypeOK, HistoryTypes, StartSuite
  <2> QED
    BY <2>4, <2>5, <2>6 DEF TypeOK
<1>9. ASSUME NEW t \in Thread, NEW X \in SUBSET Handler, NEW failed \in {0, 1},
             NEW result \in BOOLEAN, RunTests(t, failed, result, X)
      PROVE  TypeOK'
  <2>1. /\ suites[t] # <<>> /\ suites[t] \in Seq(Suite)
        /\ CurrentSuite(t) \in Suite /\ suiteHandler[CurrentSuite(t)] = t
    BY <1>9 DEF TypeOK, RunTypes, OneReport, InSuite, CurrentSuite, RunTests
  <2>3. Dispatch(suiteHandler[CurrentSuite(t)], X)
    BY <1>9 DEF RunTests
  <2>4. SharedTypes'
    BY <1>9, <2>1, <2>3 DEF TypeOK, SharedTypes, RunTests, registryVars
  <2>5. RunTypes'
    BY <1>9, <2>1, <2>3, Members, DispatchTypes
       DEF TypeOK, RunTypes, RunTests, registryVars
  <2>6. HistoryTypes'
    BY <1>9, <2>1, <2>3, Members, DispatchTypes
       DEF TypeOK, HistoryTypes, RunTests, registryVars
  <2> QED
    BY <2>4, <2>5, <2>6 DEF TypeOK
<1>10. ASSUME NEW t \in Thread, NEW X \in SUBSET Handler, EndSuite(t, X)
      PROVE  TypeOK'
  <2>1. /\ suites[t] # <<>> /\ suites[t] \in Seq(Suite)
        /\ CurrentSuite(t) \in Suite /\ suiteHandler[CurrentSuite(t)] = t
    BY <1>10 DEF TypeOK, RunTypes, OneReport, InSuite, CurrentSuite, EndSuite
  <2>3. Trouble(t, "handler", X # {}) /\ Dispatch(suiteHandler[CurrentSuite(t)], X)
    BY <1>10 DEF EndSuite
  <2>4. SharedTypes'
    BY <1>10, <2>1, <2>3 DEF TypeOK, SharedTypes, EndSuite, registryVars
  <2>5. RunTypes'
    <3>1. Tail(suites[t]) \in Seq(Suite)
      BY <2>1
    <3>2. suites' \in [Thread -> Seq(Suite)]
      BY <1>10, <3>1 DEF TypeOK, RunTypes, EndSuite, NextSuites
    <3>3. AccumulatedTotal(t) \in Nat /\ AccumulatedResult(t) \in BOOLEAN
      BY <2>1
         DEF TypeOK, SharedTypes, RunTypes, AccumulatedTotal,
             AccumulatedResult
    <3> QED
      BY <1>10, <2>1, <2>3, <3>2, <3>3, Members, DispatchTypes
         DEF TypeOK, RunTypes, EndSuite
  <2>6. HistoryTypes'
    BY <1>10, <2>1, <2>3, Members, TroubleTypes, DispatchTypes
       DEF TypeOK, HistoryTypes, EndSuite, registryVars
  <2> QED
    BY <2>4, <2>5, <2>6 DEF TypeOK
<1>11. ASSUME NEW t \in Thread, NEW X \in SUBSET Handler, NEW Y \in SUBSET Handler,
             Finish(t, X, Y)
      PROVE  TypeOK'
  <2>3. Trouble(t, "handler", X \cup Y # {}) /\ Dispatch(t, X)
    BY <1>11 DEF Finish
  <2>4. SharedTypes'
    BY <1>11, <2>3 DEF TypeOK, SharedTypes, Finish, registryVars
  <2>5. RunTypes'
    BY <1>11, <2>3, Members, TroubleTypes, DispatchTypes
       DEF TypeOK, RunTypes, Finish, registryVars, ExitCode
  <2>6. HistoryTypes'
    BY <1>11, <2>3, Members, TroubleTypes, DispatchTypes
       DEF TypeOK, HistoryTypes, Finish, registryVars
  <2> QED
    BY <2>4, <2>5, <2>6 DEF TypeOK
<1>12. ASSUME UNCHANGED vars PROVE TypeOK'
  BY <1>12 DEF TypeOK, SharedTypes, RunTypes, HistoryTypes, vars, registryVars,
               localVars, historyVars, handlerVars
<1> QED
  BY <1>1, <1>2, <1>3, <1>4, <1>5, <1>6, <1>7, <1>8, <1>9, <1>10, <1>11, <1>12
     DEF Next, RunStep

-----------------------------------------------------------------------------
(* The run lock. *)

LEMMA ExclusionStep ==
  ASSUME TypeOK, Exclusion, [Next]_vars
  PROVE  Exclusion'
<1> DEFINE Goal == Exclusion'
<1>0. pc \in [Thread -> Location] /\ testRunMutex \in Thread \cup {"none"}
  BY DEF TypeOK, RunTypes, SharedTypes
<1> USE DEF Locked, InReport
<1>1. ASSUME NEW t \in Thread, RunStep(t) PROVE Goal
  <2>1. ASSUME Lock(t) PROVE Goal
    BY <1>0, <2>1, ThreadAssumption DEF Exclusion, Lock, MayLock
  <2>2. ASSUME CheckConfiguration(t) PROVE Goal
    BY <1>0, <2>2, ThreadAssumption DEF Exclusion, CheckConfiguration, Return, MutexAfter
  <2>3. ASSUME NEW X \in SUBSET Handler, Configure(t, X) PROVE Goal
    BY <1>0, <2>3, ThreadAssumption DEF Exclusion, Configure, Return, MutexAfter
  <2>4. ASSUME NEW X \in SUBSET Handler, Snapshot(t, X) PROVE Goal
    BY <1>0, <2>4, ThreadAssumption DEF Exclusion, Snapshot
  <2>5. ASSUME NEW X \in SUBSET Handler, StartSuite(t, X) PROVE Goal
    BY <1>0, <2>5, ThreadAssumption DEF Exclusion, StartSuite
  <2>6. ASSUME NEW X \in SUBSET Handler, EndSuite(t, X) PROVE Goal
    BY <1>0, <2>6, ThreadAssumption DEF Exclusion, EndSuite
  <2>7. ASSUME NEW X \in SUBSET Handler, NEW failed \in {0, 1}, NEW result \in BOOLEAN,
            RunTests(t, failed, result, X) PROVE Goal
    BY <1>0, <2>7, ThreadAssumption DEF Exclusion, RunTests
  <2>8. ASSUME NEW X \in SUBSET Handler, NEW Y \in SUBSET Handler, Finish(t, X, Y) PROVE Goal
    BY <1>0, <2>8, ThreadAssumption DEF Exclusion, Finish, Return, MutexAfter
  <2> QED
    BY <1>1, <2>1, <2>2, <2>3, <2>4, <2>5, <2>6, <2>7, <2>8 DEF RunStep
<1>2. ASSUME NEW t \in Thread, NEW valid \in BOOLEAN, Call(t, valid) PROVE Goal
  BY <1>0, <1>2 DEF Exclusion, Call
<1>3. ASSUME NEW s \in Suite, RegisterSuite(s) \/ UnregisterSuite(s) PROVE Goal
  BY <1>3 DEF Exclusion, RegisterSuite, UnregisterSuite
<1>4. ASSUME UNCHANGED vars PROVE Goal
  BY <1>4 DEF Exclusion, vars
<1> QED
  BY <1>1, <1>2, <1>3, <1>4 DEF Next

(* A step of one run leaves the calls of the other threads alone, which    *)
(* are outside the lock.                                                   *)
LEMMA Others ==
  ASSUME TypeOK, Exclusion, \A t \in Thread : OneReport(t),
         NEW t \in Thread, RunStep(t), NEW u \in Thread, u # t
  PROVE  /\ pc[u] \notin Locked /\ pc'[u] = pc[u]
         /\ exit'[u] = exit[u] /\ trouble'[u] = trouble[u]
         /\ emitted'[u] = emitted[u] /\ ran'[u] = ran[u]
<1> DEFINE Goal == /\ pc[u] \notin Locked /\ pc'[u] = pc[u]
                   /\ exit'[u] = exit[u] /\ trouble'[u] = trouble[u]
                   /\ emitted'[u] = emitted[u] /\ ran'[u] = ran[u]
<1>0. /\ pc \in [Thread -> Location] /\ exit \in [Thread -> ReturnCode]
      /\ trouble \in [Thread -> SUBSET TroubleKind]
      /\ emitted \in [Thread -> Nat] /\ ran \in [Thread -> [Suite -> Nat]]
  BY DEF TypeOK, RunTypes, HistoryTypes
<1> USE <1>0 DEF Return, Trouble
<1>1. ASSUME Lock(t) PROVE Goal
  BY <1>1, ThreadAssumption DEF Exclusion, Locked, InReport, Lock, MayLock, historyVars, handlerVars
<1>2. ASSUME CheckConfiguration(t) PROVE Goal
  BY <1>2 DEF Exclusion, Locked, InReport, CheckConfiguration, handlerVars
<1>3. ASSUME NEW X \in SUBSET Handler, Configure(t, X) PROVE Goal
  BY <1>3 DEF Exclusion, Locked, InReport, Configure, handlerVars
<1>4. ASSUME NEW X \in SUBSET Handler, Snapshot(t, X) PROVE Goal
  BY <1>4 DEF Exclusion, Locked, InReport, Snapshot, Dispatch
<1>5. ASSUME NEW X \in SUBSET Handler, StartSuite(t, X) PROVE Goal
  BY <1>5 DEF Exclusion, Locked, InReport, StartSuite, Dispatch
<1>6. ASSUME NEW X \in SUBSET Handler, EndSuite(t, X) PROVE Goal
  BY <1>6 DEF Exclusion, Locked, InReport, EndSuite, Dispatch, OneReport, InSuite
<1>7. ASSUME NEW X \in SUBSET Handler, NEW failed \in {0, 1}, NEW result \in BOOLEAN,
          RunTests(t, failed, result, X) PROVE Goal
  BY <1>7 DEF Exclusion, Locked, InReport, RunTests, Dispatch, OneReport, InSuite
<1>8. ASSUME NEW X \in SUBSET Handler, NEW Y \in SUBSET Handler, Finish(t, X, Y) PROVE Goal
  BY <1>8 DEF Exclusion, Locked, InReport, Finish, Dispatch
<1> QED
  BY <1>1, <1>2, <1>3, <1>4, <1>5, <1>6, <1>7, <1>8 DEF RunStep

-----------------------------------------------------------------------------
(* The report, the exit code and the failures of the run that steps.       *)

(* A callback through the chain of t is counted, and makes the chain hold  *)
(* an error if a handler threw.                                            *)
LEMMA DispatchEffect ==
  ASSUME TypeOK, NEW t \in Thread, NEW X \in SUBSET Handler, Dispatch(t, X)
  PROVE  chainErrors'[t] <=> chainErrors[t] \/ X # {}
<1>1. chainErrors \in [Thread -> BOOLEAN]
  BY DEF TypeOK, RunTypes
<1> QED
  BY <1>1 DEF Dispatch

LEMMA OwnStep ==
  ASSUME TypeOK, NEW t \in Thread, OneReport(t), Account(t), RunStep(t)
  PROVE  OneReport(t)' /\ Account(t)'
<1> DEFINE Goal == OneReport(t)' /\ Account(t)'
<1>0. /\ pc \in [Thread -> Location] /\ exit \in [Thread -> ReturnCode]
      /\ suites \in [Thread -> Seq(Suite)] /\ suiteHandler \in [Suite -> Thread \cup {"none"}]
      /\ statistic \in [Suite -> Nat] /\ total \in [Thread -> Nat]
      /\ chainErrors \in [Thread -> BOOLEAN] /\ suiteResult \in [Thread -> BOOLEAN]
      /\ hooksSucceeded \in [Thread -> BOOLEAN]
  BY DEF TypeOK, SharedTypes, RunTypes
<1>00. /\ trouble \in [Thread -> SUBSET TroubleKind]
       /\ emitted \in [Thread -> Nat] /\ ran \in [Thread -> [Suite -> Nat]]
       /\ configurationErrors \in BOOLEAN
  BY DEF TypeOK, SharedTypes, HistoryTypes
<1> USE DEF InReport, InSuite, BeforeSnapshot
<1>1. ASSUME Lock(t) PROVE Goal
  <2>1. pc'[t] = "configure" /\ Untouched(t)
    BY <1>0, <1>1 DEF Lock, Account
  <2>2. Untouched(t)'
    BY <1>0, <1>1, <2>1 DEF Lock, Untouched, historyVars, handlerVars
  <2> QED
    BY <2>1, <2>2 DEF OneReport, Account
<1>2. ASSUME CheckConfiguration(t) PROVE Goal
  <2>1. Untouched(t) /\ pc[t] = "check"
        /\ trouble'[t] = IF configurationErrors THEN {"rejected"} ELSE {}
    BY <1>00, <1>2 DEF Trouble, CheckConfiguration, Account, Untouched
  <2>2. CASE configurationErrors
    <3>1. pc'[t] = "out" /\ exit'[t] = 2
      BY <1>0, <1>2, <2>2 DEF CheckConfiguration, Rejects, Return
    <3>2. emitted'[t] = 0 /\ ran'[t] = [s \in Suite |-> 0]
      BY <1>2, <2>1 DEF CheckConfiguration, Untouched, handlerVars
    <3> QED
      BY <2>1, <2>2, <3>1, <3>2 DEF OneReport, Account, Truthful
  <2>3. CASE ~configurationErrors
    <3>1. pc'[t] = "snapshot"
      BY <1>0, <1>2, <2>3 DEF CheckConfiguration, Rejects
    <3>2. Untouched(t)'
      BY <1>2, <2>1, <2>3 DEF CheckConfiguration, Rejects, Untouched, handlerVars, localVars
    <3> QED
      BY <3>1, <3>2 DEF OneReport, Account
  <2> QED
    BY <1>00, <2>2, <2>3
<1>3. ASSUME NEW X \in SUBSET Handler, Configure(t, X) PROVE Goal
  <2>1. Untouched(t) /\ pc[t] = "configure"
        /\ trouble'[t] = IF X # {} THEN {"rejected"} ELSE {}
    BY <1>00, <1>3 DEF Trouble, Configure, Account, Untouched
  <2>2. CASE X # {}
    <3>1. pc'[t] = "out" /\ exit'[t] = 2
      BY <1>0, <1>3, <2>2 DEF Configure, Return
    <3>2. emitted'[t] = 0 /\ ran'[t] = [s \in Suite |-> 0]
      BY <1>3, <2>1 DEF Configure, Untouched, handlerVars
    <3> QED
      BY <2>1, <2>2, <3>1, <3>2 DEF OneReport, Account, Truthful
  <2>3. CASE X = {}
    <3>1. pc'[t] = "check"
      BY <1>0, <1>3, <2>3 DEF Configure
    <3>2. Untouched(t)'
      BY <1>0, <1>3, <2>1, <2>3 DEF Configure, Untouched, handlerVars
    <3> QED
      BY <3>1, <3>2 DEF OneReport, Account
  <2> QED
    BY <2>2, <2>3
<1>4. ASSUME NEW X \in SUBSET Handler, Snapshot(t, X) PROVE Goal
  <2>1. Untouched(t) /\ pc[t] = "snapshot" /\ pc'[t] = "suite" /\ listening' = t
        /\ trouble'[t] = IF X # {} THEN {"handler"} ELSE {}
    BY <1>0, <1>00, <1>4 DEF Trouble, Snapshot, Account, Untouched
  <2>2. chainErrors'[t] <=> X # {}
    BY <1>4, <2>1, DispatchEffect DEF Snapshot, Untouched
  <2>3. Remembered(t)'
    <3>1. /\ exit'[t] = -1 /\ total'[t] = 0 /\ hooksSucceeded'[t]
      BY <1>4, <2>1 DEF Snapshot, Untouched
    <3> QED
      BY <2>1, <2>2, <3>1 DEF Remembered
  <2> QED
    BY <2>1, <2>3 DEF OneReport, Account
<1>5. ASSUME NEW X \in SUBSET Handler, StartSuite(t, X) PROVE Goal
  <2>1. /\ Remembered(t) /\ pc[t] = "suite" /\ pc'[t] = "tests" /\ listening = t
        /\ trouble'[t] = trouble[t] \cup IF X # {} THEN {"handler"} ELSE {}
        /\ chainErrors'[t] <=> chainErrors[t] \/ X # {}
    BY <1>0, <1>00, <1>5, DispatchEffect DEF Trouble, StartSuite, Account, OneReport
  <2>2. /\ suites' = suites /\ suites[t] # <<>> /\ CurrentSuite(t) \in Suite
        /\ CurrentSuite(t)' = CurrentSuite(t)
    BY <1>0, <1>5 DEF StartSuite, CurrentSuite
  <2>3. suiteHandler'[CurrentSuite(t)] = t /\ statistic'[CurrentSuite(t)] = 0
    BY <1>0, <1>5, <2>2 DEF StartSuite
  <2>4. Remembered(t)'
    <3>1. exit' = exit /\ total' = total /\ hooksSucceeded' = hooksSucceeded
      BY <1>5 DEF StartSuite
    <3> QED
      BY <2>1, <3>1 DEF Remembered
  <2> QED
    BY <1>5, <2>1, <2>2, <2>3, <2>4 DEF StartSuite, OneReport, Account
<1>6. ASSUME NEW X \in SUBSET Handler, EndSuite(t, X) PROVE Goal
  <2>1. /\ Remembered(t) /\ pc[t] = "end" /\ pc'[t] = "suite" /\ listening' = t
        /\ suiteHandler[CurrentSuite(t)] = t /\ suites[t] # <<>>
        /\ CurrentSuite(t) \in Suite
        /\ trouble'[t] = trouble[t] \cup IF X # {} THEN {"handler"} ELSE {}
    BY <1>0, <1>00, <1>6 DEF Trouble, EndSuite, Account, OneReport, CurrentSuite
  <2>2. chainErrors'[t] <=> chainErrors[t] \/ X # {}
    BY <1>6, <2>1, DispatchEffect DEF EndSuite
  <2>3. /\ total'[t] = total[t] + statistic[CurrentSuite(t)]
        /\ hooksSucceeded'[t] <=> suiteResult[t] /\ hooksSucceeded[t]
    BY <1>0, <1>6 DEF EndSuite, AccumulatedTotal, AccumulatedResult
  <2>4. total[t] \in Nat /\ statistic[CurrentSuite(t)] \in Nat
    BY <1>0, <2>1
  <2>5. Remembered(t)'
    <3>1. exit' = exit
      BY <1>6 DEF EndSuite
    <3>2. total'[t] > 0 <=> total[t] > 0 \/ statistic[CurrentSuite(t)] > 0
      BY <2>3, <2>4
    <3> QED
      BY <2>1, <2>2, <2>3, <3>1, <3>2 DEF Remembered
  <2> QED
    BY <2>1, <2>5 DEF OneReport, Account
<1>7. ASSUME NEW X \in SUBSET Handler, NEW failed \in {0, 1}, NEW result \in BOOLEAN,
             RunTests(t, failed, result, X)
      PROVE  Goal
  <2>1. /\ Remembered(t) /\ pc[t] = "tests" /\ pc'[t] = "end" /\ listening' = t
        /\ suiteHandler[CurrentSuite(t)] = t /\ suites[t] # <<>>
        /\ CurrentSuite(t) \in Suite /\ CurrentSuite(t)' = CurrentSuite(t)
        /\ statistic[CurrentSuite(t)] = 0
    BY <1>0, <1>7 DEF RunTests, Account, OneReport, CurrentSuite
  <2>2. chainErrors'[t] <=> chainErrors[t] \/ X # {}
    BY <1>7, <2>1, DispatchEffect DEF RunTests
  <2>3. statistic'[CurrentSuite(t)] = failed /\ suiteResult'[t] = result
    BY <1>0, <1>7, <2>1 DEF RunTests
  <2>4. trouble'[t] = trouble[t] \cup (IF failed > 0 THEN {"failed"} ELSE {})
                                 \cup (IF result THEN {} ELSE {"hook"})
                                 \cup (IF X # {} THEN {"handler"} ELSE {})
    BY <1>00, <1>7 DEF RunTests
  <2>5. Remembered(t)'
    <3>1. exit' = exit /\ total' = total /\ hooksSucceeded' = hooksSucceeded
      BY <1>7 DEF RunTests
    <3> QED
      BY <2>1, <2>2, <2>3, <2>4, <3>1 DEF Remembered
  <2> QED
    BY <1>7, <2>1, <2>5 DEF RunTests, OneReport, Account
<1>8. ASSUME NEW X \in SUBSET Handler, NEW Y \in SUBSET Handler, Finish(t, X, Y)
      PROVE  Goal
  <2>1. /\ Remembered(t) /\ pc[t] = "suite" /\ pc'[t] = "out"
        /\ trouble'[t] = trouble[t] \cup IF X \cup Y # {} THEN {"handler"} ELSE {}
        /\ chainErrors'[t] <=> chainErrors[t] \/ X # {}
    BY <1>0, <1>00, <1>8, DispatchEffect DEF Trouble, Finish, Return, Account
  <2>2. exit'[t] = IF total[t] = 0 /\ hooksSucceeded[t] /\ ~(chainErrors'[t] \/ Y # {})
                   THEN 0 ELSE 1
    BY <1>0, <1>8 DEF Finish, Return, ExitCode, HandlerError
  <2>3. trouble[t] \subseteq {"rejected", "failed", "hook", "handler"} /\ total[t] \in Nat
    BY <1>0, <1>00 DEF TroubleKind
  <2>4. trouble[t] = {} <=> total[t] = 0 /\ hooksSucceeded[t] /\ ~chainErrors[t]
    BY <2>1, <2>3 DEF Remembered
  <2>5. Truthful(t)'
    BY <2>1, <2>2, <2>4 DEF Remembered, Truthful
  <2> QED
    BY <2>1, <2>5 DEF OneReport, Account
<1> QED
  BY <1>1, <1>2, <1>3, <1>4, <1>5, <1>6, <1>7, <1>8 DEF RunStep

-----------------------------------------------------------------------------
(* The invariant. *)

LEMMA InvInit == Init => Inv
<1> SUFFICES ASSUME Init PROVE Inv
  OBVIOUS
<1>1. Exclusion
  BY ThreadAssumption DEF Init, Exclusion, Locked, InReport
<1>2. ASSUME NEW t \in Thread PROVE OneReport(t) /\ Account(t)
  BY DEF Init, OneReport, Account, InReport, InSuite, BeforeSnapshot, Truthful
<1> QED
  BY <1>1, <1>2, TypeInit DEF Inv

(* Calling run() begins a new account.                                     *)
LEMMA CallStep ==
  ASSUME TypeOK, \A t \in Thread : OneReport(t) /\ Account(t),
         NEW c \in Thread, NEW valid \in BOOLEAN, Call(c, valid),
         NEW t \in Thread
  PROVE  OneReport(t)' /\ Account(t)'
<1>0. /\ pc \in [Thread -> Location] /\ exit \in [Thread -> ReturnCode]
      /\ trouble \in [Thread -> SUBSET TroubleKind]
      /\ emitted \in [Thread -> Nat] /\ ran \in [Thread -> [Suite -> Nat]]
  BY DEF TypeOK, RunTypes, HistoryTypes
<1>1. /\ suites' = suites /\ suiteHandler' = suiteHandler /\ statistic' = statistic
      /\ listening' = listening /\ total' = total /\ chainErrors' = chainErrors
      /\ hooksSucceeded' = hooksSucceeded /\ suiteResult' = suiteResult
  BY DEF Call, localVars
<1>2. CASE t # c
  <2>1. /\ pc'[t] = pc[t] /\ exit'[t] = exit[t] /\ trouble'[t] = trouble[t]
        /\ emitted'[t] = emitted[t] /\ ran'[t] = ran[t]
    BY <1>0, <1>2 DEF Call
  <2> QED
    BY <1>1, <2>1 DEF OneReport, Account, BeforeSnapshot, Untouched, Remembered,
                      Truthful, CurrentSuite
<1>3. CASE t = c
  <2>1. /\ pc'[t] = IF valid THEN "lock" ELSE "out"
        /\ exit'[t] = IF valid THEN -1 ELSE 2
        /\ trouble'[t] = IF valid THEN {} ELSE {"rejected"}
        /\ emitted'[t] = 0 /\ ran'[t] = [s \in Suite |-> 0]
    BY <1>0, <1>3 DEF Call
  <2> QED
    BY <2>1 DEF OneReport, Account, InReport, InSuite, BeforeSnapshot, Untouched, Truthful
<1> QED
  BY <1>2, <1>3

LEMMA InvStep ==
  ASSUME Inv, [Next]_vars
  PROVE  Inv'
<1>1. TypeOK /\ Exclusion /\ \A t \in Thread : OneReport(t) /\ Account(t)
  BY DEF Inv
<1>2. TypeOK' /\ Exclusion'
  BY <1>1, TypeStep, ExclusionStep
<1> SUFFICES ASSUME NEW u \in Thread PROVE OneReport(u)' /\ Account(u)'
  BY <1>2 DEF Inv
<1>3. ASSUME NEW t \in Thread, RunStep(t) PROVE OneReport(u)' /\ Account(u)'
  <2>1. CASE u = t
    BY <1>1, <1>3, <2>1, OwnStep
  <2>2. CASE u # t
    <3>1. /\ pc[u] \notin Locked /\ pc'[u] = pc[u]
          /\ exit'[u] = exit[u] /\ trouble'[u] = trouble[u]
          /\ emitted'[u] = emitted[u] /\ ran'[u] = ran[u]
      BY <1>1, <1>3, <2>2, Others
    <3> QED
      BY <1>1, <3>1 DEF OneReport, Account, Locked, InReport, InSuite, BeforeSnapshot,
                        Untouched, Truthful
  <2> QED
    BY <2>1, <2>2
<1>4. ASSUME NEW t \in Thread, NEW valid \in BOOLEAN, Call(t, valid)
      PROVE  OneReport(u)' /\ Account(u)'
  BY <1>1, <1>4, CallStep
<1>5. ASSUME NEW s \in Suite, RegisterSuite(s) \/ UnregisterSuite(s)
      PROVE  OneReport(u)' /\ Account(u)'
  BY <1>1, <1>5 DEF RegisterSuite, UnregisterSuite, localVars, handlerVars, OneReport,
                    Account, BeforeSnapshot, Untouched, Remembered, Truthful, CurrentSuite
<1>6. ASSUME UNCHANGED vars PROVE OneReport(u)' /\ Account(u)'
  BY <1>1, <1>6 DEF vars, localVars, historyVars, handlerVars, OneReport, Account,
                    BeforeSnapshot, Untouched, Remembered, Truthful, CurrentSuite
<1> QED
  BY <1>3, <1>4, <1>5, <1>6 DEF Next

LEMMA Invariant == Spec => []Inv
<1>1. Inv /\ [Next]_vars => Inv'
  BY InvStep
<1> QED
  BY <1>1, InvInit, PTL DEF Spec

(* Every variable stays in its range; run() returns 0, 1 or 2.             *)
THEOREM TypeCorrect == Spec => []TypeOK
<1>1. Inv => TypeOK
  BY DEF Inv
<1> QED
  BY <1>1, Invariant, PTL

(* However many threads call run(), no two runs overlap: the handlers hear *)
(* one report at a time, and a running suite reports to its own run.       *)
THEOREM RunsSerialized == Spec => []RunsDoNotInterleave
<1>1. Inv => RunsDoNotInterleave
  BY DEF Inv, RunsDoNotInterleave, OneReport, InSuite
<1> QED
  BY <1>1, Invariant, PTL

(* The value run() returns is 0 exactly if no test, no hook and no handler *)
(* failed in it, and 2 exactly if it was rejected before its first suite.  *)
THEOREM ExitCodeCorrect == Spec => []ExitCodeTellsTrouble
<1>1. Inv => ExitCodeTellsTrouble
  <2> SUFFICES ASSUME Inv, NEW t \in Thread, exit[t] # -1
               PROVE  /\ exit[t] = 0 <=> trouble[t] = {}
                      /\ exit[t] = 2 <=> "rejected" \in trouble[t]
                      /\ exit[t] = 2 => emitted[t] = 0 /\ \A s \in Suite : ran[t][s] = 0
    BY DEF ExitCodeTellsTrouble
  <2>1. pc[t] \in Location
    BY DEF Inv, TypeOK, RunTypes
  <2>2. pc[t] = "out"
    BY <2>1 DEF Inv, Account, Location, BeforeSnapshot, InReport, Untouched, Remembered
  <2> QED
    BY <2>2 DEF Inv, Account, Truthful
<1> QED
  BY <1>1, Invariant, PTL
-----------------------------------------------------------------------------
(* Whom an error warned of, and which suites ran. *)

(* A call made when an error was recorded gets no further than the check. *)
Warned(t) ==
    /\ erroredBefore[t] => configurationErrors
    /\ pc[t] \in InReport \cup {"snapshot"} => ~erroredBefore[t]
    /\ pc[t] = "out" /\ erroredBefore[t] => exit[t] \in {-1, 2}

(* The suites of the snapshot that have not been started. *)
Upcoming(t) == IF pc[t] \in InSuite THEN Tail(suites[t]) ELSE suites[t]

OnceEach(t) == \A s \in Suite : ran[t][s] <= (IF s \in seen[t] THEN 1 ELSE 0)

(* They are sorted, come after every suite that was started, and with      *)
(* those are all the suites present up to the snapshot.                    *)
Scheduled(t) ==
    /\ \A i, j \in 1..Len(Upcoming(t)) : i < j => Before(Upcoming(t)[i], Upcoming(t)[j])
    /\ \A i \in 1..Len(Upcoming(t)) :
          /\ Upcoming(t)[i] \in seen[t]
          /\ \A u \in Suite : ran[t][u] > 0 => Before(u, Upcoming(t)[i])
    /\ \A s \in present[t] :
          ran[t][s] = 1 \/ \E i \in 1..Len(Upcoming(t)) : Upcoming(t)[i] = s

Schedule(t) ==
    /\ OnceEach(t)
    /\ BeforeSnapshot(t) => /\ present[t] \subseteq registeredSuites
                            /\ registeredSuites \subseteq seen[t]
    /\ pc[t] \in InReport => Scheduled(t)
    /\ pc[t] = "out" /\ exit[t] \in {0, 1} => \A s \in present[t] : ran[t][s] = 1

ScheduleInv == Inv /\ \A t \in Thread : Warned(t) /\ Schedule(t)

-----------------------------------------------------------------------------

(* An error stays recorded, and the check rejects a run it warned of.      *)
LEMMA WarnedStep ==
  ASSUME Inv, [Next]_vars, NEW u \in Thread, Warned(u)
  PROVE  Warned(u)'
<1> DEFINE Goal == Warned(u)'
<1>0. /\ pc \in [Thread -> Location] /\ exit \in [Thread -> ReturnCode]
      /\ erroredBefore \in [Thread -> BOOLEAN] /\ configurationErrors \in BOOLEAN
  BY DEF Inv, TypeOK, SharedTypes, RunTypes, HistoryTypes
<1> USE DEF InReport
<1>1. ASSUME NEW t \in Thread, NEW X \in SUBSET Handler,
             Lock(t) \/ Configure(t, X) \/ CheckConfiguration(t)
      PROVE  Goal
  <2>1. erroredBefore' = erroredBefore /\ configurationErrors' = configurationErrors
    BY <1>1 DEF Lock, Configure, CheckConfiguration, registryVars, historyVars
  <2>2. CASE u # t
    <3>1. pc'[u] = pc[u] /\ exit'[u] = exit[u]
      BY <1>0, <1>1, <2>2 DEF Lock, Configure, CheckConfiguration, Return
    <3> QED
      BY <2>1, <3>1 DEF Warned
  <2>3. CASE u = t
    <3>1. \/ pc'[u] \in {"configure", "check"}
          \/ pc'[u] = "out" /\ exit'[u] = 2
          \/ pc'[u] = "snapshot" /\ ~configurationErrors
      BY <1>0, <1>1, <2>3 DEF Lock, Configure, CheckConfiguration, Return, Rejects
    <3> QED
      BY <1>0, <2>1, <3>1 DEF Warned
  <2> QED
    BY <2>2, <2>3
<1>2. ASSUME NEW t \in Thread, NEW X \in SUBSET Handler, NEW Y \in SUBSET Handler,
             NEW failed \in {0, 1}, NEW result \in BOOLEAN,
             \/ Snapshot(t, X) \/ StartSuite(t, X) \/ EndSuite(t, X)
             \/ RunTests(t, failed, result, X) \/ Finish(t, X, Y)
      PROVE  Goal
  <2>1. erroredBefore' = erroredBefore /\ configurationErrors' = configurationErrors
    BY <1>2 DEF Snapshot, StartSuite, EndSuite, RunTests, Finish, registryVars
  <2>2. CASE u # t
    <3>1. pc'[u] = pc[u] /\ exit'[u] = exit[u]
      BY <1>0, <1>2, <2>2 DEF Snapshot, StartSuite, EndSuite, RunTests, Finish, Return
    <3> QED
      BY <2>1, <3>1 DEF Warned
  <2>3. CASE u = t
    <3>1. pc[u] \in InReport \cup {"snapshot"}
      BY <1>2, <2>3 DEF Snapshot, StartSuite, EndSuite, RunTests, Finish
    <3> QED
      BY <1>0, <2>1, <3>1 DEF Warned
  <2> QED
    BY <2>2, <2>3
<1>3. ASSUME NEW t \in Thread, NEW valid \in BOOLEAN, Call(t, valid) PROVE Goal
  <2>1. configurationErrors' = configurationErrors
    BY <1>3 DEF Call, registryVars
  <2>2. CASE u # t
    <3>1. pc'[u] = pc[u] /\ exit'[u] = exit[u] /\ erroredBefore'[u] = erroredBefore[u]
      BY <1>0, <1>3, <2>2 DEF Call
    <3> QED
      BY <2>1, <3>1 DEF Warned
  <2>3. CASE u = t
    <3>1. /\ pc'[u] \in {"out", "lock"} /\ exit'[u] \in {-1, 2}
          /\ erroredBefore'[u] = configurationErrors
      BY <1>0, <1>3, <2>3 DEF Call
    <3> QED
      BY <1>0, <2>1, <3>1 DEF Warned
  <2> QED
    BY <2>2, <2>3
<1>4. ASSUME NEW s \in Suite, RegisterSuite(s) \/ UnregisterSuite(s) PROVE Goal
  <2>1. /\ UNCHANGED <<pc, exit, erroredBefore>>
        /\ configurationErrors => configurationErrors'
    BY <1>0, <1>4 DEF RegisterSuite, UnregisterSuite
  <2> QED
    BY <2>1 DEF Warned
<1>5. ASSUME UNCHANGED vars PROVE Goal
  BY <1>5 DEF vars, registryVars, historyVars, Warned
<1> QED
  <2>1. CASE \E t \in Thread : RunStep(t)
    <3> PICK t \in Thread : RunStep(t)
      BY <2>1
    <3>1. {} \in SUBSET Handler /\ 0 \in {0, 1} /\ TRUE \in BOOLEAN
      OBVIOUS
    <3> QED
      BY <1>1, <1>2, <3>1 DEF RunStep
  <2> QED
    BY <1>3, <1>4, <1>5, <2>1 DEF Next
(* The sequence of a snapshot holds each of its suites, in order.          *)
LEMMA SortsOrder ==
  ASSUME NEW S \in SUBSET Suite, NEW q \in Sorts(S)
  PROVE  /\ \A i \in 1..Len(q) : q[i] \in S
         /\ \A s \in S : \E i \in 1..Len(q) : q[i] = s
         /\ \A i, j \in 1..Len(q) : i < j => Before(q[i], q[j])
<1>1. IsFiniteSet(S)
  BY SuiteAssumption, FS_Subset
<1>2. Cardinality(S) \in Nat
  BY <1>1, FS_CardinalityType
<1>3. /\ q \in [1..Cardinality(S) -> S]
      /\ \A s \in S : \E i \in 1..Cardinality(S) : q[i] = s
      /\ \A i, j \in 1..Cardinality(S) : i < j => Before(q[i], q[j])
  BY DEF Sorts, Bijection, Injection, Surjection
<1>4. Len(q) = Cardinality(S)
  BY <1>2, <1>3
<1> QED
  BY <1>3, <1>4

LEMMA BeforeIsStrict ==
  ASSUME TypeOK, NEW s \in Suite, NEW u \in Suite, Before(s, u)
  PROVE  s # u
<1>1. order[s] \in Int /\ order[u] \in Int /\ s \in Int /\ u \in Int
  BY OrderAssumption, SuiteAssumption DEF TypeOK, SharedTypes
<1> QED
  BY <1>1 DEF Before

(* The first upcoming suite is started: it was not started before, and     *)
(* those left come after it as well.                                       *)
LEMMA StartsTheFirst ==
  ASSUME Inv, NEW t \in Thread, Schedule(t), NEW X \in SUBSET Handler, StartSuite(t, X)
  PROVE  /\ Schedule(t)'
         /\ CurrentSuite(t) \in Suite /\ ran[t][CurrentSuite(t)] = 0
         /\ ran' = [ran EXCEPT ![t][CurrentSuite(t)] = 1]
         /\ \A u \in Suite : ran[t][u] > 0 => Before(u, CurrentSuite(t))
<1> DEFINE first == CurrentSuite(t)
           rest == Tail(suites[t])
<1>1. /\ TypeOK /\ suites \in [Thread -> Seq(Suite)] /\ pc \in [Thread -> Location]
      /\ ran \in [Thread -> [Suite -> Nat]] /\ suites[t] # <<>>
      /\ seen \in [Thread -> SUBSET Suite] /\ present \in [Thread -> SUBSET Suite]
  BY DEF Inv, TypeOK, RunTypes, HistoryTypes, StartSuite
<1>2. /\ pc[t] = "suite" /\ pc'[t] = "tests"
      /\ UNCHANGED <<suites, order, present, seen, registeredSuites>>
  BY <1>1 DEF StartSuite, registryVars
<1>3. Upcoming(t) = suites[t] /\ Upcoming(t)' = rest
  BY <1>2 DEF Upcoming, InSuite
<1>4. /\ Len(rest) = Len(suites[t]) - 1 /\ Len(suites[t]) \in Nat \ {0}
      /\ \A i \in 1..Len(rest) : rest[i] = suites[t][i + 1] /\ i + 1 \in 1..Len(suites[t])
      /\ first = suites[t][1] /\ 1 \in 1..Len(suites[t])
      /\ first \in Suite
  BY <1>1 DEF CurrentSuite
<1>5. /\ Scheduled(t) /\ OnceEach(t)
  BY <1>2 DEF Schedule, InReport
<1>6. first \in seen[t] /\ \A u \in Suite : ran[t][u] > 0 => Before(u, first)
  BY <1>3, <1>4, <1>5 DEF Scheduled
<1>7. ran[t][first] = 0
  <2>1. ~Before(first, first)
    BY <1>1, <1>4, BeforeIsStrict
  <2> QED
    BY <1>1, <1>4, <1>6, <2>1
<1>8. ran' = [ran EXCEPT ![t][first] = 1]
  BY <1>1, <1>4, <1>7 DEF StartSuite
<1>9. \A u \in Suite : ran'[t][u] = IF u = first THEN 1 ELSE ran[t][u]
  BY <1>1, <1>4, <1>8
<1>10. \A s, u \in Suite : Before(s, u)' <=> Before(s, u)
  BY <1>2 DEF Before
<1>11. Scheduled(t)'
  <2>1. ASSUME NEW i \in 1..Len(rest), NEW j \in 1..Len(rest), i < j
        PROVE  Before(rest[i], rest[j])
    <3>1. Before(suites[t][i + 1], suites[t][j + 1])
      BY <1>3, <1>4, <1>5, <2>1 DEF Scheduled
    <3>2. rest[i] = suites[t][i + 1] /\ rest[j] = suites[t][j + 1]
      BY <1>4
    <3> QED
      BY <3>1, <3>2
  <2>2. ASSUME NEW i \in 1..Len(rest)
        PROVE  /\ rest[i] \in seen'[t]
               /\ \A u \in Suite : ran'[t][u] > 0 => Before(u, rest[i])'
    <3>1. /\ rest[i] \in seen[t] /\ rest[i] \in Suite
          /\ \A u \in Suite : ran[t][u] > 0 => Before(u, rest[i])
      BY <1>1, <1>3, <1>4, <1>5 DEF Scheduled
    <3>2. Before(first, rest[i])
      BY <1>3, <1>4, <1>5 DEF Scheduled
    <3> QED
      BY <1>2, <1>4, <1>9, <1>10, <3>1, <3>2
  <2>3. ASSUME NEW s \in present'[t]
        PROVE  ran'[t][s] = 1 \/ \E i \in 1..Len(rest) : rest[i] = s
    <3>1. s \in Suite /\ s \in present[t]
      BY <1>1, <1>2
    <3>2. ran[t][s] = 1 \/ \E i \in 1..Len(suites[t]) : suites[t][i] = s
      BY <1>3, <1>5, <3>1 DEF Scheduled
    <3>3. CASE s = first \/ ran[t][s] = 1
      BY <1>9, <3>1, <3>3
    <3>4. CASE s # first /\ ran[t][s] # 1
      <4>1. PICK i \in 1..Len(suites[t]) : suites[t][i] = s
        BY <3>2, <3>4
      <4>2. i - 1 \in 1..Len(rest) /\ rest[i - 1] = s
        BY <1>4, <3>4, <4>1
      <4> QED
        BY <4>2
    <3> QED
      BY <3>3, <3>4
  <2>4. \A i, j \in 1..Len(rest) : i < j => Before(rest[i], rest[j])'
    BY <1>2, <2>1 DEF Before
  <2> QED
    BY <1>2, <1>3, <2>2, <2>3, <2>4 DEF Scheduled
<1>12. OnceEach(t)'
  BY <1>2, <1>5, <1>6, <1>9 DEF OnceEach
<1> QED
  BY <1>2, <1>4, <1>6, <1>7, <1>8, <1>11, <1>12 DEF Schedule, BeforeSnapshot

(* The snapshot is the schedule of the report.                             *)
LEMMA SnapshotIsScheduled ==
  ASSUME Inv, NEW t \in Thread, Schedule(t), NEW X \in SUBSET Handler, Snapshot(t, X)
  PROVE  Schedule(t)'
<1>1. /\ TypeOK /\ suites \in [Thread -> Seq(Suite)] /\ pc \in [Thread -> Location]
      /\ registeredSuites \in SUBSET Suite
  BY DEF Inv, TypeOK, SharedTypes, RunTypes
<1>2. /\ pc[t] = "snapshot" /\ pc'[t] = "suite"
      /\ UNCHANGED <<order, ran, present, seen, registeredSuites>>
  BY <1>1 DEF Snapshot, registryVars
<1>3. PICK q \in Sorts(registeredSuites) : suites' = [suites EXCEPT ![t] = q]
  BY DEF Snapshot
<1>4. Upcoming(t)' = q
  BY <1>1, <1>2, <1>3 DEF Upcoming, InSuite
<1>5. /\ \A i \in 1..Len(q) : q[i] \in registeredSuites
      /\ \A s \in registeredSuites : \E i \in 1..Len(q) : q[i] = s
      /\ \A i, j \in 1..Len(q) : i < j => Before(q[i], q[j])
  BY <1>1, SortsOrder
<1>6. /\ OnceEach(t)
      /\ present[t] \subseteq registeredSuites /\ registeredSuites \subseteq seen[t]
      /\ \A u \in Suite : ran[t][u] = 0
  BY <1>2 DEF Inv, Account, Untouched, Schedule, BeforeSnapshot
<1>7. Scheduled(t)'
  <2>1. \A i, j \in 1..Len(q) : i < j => Before(q[i], q[j])'
    BY <1>2, <1>5 DEF Before
  <2>2. \A i \in 1..Len(q) : q[i] \in seen'[t] /\ \A u \in Suite : ~(ran'[t][u] > 0)
    BY <1>2, <1>5, <1>6
  <2>3. \A s \in present'[t] : \E i \in 1..Len(q) : q[i] = s
    BY <1>2, <1>5, <1>6
  <2> QED
    BY <1>2, <1>4, <2>1, <2>2, <2>3 DEF Scheduled
<1> QED
  BY <1>2, <1>6, <1>7 DEF Schedule, OnceEach, BeforeSnapshot

LEMMA OwnSchedule ==
  ASSUME Inv, NEW t \in Thread, Schedule(t), RunStep(t)
  PROVE  Schedule(t)'
<1> DEFINE Goal == Schedule(t)'
<1>0. /\ suites \in [Thread -> Seq(Suite)] /\ pc \in [Thread -> Location]
      /\ exit \in [Thread -> ReturnCode] /\ present \in [Thread -> SUBSET Suite]
  BY DEF Inv, TypeOK, RunTypes, HistoryTypes
<1>1. ASSUME NEW X \in SUBSET Handler, Lock(t) \/ Configure(t, X) \/ CheckConfiguration(t)
      PROVE  Goal
  <2>1. UNCHANGED <<ran, present, seen, registeredSuites>> /\ BeforeSnapshot(t)
    BY <1>1 DEF Lock, Configure, CheckConfiguration, registryVars, historyVars, BeforeSnapshot
  <2>2. pc'[t] \in {"configure", "check", "snapshot"} \/ (pc'[t] = "out" /\ exit'[t] = 2)
    BY <1>0, <1>1 DEF Lock, Configure, CheckConfiguration, Return
  <2> QED
    BY <2>1, <2>2 DEF Schedule, OnceEach, BeforeSnapshot, InReport
<1>2. ASSUME NEW X \in SUBSET Handler, NEW failed \in {0, 1}, NEW result \in BOOLEAN,
             RunTests(t, failed, result, X) \/ EndSuite(t, X)
      PROVE  Goal
  <2>1. /\ UNCHANGED <<order, ran, present, seen, registeredSuites>>
        /\ pc[t] \in InReport /\ pc'[t] \in InReport
    BY <1>0, <1>2 DEF RunTests, EndSuite, registryVars, InReport
  <2>2. Upcoming(t)' = Upcoming(t)
    BY <1>0, <1>2 DEF RunTests, EndSuite, NextSuites, Upcoming, InSuite
  <2>3. Scheduled(t)'
    BY <2>1, <2>2 DEF Schedule, Scheduled, Before
  <2> QED
    BY <2>1, <2>3 DEF Schedule, OnceEach, BeforeSnapshot, InReport
<1>3. ASSUME NEW X \in SUBSET Handler, NEW Y \in SUBSET Handler, Finish(t, X, Y)
      PROVE  Goal
  <2>1. /\ UNCHANGED <<ran, present, seen, registeredSuites>>
        /\ pc[t] = "suite" /\ suites[t] = <<>> /\ pc'[t] = "out"
    BY <1>0, <1>3 DEF Finish, Return, registryVars
  <2>2. \A s \in present[t] : ran[t][s] = 1
    BY <2>1 DEF Schedule, Scheduled, Upcoming, InReport, InSuite
  <2> QED
    BY <2>1, <2>2 DEF Schedule, OnceEach, BeforeSnapshot, InReport
<1>4. ASSUME NEW X \in SUBSET Handler, Snapshot(t, X) \/ StartSuite(t, X) PROVE Goal
  BY <1>4, SnapshotIsScheduled, StartsTheFirst
<1> QED
  <2>1. {} \in SUBSET Handler
    OBVIOUS
  <2> QED
    BY <1>1, <1>2, <1>3, <1>4, <2>1 DEF RunStep

(* A step that leaves a call and the suites it is about alone.              *)
LEMMA QuietSchedule ==
  ASSUME NEW u \in Thread, Schedule(u), UNCHANGED <<order, suites>>,
         pc'[u] = pc[u], exit'[u] = exit[u], ran'[u] = ran[u],
         present'[u] = present[u], seen'[u] = seen[u],
         BeforeSnapshot(u) => registeredSuites' = registeredSuites
  PROVE  Schedule(u)'
<1>1. Upcoming(u)' = Upcoming(u)
  BY DEF Upcoming
<1>2. Scheduled(u) => Scheduled(u)'
  BY <1>1 DEF Scheduled, Before
<1>3. OnceEach(u)'
  BY DEF Schedule, OnceEach
<1> QED
  BY <1>2, <1>3 DEF Schedule, BeforeSnapshot

LEMMA ScheduleStep ==
  ASSUME Inv, [Next]_vars, NEW u \in Thread, Schedule(u)
  PROVE  Schedule(u)'
<1> DEFINE Goal == Schedule(u)'
<1>0. /\ TypeOK /\ pc \in [Thread -> Location] /\ ran \in [Thread -> [Suite -> Nat]]
      /\ exit \in [Thread -> ReturnCode] /\ present \in [Thread -> SUBSET Suite]
      /\ seen \in [Thread -> SUBSET Suite] /\ registeredSuites \in SUBSET Suite
  BY DEF Inv, TypeOK, SharedTypes, RunTypes, HistoryTypes
<1>1. ASSUME NEW t \in Thread, RunStep(t) PROVE Goal
  <2>1. CASE u = t
    BY <1>1, <2>1, OwnSchedule
  <2>2. CASE u # t
    <3>1. pc[u] \notin Locked /\ pc'[u] = pc[u] /\ exit'[u] = exit[u] /\ ran'[u] = ran[u]
      BY <1>1, <2>2, Others DEF Inv
    <3>2. UNCHANGED <<present, seen, registeredSuites>>
      BY <1>1 DEF RunStep, Lock, Configure, CheckConfiguration, Snapshot, StartSuite,
                  RunTests, EndSuite, Finish, registryVars, historyVars
    <3> QED
      BY <3>1, <3>2 DEF Schedule, OnceEach, BeforeSnapshot, Locked
  <2> QED
    BY <2>1, <2>2
<1>2. ASSUME NEW t \in Thread, NEW valid \in BOOLEAN, Call(t, valid) PROVE Goal
  <2>1. CASE u # t
    <3>1. /\ pc'[u] = pc[u] /\ exit'[u] = exit[u] /\ ran'[u] = ran[u]
          /\ present'[u] = present[u] /\ seen'[u] = seen[u]
          /\ UNCHANGED <<registeredSuites, suites, order>>
      BY <1>0, <1>2, <2>1 DEF Call, registryVars, localVars
    <3> QED
      BY <3>1, QuietSchedule
  <2>2. CASE u = t
    <3>1. /\ pc'[u] \in {"out", "lock"} /\ exit'[u] \in {-1, 2}
          /\ ran'[u] = [s \in Suite |-> 0]
          /\ present'[u] = registeredSuites /\ seen'[u] = registeredSuites
          /\ registeredSuites' = registeredSuites
      BY <1>0, <1>2, <2>2 DEF Call, registryVars
    <3> QED
      BY <3>1 DEF Schedule, OnceEach, BeforeSnapshot, InReport
  <2> QED
    BY <2>1, <2>2
<1>3. ASSUME NEW s \in Suite, RegisterSuite(s) \/ UnregisterSuite(s) PROVE Goal
  <2>1. UNCHANGED <<pc, exit, ran, suites, order>>
    BY <1>3 DEF RegisterSuite, UnregisterSuite, localVars
  <2>2. CASE BeforeSnapshot(u)
    <3>1. \/ /\ registeredSuites' = registeredSuites \cup {s}
             /\ seen'[u] = seen[u] \cup {s} /\ present'[u] = present[u]
          \/ /\ registeredSuites' = registeredSuites \ {s}
             /\ seen'[u] = seen[u] /\ present'[u] = present[u] \ {s}
      BY <1>0, <1>3, <2>2 DEF RegisterSuite, UnregisterSuite, NameTaken
    <3>2. OnceEach(u)'
      BY <1>0, <2>1, <3>1 DEF Schedule, OnceEach
    <3>3. present'[u] \subseteq registeredSuites' /\ registeredSuites' \subseteq seen'[u]
      BY <2>2, <3>1 DEF Schedule
    <3> QED
      BY <2>1, <2>2, <3>2, <3>3 DEF Schedule, BeforeSnapshot, InReport
  <2>3. CASE ~BeforeSnapshot(u)
    <3>1. seen'[u] = seen[u] /\ present'[u] = present[u]
      BY <1>0, <1>3, <2>3 DEF RegisterSuite, UnregisterSuite
    <3> QED
      BY <2>1, <2>3, <3>1, QuietSchedule
  <2> QED
    BY <2>2, <2>3
<1>4. ASSUME UNCHANGED vars PROVE Goal
  BY <1>4, QuietSchedule DEF vars, registryVars, localVars, historyVars
<1> QED
  BY <1>1, <1>2, <1>3, <1>4 DEF Next

LEMMA ScheduleInvariant == Spec => []ScheduleInv
<1>1. Init => ScheduleInv
  <2> SUFFICES ASSUME Init PROVE ScheduleInv
    OBVIOUS
  <2>1. \A t \in Thread : Warned(t) /\ Schedule(t)
    BY DEF Init, Warned, Schedule, OnceEach, BeforeSnapshot, InReport
  <2> QED
    BY <2>1, InvInit DEF ScheduleInv
<1>2. ScheduleInv /\ [Next]_vars => ScheduleInv'
  <2> SUFFICES ASSUME ScheduleInv, [Next]_vars PROVE ScheduleInv'
    OBVIOUS
  <2>1. Inv /\ Inv'
    BY InvStep DEF ScheduleInv
  <2>2. ASSUME NEW t \in Thread PROVE Warned(t)' /\ Schedule(t)'
    <3>1. Warned(t) /\ Schedule(t)
      BY DEF ScheduleInv
    <3> QED
      BY <2>1, <3>1, WarnedStep, ScheduleStep
  <2> QED
    BY <2>1, <2>2 DEF ScheduleInv
<1> QED
  BY <1>1, <1>2, PTL DEF Spec

-----------------------------------------------------------------------------

(* run() does not return a verdict on tests once a configuration error was *)
(* recorded before the call.                                               *)
THEOREM ConfigurationErrorsKept == Spec => []ConfigurationErrorsReject
<1>1. ScheduleInv => ConfigurationErrorsReject
  <2> SUFFICES ASSUME ScheduleInv, NEW t \in Thread, erroredBefore[t], exit[t] # -1
               PROVE  exit[t] = 2
    BY DEF ConfigurationErrorsReject
  <2>1. pc[t] = "out"
    BY DEF ScheduleInv, Inv, TypeOK, RunTypes, Account, Location, BeforeSnapshot, InReport,
           Untouched, Remembered
  <2> QED
    BY <2>1 DEF ScheduleInv, Warned
<1> QED
  BY <1>1, ScheduleInvariant, PTL

(* A run that is not rejected runs the suites registered at its start,     *)
(* each once, whatever is registered and unregistered while it goes on.    *)
THEOREM SuitesRunOnce == Spec => []EverySuiteOnce
<1>1. ScheduleInv => EverySuiteOnce
  <2> SUFFICES ASSUME ScheduleInv, NEW t \in Thread, NEW s \in Suite
               PROVE  /\ ran[t][s] <= (IF s \in seen[t] THEN 1 ELSE 0)
                      /\ exit[t] \in {0, 1} /\ s \in present[t] => ran[t][s] = 1
    BY DEF EverySuiteOnce
  <2>1. exit[t] # -1 => pc[t] = "out"
    BY DEF ScheduleInv, Inv, TypeOK, RunTypes, Account, Location, BeforeSnapshot, InReport,
           Untouched, Remembered
  <2>2. OnceEach(t)
    BY DEF ScheduleInv, Schedule
  <2>3. exit[t] \in {0, 1} /\ s \in present[t] => ran[t][s] = 1
    BY <2>1 DEF ScheduleInv, Schedule
  <2> QED
    BY <2>2, <2>3 DEF OnceEach
<1> QED
  BY <1>1, ScheduleInvariant, PTL

(* Suites start by ascending order, then by name, in every run of every    *)
(* thread.                                                                 *)
THEOREM SuitesStartInOrder == Spec => SuitesInOrder
<1> DEFINE InOrder == \A t \in Thread, s \in Suite :
                          ran'[t][s] > ran[t][s] =>
                              \A u \in Suite : ran[t][u] > 0 => Before(u, s)
<1>1. ScheduleInv /\ [Next]_vars => [InOrder]_vars
  <2> SUFFICES ASSUME ScheduleInv, Next, NEW t \in Thread, NEW s \in Suite,
                      ran'[t][s] > ran[t][s], NEW u \in Suite, ran[t][u] > 0
               PROVE  Before(u, s)
    OBVIOUS
  <2>1. ran \in [Thread -> [Suite -> Nat]]
    BY DEF ScheduleInv, Inv, TypeOK, HistoryTypes
  <2>2. ran' # ran
    BY <2>1
  <2>3. ASSUME NEW c \in Thread, NEW valid \in BOOLEAN, Call(c, valid) PROVE FALSE
    <3>1. ran'[t][s] = 0 \/ ran'[t][s] = ran[t][s]
      BY <2>1, <2>3 DEF Call
    <3> QED
      BY <2>1, <3>1
  <2>4. PICK c \in Thread, X \in SUBSET Handler : StartSuite(c, X)
    BY <2>2, <2>3 DEF Next, RunStep, RegisterSuite, UnregisterSuite, Lock, Configure,
                      CheckConfiguration, Snapshot, RunTests, EndSuite, Finish, historyVars
  <2>5. /\ CurrentSuite(c) \in Suite
        /\ ran' = [ran EXCEPT ![c][CurrentSuite(c)] = 1]
        /\ \A v \in Suite : ran[c][v] > 0 => Before(v, CurrentSuite(c))
    BY <2>4, StartsTheFirst DEF ScheduleInv
  <2>6. t = c /\ s = CurrentSuite(c)
    BY <2>1, <2>5
  <2> QED
    BY <2>5, <2>6
<1> QED
  BY <1>1, ScheduleInvariant, PTL DEF Spec, SuitesInOrder
=============================================================================
